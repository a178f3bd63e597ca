--------------------------- MODULE MCMaterialize ---------------------------
(***************************************************************************)
(* An instance of Materialize for TLC: a runtime package of two versions,  *)
(* its -dbgsym package of one, a -dev package of none, and a second        *)
(* process that uses the same cache.                                       *)
(***************************************************************************)
EXTENDS Materialize

CONSTANTS m, q

MCVersions == [rt |-> <<2, 1>>, dbg |-> <<2>>, dev |-> <<>>]
MCRuntime == <<"rt">>
MCDev == <<"dev">>
MCDbgsym == [rt |-> "dbg"]
MCPaths == {<<"rt", 2>>, <<"rt", 1>>, <<"dbg", 2>>}
MCOtherPaths == {<<"rt", 2>>}
MCWant == [runtime |-> TRUE, dbgsym |-> TRUE, dev |-> TRUE, max_download_bytes |-> 2]
MCArchives == {a \in [MCPaths -> 0 .. 2] : /\ a[<<"dbg", 2>>] = 1
                                            /\ <<a[<<"rt", 2>>], a[<<"rt", 1>>]>> \in {<<0, 2>>, <<2, 0>>}}
=============================================================================
