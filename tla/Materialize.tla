----------------------------- MODULE Materialize -----------------------------
(***************************************************************************)
(* pipeline::materialize for one release, by a process that calls the      *)
(* snapshot client, while other processes of the study do the same: the    *)
(* sizes are asked for, then each package is looked up, downloaded and     *)
(* extracted.                                                              *)
(***************************************************************************)
EXTENDS SnapshotClient, SequencesExt, FiniteSetsExt

CONSTANTS
  M,          \* the process that materialises the release
  OtherPaths, \* what the other processes ask for
  Runtime,    \* Release::runtime and Release::dev
  Dev,
  Dbgsym,     \* the -dbgsym package of a runtime package
  Versions,   \* the versions of a package, newest first (Release::binaries)
  Want,       \* roles wanted and max_download_bytes
  Archives    \* what the archive may have: the size of the amd64 or all package of a name and version, 0 if none

Names == DOMAIN Versions

ASSUME MaterializeAssumption ==
  /\ M \in Procs /\ OtherPaths \subseteq Paths
  /\ Runtime \in Seq(Names) /\ Dev \in Seq(Names)
  /\ \A b \in Names : /\ Versions[b] \in Seq({a[2] : a \in Paths})
                       /\ \A n \in DOMAIN Versions[b] : <<b, Versions[b][n]>> \in Paths
  /\ Want.runtime \in BOOLEAN /\ Want.dbgsym \in BOOLEAN /\ Want.dev \in BOOLEAN
  /\ Want.max_download_bytes \in Nat
  /\ Archives \subseteq [Paths -> Nat]

VARIABLES
  archive,  \* never changes
  mat       \* where materialize is

vars == <<clientVars, archive, mat>>

\* The packages of the roles wanted, in the order in which they are sized and fetched.
Wanted ==
  FlattenSeq([n \in DOMAIN Runtime |->
                (IF Want.runtime THEN <<Runtime[n]>> ELSE <<>>)
                \o (IF Want.dbgsym THEN <<Dbgsym[Runtime[n]]>> ELSE <<>>)])
  \o (IF Want.dev THEN Dev ELSE <<>>)

\* Versions has an entry for each of them, without versions when the archive knew of none.
ASSUME WantedAssumption == Wanted \in Seq(Names)

\* at: "list" asks for the files of version v of package n, "size" asks for the size of its .deb, "deb" downloads
\* it, "extract" unpacks it.  asked is history: what came back for the size of the n-th package.
Start ==
  [phase |-> IF Want.max_download_bytes # 0 THEN "estimate" ELSE "fetch", at |-> "list", n |-> 1, v |-> 1,
   total |-> 0, missing |-> <<>>, extracted |-> <<>>, asked |-> {}]

Init ==
  /\ ClientInit
  /\ archive \in Archives
  /\ mat = Start

Name == Wanted[mat.n]
Path == <<Name, Versions[Name][mat.v]>>
Size == archive[Path]
Working(phase, at) == mat.phase = phase /\ mat.at = at
NextName(m) == [m EXCEPT !.at = "list", !.n = @ + 1, !.v = 1]

\* The result of a call is taken and the call ended.
Take(p) == call[p].at = "returned" /\ call' = [call EXCEPT ![p] = Idle] /\ UNCHANGED <<clock, cache, archive>>

\* An error of any call ends it, and so does a list of files that is not of the
\* shape expected; the scratch directory goes with the result.
CallFails ==
  /\ mat.phase \in {"estimate", "fetch"}
  /\ Take(M) /\ (call[M].result # "ok" \/ mat.at = "list")
  /\ mat' = [mat EXCEPT !.phase = "failed"]
  /\ dest' = [dest EXCEPT ![M] = "none"]
-----------------------------------------------------------------------------
\* Ask for the files of a version; a package without versions is passed over.
AskFiles ==
  /\ mat.phase \in {"estimate", "fetch"} /\ mat.at = "list" /\ mat.n <= Len(Wanted)
  /\ mat.v <= Len(Versions[Name])
  /\ Api(M, Path)
  /\ UNCHANGED <<archive, mat>>

\* estimate_download_bytes looks at the first version of each package only.
EstimateListed ==
  /\ Working("estimate", "list") /\ Take(M) /\ call[M].result = "ok"
  /\ mat' = IF Size = 0 THEN NextName(mat) ELSE [mat EXCEPT !.at = "size"]
  /\ UNCHANGED dest

NoVersions ==
  /\ Working("estimate", "list") /\ mat.n <= Len(Wanted) /\ Versions[Name] = <<>>
  /\ mat' = NextName(mat)
  /\ UNCHANGED <<clientVars, archive>>

AskSize ==
  /\ Working("estimate", "size")
  /\ ContentLength(M)
  /\ UNCHANGED <<archive, mat>>

\* The length of the file; none, counted as 0; or that of an error page, which is next to nothing.
Sized ==
  /\ Working("estimate", "size") /\ Take(M) /\ call[M].result = "ok"
  /\ \E got \in IF call[M].answers = <<"ok">> THEN {"size", "no_length"} ELSE {"error_page"} :
       mat' = [NextName(mat) EXCEPT !.total = IF got = "size" THEN @ + Size ELSE @,
                                    !.asked = @ \cup {<<mat.n, Path, got>>}]
  /\ UNCHANGED dest

\* (Seeded fault: the budget is what remains, as for a size that is not known.)
Never == FALSE

OverBudget == mat.total > Want.max_download_bytes

Estimated ==
  /\ Working("estimate", "list") /\ mat.n > Len(Wanted)
  /\ mat' = IF OverBudget THEN [mat EXCEPT !.phase = "too_large"]
                          ELSE [mat EXCEPT !.phase = "fetch", !.n = 1, !.v = 1]
  /\ UNCHANGED <<clientVars, archive>>
-----------------------------------------------------------------------------
\* fetch_one: the first version that has a file.

\* (Seeded fault: only the newest version is looked at.)
GiveUpOnFirst(m) == [m EXCEPT !.v = Len(Versions[Name]) + 1]

NextVersion(m) == [m EXCEPT !.v = @ + 1]

FetchListed ==
  /\ Working("fetch", "list") /\ Take(M) /\ call[M].result = "ok"
  /\ mat' = IF Size = 0 THEN NextVersion(mat) ELSE [mat EXCEPT !.at = "deb"]
  /\ UNCHANGED dest

Missing ==
  /\ Working("fetch", "list") /\ mat.n <= Len(Wanted) /\ mat.v > Len(Versions[Name])
  /\ mat' = [NextName(mat) EXCEPT !.missing = Append(@, Name)]
  /\ UNCHANGED <<clientVars, archive>>

FetchDeb ==
  /\ Working("fetch", "deb")
  /\ Download(M)
  /\ UNCHANGED <<archive, mat>>

Fetched ==
  /\ Working("fetch", "deb") /\ Take(M) /\ call[M].result = "ok"
  /\ mat' = [mat EXCEPT !.at = "extract"]
  /\ UNCHANGED dest

\* The .deb is deleted whether it could be extracted or not; dest stands for
\* the file of the next package from here on.
Extract ==
  /\ Working("fetch", "extract")
  /\ \E ok \in BOOLEAN :
       /\ mat' = IF ok THEN [NextName(mat) EXCEPT !.extracted = Append(@, Path)]
                       ELSE [mat EXCEPT !.phase = "failed"]
       /\ dest' = [dest EXCEPT ![M] = "none"]
  /\ UNCHANGED <<clock, cache, call, archive>>

Complete ==
  /\ Working("fetch", "list") /\ mat.n > Len(Wanted)
  /\ mat' = [mat EXCEPT !.phase = "done"]
  /\ UNCHANGED <<clientVars, archive>>
-----------------------------------------------------------------------------
Materializes ==
  \/ AskFiles \/ EstimateListed \/ NoVersions \/ AskSize \/ Sized \/ Estimated
  \/ FetchListed \/ Missing \/ FetchDeb \/ Fetched \/ Extract \/ Complete \/ CallFails

\* Other processes share the cache, and nothing else.
OtherCalls(p) == (\E a \in OtherPaths : Api(p, a)) \/ Return(p)

Next ==
  \/ Materializes
  \/ \E p \in Procs : ClientStep(p) /\ UNCHANGED <<archive, mat>>
  \/ \E p \in Procs \ {M} : OtherCalls(p) /\ UNCHANGED <<archive, mat>>
  \/ Tick /\ UNCHANGED <<archive, mat>>

Spec == Init /\ [][Next]_vars

\* A process that is not killed goes on, and libcurl gives every GET an end: it aborts a transfer
\* that stays below 1 KiB/s for two minutes (client.cpp:109-111).  Nothing is assumed of a HEAD
\* request, which has no such limit (client.cpp:177-187).
Fairness ==
  /\ WF_vars(Materializes)
  /\ \A p \in Procs : WF_vars(Proceeds(p) /\ UNCHANGED <<archive, mat>>)
FairSpec == Spec /\ Fairness
-----------------------------------------------------------------------------
Fetchable(b) == \E n \in DOMAIN Versions[b] : archive[<<b, Versions[b][n]>>] > 0
Newest(b) ==
  LET n == Min({k \in DOMAIN Versions[b] : archive[<<b, Versions[b][k]>>] > 0}) IN <<b, Versions[b][n]>>
Downloaded == SumFunction([n \in DOMAIN mat.extracted |-> archive[mat.extracted[n]]])
\* The packages that are downloaded in a version whose size is not in the estimate.
Unseen == {n \in DOMAIN Wanted : Fetchable(Wanted[n]) /\ <<n, Newest(Wanted[n]), "size">> \notin mat.asked}
UnseenBytes == SumFunctionOnSet([n \in Unseen |-> archive[Newest(Wanted[n])]], Unseen)

\* Of the first n packages, what is to be extracted, and those that have no file in any version.
Extractable[n \in 0 .. Len(Wanted)] ==
  IF n = 0 THEN <<>>
  ELSE IF Fetchable(Wanted[n]) THEN Append(Extractable[n - 1], Newest(Wanted[n])) ELSE Extractable[n - 1]
Unavailable[n \in 0 .. Len(Wanted)] ==
  IF n = 0 THEN <<>>
  ELSE IF Fetchable(Wanted[n]) THEN Unavailable[n - 1] ELSE Append(Unavailable[n - 1], Wanted[n])

\* A release is complete: every package asked for, in order, is extracted in its newest version that
\* has a file, or listed as missing when none has (materialize.cpp:26-48, 137-158).
ExtractedOrMissing ==
  mat.phase = "done" =>
    mat.extracted = Extractable[Len(Wanted)] /\ mat.missing = Unavailable[Len(Wanted)]

\* What is downloaded exceeds the budget by no more than the packages whose size the estimate
\* did not see (materialize.cpp:75-104, 127-136).
BudgetBinds ==
  mat.phase = "done" /\ Want.max_download_bytes # 0 =>
    Downloaded <= Want.max_download_bytes + UnseenBytes
=============================================================================
