------------------------------ MODULE MCCorpus ------------------------------
(***************************************************************************)
(* Instances of Resolve for TLC.  The archives are those with any ranking  *)
(* of NumRows packages of two sources, each of a single release, and those *)
(* with one ranking and any history of the first source.                   *)
(***************************************************************************)
EXTENDS Resolve

CONSTANTS s1, s2, none

MCSources == {s1, s2}
MCUpstreams == 1 .. 6
MCLimit == [l \in Langs |-> 1]

\* Sources in the order of their first package.
Origins ==
  {o \in [Rows -> {s1, s2, none}] :
     \A r \in Rows : o[r] = s2 => \E q \in 1 .. r : o[q] = s1}

Ranked ==
  [candidate : {Rows, Rows \ {2}}, hint : {h \in [Rows -> Langs] : h[1] = "c"}, origin : Origins,
   ships : SUBSET Rows,
   versions : {[s \in MCSources |-> {1}]},
   upstream : {[s \in MCSources |-> [v \in Versions |-> 1]]},
   prerelease : {{}}, complete : {[r \in Rows |-> {1}]}]

\* Upstream 6 is a pre-release; the others in the order in which they are first released.
Histories ==
  {u \in [Versions -> MCUpstreams] :
     \A v \in Versions : u[v] \in 2 .. 5 => \E w \in 1 .. v : u[w] = u[v] - 1}

Released ==
  [candidate : {Rows}, hint : {[r \in Rows |-> IF r = 1 THEN "c" ELSE "cxx"]},
   origin : {[r \in Rows |-> IF r = 1 THEN s1 ELSE s2]},
   ships : {Rows},
   versions : {[s \in MCSources |-> IF s = s1 THEN Versions ELSE {2, 3, NumVersions}]},
   upstream : {[s \in MCSources |-> IF s = s1 THEN u ELSE [v \in Versions |-> IF v = 2 THEN 1 ELSE 2]] :
                 u \in Histories},
   prerelease : {{6}},
   complete : {[r \in Rows |-> IF r = 1 THEN c ELSE Versions] : c \in SUBSET Versions}]

MCArchives == Ranked \cup Released
==============================================================================
