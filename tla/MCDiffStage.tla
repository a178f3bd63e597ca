----------------------------- MODULE MCDiffStage -----------------------------
(* Instances of DiffStage for TLC: one source package, adjacent jobs share   *)
(* the release between them.                                                 *)
EXTENDS DiffStage

CONSTANTS r1, r2, r3

RelSeq == <<r1, r2, r3>>
MCReleases == {RelSeq[k] : k \in 1 .. NumJobs + 1}
MCV1 == [j \in Jobs |-> RelSeq[j]]
MCV2 == [j \in Jobs |-> RelSeq[j + 1]]
MCLang == [j \in Jobs |-> IF j = 2 THEN "c" ELSE "cxx"]
==============================================================================
