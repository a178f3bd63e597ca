---------------------------- MODULE MCHeaderStage ----------------------------
(* Instances of HeaderStage for TLC: one source package with three releases. *)
EXTENDS HeaderStage

CONSTANTS r1, r2, r3

RelSeq == <<r1, r2, r3>>
MCReleases == {r1, r2, r3}
MCV1 == [j \in Jobs |-> RelSeq[j]]
MCV2 == [j \in Jobs |-> RelSeq[j + 1]]
MCLang == [j \in Jobs |-> IF j = 2 THEN "cxx" ELSE "c"]
MCHasDev == {r2, r3}
MCOld == {<<r2, "c">>, <<r3, "cxx">>}
==============================================================================
