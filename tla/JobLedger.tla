------------------------------ MODULE JobLedger ------------------------------
(***************************************************************************)
(* What a caller of run_diff may rely on, with nothing of its threads and  *)
(* processes: a study directory in which the set of recorded jobs only     *)
(* grows, through any number of interrupted runs, and a stage that reports *)
(* completion only when each job is recorded or was openly waived by the   *)
(* run (its process could not be started, its record not be written).      *)
(***************************************************************************)
CONSTANT Jobs

VARIABLES
  stage,        \* "stopped", "running" or "complete"
  recorded,     \* jobs with a pair file
  waived        \* jobs the current run let go without one

vars == <<stage, recorded, waived>>

Init ==
  /\ stage = "stopped"
  /\ recorded = {}
  /\ waived = {}

Open ==
  /\ stage # "running"
  /\ stage' = "running"
  /\ waived' = {}
  /\ UNCHANGED recorded

\* Also while no run is in progress: by a process an earlier run left behind.
Enter(j) ==
  /\ recorded' = recorded \cup {j}
  /\ UNCHANGED <<stage, waived>>

Waive(j) ==
  /\ stage = "running"
  /\ waived' = waived \cup {j}
  /\ UNCHANGED <<stage, recorded>>

Close ==
  /\ stage = "running"
  /\ Jobs \subseteq recorded \cup waived
  /\ stage' = "complete"
  /\ UNCHANGED <<recorded, waived>>

Break ==
  /\ stage = "running"
  /\ stage' = "stopped"
  /\ UNCHANGED <<recorded, waived>>

Next ==
  \/ Open \/ Close \/ Break
  \/ \E j \in Jobs : Enter(j) \/ Waive(j)

Spec == Init /\ [][Next]_vars
==============================================================================
