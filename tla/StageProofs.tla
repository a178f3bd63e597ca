----------------------------- MODULE StageProofs -----------------------------
(***************************************************************************)
(* Proofs about the diff stage and the headers stage, for any plan, any    *)
(* number of workers and processes, any number of runs.  The child's steps *)
(* are first reduced to what the parent can see of them (ChildStepEffect); *)
(* IInv is then shown to be inductive, action by action, and each promise  *)
(* of the diff stage follows from it.  The headers stage only adds         *)
(* indexes, so IInv survives it; and once a pair is settled no later step  *)
(* of the diff stage touches its record (QuietStep), which is what the     *)
(* header records rely on.                                                 *)
(***************************************************************************)
EXTENDS HeaderStage, FiniteSetTheorems, SequenceTheorems, TLAPS

\* The pool is never empty: std::max(1, workers) threads (diff.cpp:272).
LEMMA ThreadsNonEmpty == Threads # {}
  BY PoolAssumption, FS_EmptySet, SMT

(***************************************************************************)
(* What one step of a child looks like from outside: it is still there, on *)
(* the same job, or it was an orphan and is gone.                          *)
(***************************************************************************)
Moved(p) ==
  /\ orphans' = orphans
  /\ \E c \in Child :
       /\ child' = [child EXCEPT ![p] = c]
       /\ c.job = child[p].job
       /\ c.st # "free"
       /\ p \in orphans => c.st \in Stages

Vanished(p) ==
  /\ p \in orphans
  /\ child' = [child EXCEPT ![p] = NoChild]
  /\ orphans' = orphans \ {p}

Visible(p) == Moved(p) \/ Vanished(p)

\* A child that is at a stage of diff_one stays on its job.
LEMMA BecomesVisible ==
  ASSUME ChildTypeOK, NEW p \in Pids, Alive(p),
         NEW st \in Stages, NEW out \in {"none"} \cup ChildResults, NEW dirs \in 0 .. 2,
         Becomes(p, st, out, dirs)
  PROVE  /\ Visible(p) /\ leaked' = leaked
         /\ child'[p].st = st
<1> DEFINE c == [child[p] EXCEPT !.st = st, !.out = out, !.dirs = dirs]
<1>1. child[p] \in Child
  BY DEF ChildTypeOK
<1>2. c \in Child /\ c.job = child[p].job /\ c.st = st
  BY <1>1 DEF Child
<1>3. child' = [child EXCEPT ![p] = c] /\ orphans' = orphans /\ leaked' = leaked
  BY DEF Becomes
<1>4. st # "free"
  BY DEF Stages
<1> QED
  BY <1>2, <1>3, <1>4 DEF Visible, Moved, ChildTypeOK

\* A process that ends is a zombie of its parent, or was an orphan.
LEMMA EndsVisible ==
  ASSUME ChildTypeOK, NEW p \in Pids, Alive(p), NEW how \in Zombie, Ends(p, how)
  PROVE  Visible(p) /\ child'[p].st \in {how, "free"}
<1> DEFINE c == [child[p] EXCEPT !.st = how, !.dirs = 0]
<1>1. child[p] \in Child
  BY DEF ChildTypeOK
<1> 0 \in 0 .. 2
  OBVIOUS
<1>2. c \in Child /\ c.job = child[p].job /\ c.st = how
  BY <1>1, how \in Stages \cup Zombie \cup {"free"} DEF Child
<1> how # "free"
  BY DEF Zombie
<1>3. CASE p \in orphans
  BY <1>3 DEF Ends, Visible, Vanished, ChildTypeOK, NoChild
<1>4. CASE p \notin orphans
  <2>1. child' = [child EXCEPT ![p] = c] /\ orphans' = orphans
    BY <1>4 DEF Ends
  <2> QED
    BY <2>1, <1>2, <1>4 DEF Visible, Moved, ChildTypeOK
<1> QED
  BY <1>3, <1>4

\* A signal may leave scratch directories of the child's job behind.
LEMMA ScratchType ==
  ASSUME ChildTypeOK, NEW p \in Pids, Alive(p),
         NEW why \in {"abandoned", "unremoved"}, LeavesScratch(p, why)
  PROVE  leaked' \subseteq Leaks
<1>1. child[p].job \in Jobs /\ leaked \subseteq Leaks
  BY DEF ChildTypeOK, Alive, Stages
<1>2. <<child[p].job, why>> \in Leaks
  BY <1>1 DEF Leaks
<1> QED
  BY <1>1, <1>2 DEF LeavesScratch

LEMMA DiesVisible ==
  ASSUME ChildTypeOK, NEW p \in Pids, Alive(p), Dies(p)
  PROVE  /\ Visible(p) /\ leaked' \subseteq Leaks
         /\ child'[p].st \in {"signalled", "free"}
<1>1. Ends(p, "signalled") /\ LeavesScratch(p, "abandoned")
  BY DEF Dies
<1> QED
  BY <1>1, EndsVisible, ScratchType DEF Zombie

\* So may a removal that fails.
LEMMA ExitsVisible ==
  ASSUME ChildTypeOK, NEW p \in Pids, Alive(p), NEW how \in Zombie, Exits(p, how)
  PROVE  /\ Visible(p) /\ leaked' \subseteq Leaks
         /\ child'[p].st \in {how, "free"}
<1>1. /\ Ends(p, how)
      /\ leaked' = leaked \/ LeavesScratch(p, "unremoved")
  BY DEF Exits
<1> QED
  BY <1>1, EndsVisible, ScratchType DEF ChildTypeOK

\* A log line moves the child on, or kills an orphan.
LEMMA LogsVisible ==
  ASSUME ChildTypeOK, NEW p \in Pids, Alive(p),
         NEW st \in Stages, NEW out \in {"none"} \cup ChildResults, LogsThen(p, st, out)
  PROVE  /\ Visible(p) /\ leaked' \subseteq Leaks
         /\ child'[p].st \in {st, "signalled", "free"}
<1>1. child[p].dirs \in 0 .. 2
  BY DEF ChildTypeOK, Child
<1> QED
  BY <1>1, DiesVisible, BecomesVisible DEF LogsThen, ChildTypeOK

(***************************************************************************)
(* All a step of a child does to the rest of the stage.                    *)
(***************************************************************************)
ChildEffect(p) ==
  /\ Alive(p) /\ Visible(p)
  /\ leaked' \subseteq Leaks
  /\ index' \subseteq Releases \X Langs
  /\ unindexed' \subseteq Releases \X Langs
  /\ pairs' \in [Jobs -> PairFiles]
  /\ \A j \in Jobs : /\ pairs'[j] = "none" => pairs[j] = "none"
                     /\ pairs'[j] = "killed" => pairs[j] = "killed"
  /\ child'[p].st \in {"teardown", "exited0"} => pairs'[child[p].job] # "none"

\* Both sides of a pair name a header index.
LEMMA KeyType ==
  ASSUME ChildTypeOK, NEW p \in Pids, Alive(p), NEW s \in {1, 2}
  PROVE  Key(p, s) \in Releases \X Langs
<1>1. child[p].job \in Jobs
  BY DEF ChildTypeOK, Alive, Stages
<1>2. SideOf(s)[child[p].job] \in Releases
  BY <1>1, PlanAssumption DEF SideOf
<1>3. IndexLang(child[p].job, child[p].out) \in Langs
  BY <1>1, PlanAssumption DEF IndexLang, Langs
<1> QED
  BY <1>2, <1>3 DEF Key

LEMMA ChildStepEffect ==
  ASSUME ChildTypeOK, CommittedInv, ChildInv, NEW p \in Pids, ChildStep(p)
  PROVE  ChildEffect(p)
<1>0. /\ child[p] \in Child /\ child[p].out \in {"none"} \cup ChildResults
      /\ child[p].dirs \in 0 .. 2
      /\ Alive(p) => child[p].job \in Jobs
  BY DEF ChildTypeOK, Child, Alive, Stages
<1>k. ASSUME Alive(p), NEW s \in {1, 2}
      PROVE  Key(p, s) \in Releases \X Langs
  BY <1>k, KeyType
<1> DEFINE Silent == pairs' = pairs /\ index' = index /\ unindexed' = unindexed
<1>q. ASSUME Alive(p), Visible(p), leaked' \subseteq Leaks,
             child'[p].st \notin {"teardown", "exited0"},
             pairs' = pairs,
             index' \subseteq Releases \X Langs, unindexed' \subseteq Releases \X Langs
      PROVE  ChildEffect(p)
  BY <1>q DEF ChildEffect, ChildTypeOK
<1>x. ASSUME Alive(p), Exits(p, "exited1"), Silent
      PROVE  ChildEffect(p)
  <2>1. /\ Visible(p) /\ leaked' \subseteq Leaks
        /\ child'[p].st \in {"exited1", "free"}
    BY <1>x, ExitsVisible DEF Zombie
  <2> QED
    BY <2>1, <1>q, <1>x DEF ChildTypeOK
<1>2. CASE OverBudget(p)
  <2>1. Alive(p) /\ "save" \in Stages /\ "skipped" \in ChildResults /\ 0 \in 0 .. 2
    BY <1>2 DEF OverBudget, At, Alive, Stages, ChildResults
  <2>2. Visible(p) /\ leaked' = leaked /\ child'[p].st = "save"
    BY <2>1, <1>2, BecomesVisible DEF OverBudget
  <2> QED
    BY <2>1, <2>2, <1>q, <1>2 DEF OverBudget, ChildTypeOK
<1>3. CASE Fetch(p)
  <2>1. /\ Alive(p) /\ "fetch1" \in Stages /\ "fetch2" \in Stages
        /\ 1 \in 0 .. 2 /\ 2 \in 0 .. 2
    BY <1>3 DEF Fetch, At, Alive, Stages
  <2>2. Visible(p) /\ leaked' = leaked /\ child'[p].st \in {"fetch1", "fetch2"}
    BY <2>1, <1>3, BecomesVisible DEF Fetch
  <2> QED
    BY <2>1, <2>2, <1>q, <1>3 DEF Fetch, ChildTypeOK
<1>4. CASE Fails(p)
  BY <1>4, <1>x DEF Fails
<1>5. CASE Fetched(p)
  <2>1. /\ Alive(p) /\ "save" \in Stages /\ "compare" \in Stages
        /\ "skipped" \in ChildResults /\ 2 \in 0 .. 2
    BY <1>5 DEF Fetched, At, Alive, Stages, ChildResults
  <2>2. CASE Becomes(p, "save", "skipped", 2)
    <3>1. Visible(p) /\ leaked' = leaked /\ child'[p].st = "save"
      BY <2>1, <2>2, BecomesVisible
    <3> QED
      BY <3>1, <2>1, <1>q, <1>5 DEF Fetched, ChildTypeOK
  <2>3. CASE LogsThen(p, "compare", "none")
    <3>1. /\ Visible(p) /\ leaked' \subseteq Leaks
          /\ child'[p].st \in {"compare", "signalled", "free"}
      BY <2>1, <2>3, LogsVisible
    <3> QED
      BY <3>1, <2>1, <1>q, <1>5 DEF Fetched, ChildTypeOK
  <2> QED
    BY <2>2, <2>3, <1>5 DEF Fetched
<1>6. CASE Compare(p)
  <2>1. /\ Alive(p) /\ "index1" \in Stages /\ "save" \in Stages
        /\ {"ok", "uncompared"} \subseteq ChildResults /\ 2 \in 0 .. 2
    BY <1>6 DEF Compare, At, Alive, Stages, ChildResults
  <2>2. /\ Visible(p) /\ leaked' \subseteq Leaks
        /\ child'[p].st \in {"index1", "save", "signalled", "free"}
    <3>1. CASE Becomes(p, "index1", "ok", 2)
      BY <3>1, <2>1, BecomesVisible DEF ChildTypeOK
    <3>2. ASSUME NEW out \in {"ok", "uncompared"}, LogsThen(p, "index1", out)
          PROVE  /\ Visible(p) /\ leaked' \subseteq Leaks
                 /\ child'[p].st \in {"index1", "signalled", "free"}
      BY <3>2, <2>1, LogsVisible
    <3> QED
      BY <3>1, <3>2, <1>6 DEF Compare, IndexHeaders
  <2> QED
    BY <2>1, <2>2, <1>q, <1>6 DEF Compare, ChildTypeOK
<1>7. ASSUME NEW s \in {1, 2}, CheckIndex(p, s)
      PROVE  ChildEffect(p)
  <2>1. /\ Alive(p) /\ AfterIndex(s) \in Stages /\ BuildSt(s) \in Stages
        /\ AfterIndex(s) \notin {"teardown", "exited0"}
        /\ BuildSt(s) \notin {"teardown", "exited0"} /\ 2 \in 0 .. 2
    BY <1>7 DEF CheckIndex, At, Alive, Stages, AfterIndex, BuildSt, IndexSt
  <2>2. /\ Visible(p) /\ leaked' = leaked
        /\ child'[p].st \in {AfterIndex(s), BuildSt(s)}
    BY <2>1, <1>7, <1>0, BecomesVisible DEF CheckIndex, Fresh
  <2> QED
    BY <2>1, <2>2, <1>q, <1>7 DEF CheckIndex, ChildTypeOK
<1>8. ASSUME NEW s \in {1, 2}, BuildIndex(p, s) \/ BuildIndexFails(p, s)
      PROVE  ChildEffect(p)
  <2>1. /\ Alive(p) /\ AfterIndex(s) \in Stages
        /\ AfterIndex(s) \notin {"teardown", "exited0"} /\ 2 \in 0 .. 2
    BY <1>8 DEF BuildIndex, BuildIndexFails, At, Alive, Stages, AfterIndex, BuildSt
  <2>2. /\ Visible(p) /\ leaked' \subseteq Leaks
        /\ child'[p].st \in {AfterIndex(s), "signalled", "free"}
    <3>1. CASE Dies(p)
      BY <3>1, <2>1, DiesVisible
    <3>2. CASE Becomes(p, AfterIndex(s), Fresh(p), 2)
      BY <3>2, <2>1, <1>0, BecomesVisible DEF Fresh, ChildTypeOK
    <3>3. CASE LogsThen(p, AfterIndex(s), Fresh(p))
      BY <3>3, <2>1, <1>0, LogsVisible DEF Fresh
    <3> QED
      BY <3>1, <3>2, <3>3, <1>8 DEF BuildIndex, BuildIndexFails
  <2>3. /\ pairs' = pairs
        /\ index' \subseteq Releases \X Langs /\ unindexed' \subseteq Releases \X Langs
    BY <2>1, <1>k, <1>8 DEF BuildIndex, BuildIndexFails, ChildTypeOK
  <2> QED
    BY <2>1, <2>2, <2>3, <1>q
<1>9. CASE SavePair(p)
  <2>1. Alive(p) /\ "teardown" \in Stages
    BY <1>9 DEF SavePair, At, Alive, Stages
  <2>2. Visible(p) /\ leaked' = leaked
    BY <2>1, <1>9, <1>0, BecomesVisible DEF SavePair, Fresh
  <2>3. child[p].out \in ChildResults /\ child[p].job \in Jobs
    BY <2>1, <1>9, <1>0 DEF SavePair, At, ChildInv
  <2>4. pairs' = [pairs EXCEPT ![child[p].job] = child[p].out]
    BY <1>9 DEF SavePair
  <2>5. child[p].out \notin {"none", "killed"} /\ child[p].out \in PairFiles
    BY <2>3 DEF ChildResults, PairFiles
  <2> QED
    BY <2>1, <2>2, <2>3, <2>4, <2>5, <1>9 DEF SavePair, ChildEffect, ChildTypeOK
<1>11. CASE Teardown(p)
  <2>1. Alive(p)
    BY <1>11 DEF Teardown, At, Alive, Stages
  <2>2. Visible(p) /\ leaked' \subseteq Leaks
    BY <2>1, <1>11, ExitsVisible DEF Teardown, Zombie
  <2>3. pairs[child[p].job] # "none"
    BY <1>11 DEF Teardown, At, CommittedInv
  <2> QED
    BY <2>1, <2>2, <2>3, <1>11 DEF Teardown, ChildEffect, ChildTypeOK
<1>12. CASE Crash(p)
  <2>1. /\ Alive(p) /\ Visible(p) /\ leaked' \subseteq Leaks
        /\ child'[p].st \in {"signalled", "free"}
    BY <1>12, DiesVisible DEF Crash
  <2> QED
    BY <2>1, <1>q, <1>12 DEF Crash, ChildTypeOK
<1> QED
  BY <1>2, <1>3, <1>4, <1>5, <1>6, <1>7, <1>8, <1>9, <1>11, <1>12 DEF ChildStep

(***************************************************************************)
(* The child's part of the invariant.  Indexes are never removed, so only  *)
(* the child that takes the step is at stake.                              *)
(***************************************************************************)
LEMMA IndexedStays ==
  ASSUME ChildTypeOK, NEW q \in Pids, NEW s \in {1, 2},
         Indexed(q, s), child'[q].job = child[q].job, child'[q].out = child[q].out,
         index \subseteq index', unindexed \subseteq unindexed'
  PROVE  Indexed(q, s)'
  BY DEF Indexed, Key, SideOf, IndexLang

LEMMA OthersStay ==
  ASSUME ChildTypeOK, NEW p \in Pids, NEW q \in Pids, q # p, Visible(p)
  PROVE  child'[q] = child[q]
  BY DEF Visible, Moved, Vanished, ChildTypeOK

LEMMA ChildInvStep ==
  ASSUME ChildTypeOK, ChildInv, CommittedInv, NEW p \in Pids, ChildStep(p)
  PROVE  ChildInv'
<1> DEFINE CInv(q) ==
      /\ child[q].st \in {"index1", "build1", "index2", "build2"}
           => child[q].out \in {"ok", "uncompared"}
      /\ At(q, "save") => child[q].out \in ChildResults
      /\ child[q].st \in {"index2", "build2"} => Indexed(q, 1)
      /\ At(q, "save") /\ child[q].out # "skipped" => Indexed(q, 1) /\ Indexed(q, 2)
<1>1. Alive(p) /\ Visible(p)
  BY ChildStepEffect DEF ChildEffect
<1>2. index \subseteq index' /\ unindexed \subseteq unindexed'
  BY DEF ChildStep, OverBudget, Fetch, Fetched, Compare,
         CheckIndex, BuildIndex, BuildIndexFails, SavePair, Teardown, Fails, Crash
<1>3. ASSUME NEW q \in Pids, q # p
      PROVE  CInv(q)'
  <2>1. child'[q] = child[q]
    BY <1>1, <1>3, OthersStay
  <2>2. CInv(q)
    BY DEF ChildInv
  <2>3. \A s \in {1, 2} : Indexed(q, s) => Indexed(q, s)'
    BY <2>1, <1>2, IndexedStays
  <2> QED
    BY <2>1, <2>2, <2>3 DEF At
<1> DEFINE Ended == child'[p].st \in Zombie \cup {"free"}
<1>e. ASSUME Ended PROVE CInv(p)'
  BY <1>e DEF Zombie, At
<1>d. ASSUME Dies(p) PROVE CInv(p)'
  BY <1>d, <1>1, <1>e, DiesVisible DEF Zombie
<1>x. ASSUME Exits(p, "exited1") \/ Exits(p, "exited0") PROVE CInv(p)'
  BY <1>x, <1>1, <1>e, EndsVisible DEF Exits, Zombie
<1>c. child[p] \in Child
  BY DEF ChildTypeOK
<1>s. ASSUME NEW st, NEW out, NEW dirs, Becomes(p, st, out, dirs)
      PROVE  /\ child'[p].st = st /\ child'[p].out = out
             /\ child'[p].job = child[p].job
  <2>1. child'[p] = [child[p] EXCEPT !.st = st, !.out = out, !.dirs = dirs]
    BY <1>s DEF Becomes, ChildTypeOK
  <2> QED
    BY <2>1, <1>c DEF Child
<1>4. CInv(p)'
  <2>1. CASE Fails(p) \/ Teardown(p) \/ Crash(p)
    BY <2>1, <1>x, <1>d DEF Fails, Teardown, Crash
  <2>2. CASE OverBudget(p)
    BY <2>2, <1>s DEF OverBudget, At, ChildResults
  <2>3. CASE Fetch(p)
    BY <2>3, <1>s DEF Fetch, At
  <2>4. CASE Fetched(p)
    <3>1. CASE Becomes(p, "save", "skipped", 2)
      BY <3>1, <1>s DEF At, ChildResults
    <3>2. CASE LogsThen(p, "compare", "none")
      BY <3>2, <1>s, <1>d DEF LogsThen, At
    <3> QED
      BY <3>1, <3>2, <2>4 DEF Fetched
  <2>5. CASE Compare(p)
    <3>1. PICK out \in {"ok", "uncompared"} :
            Becomes(p, "index1", out, 2) \/ LogsThen(p, "index1", out)
      BY <2>5 DEF Compare, IndexHeaders
    <3> QED
      BY <3>1, <1>s, <1>d DEF LogsThen, At
  <2>6. ASSUME NEW s \in {1, 2},
               CheckIndex(p, s) \/ BuildIndex(p, s) \/ BuildIndexFails(p, s)
        PROVE  CInv(p)'
    <3>1. /\ child[p].out \in {"ok", "uncompared"}
          /\ s = 2 => Indexed(p, 1)
      BY <2>6 DEF ChildInv, CheckIndex, BuildIndex, BuildIndexFails, At, IndexSt, BuildSt
    <3>2. ASSUME NEW dirs, Becomes(p, AfterIndex(s), child[p].out, dirs),
                 \/ Key(p, s) \in index' \cup unindexed'
                 \/ Key(p, s)[1] \notin HasDev
          PROVE  CInv(p)'
      <4>1. /\ child'[p].st = AfterIndex(s) /\ child'[p].out = child[p].out
            /\ child'[p].job = child[p].job
        BY <3>2, <1>s
      <4>2. Indexed(p, s)'
        BY <4>1, <3>2 DEF Indexed, Key, SideOf, IndexLang
      <4>3. s = 2 => Indexed(p, 1)'
        BY <4>1, <3>1, <1>2, IndexedStays
      <4> QED
        BY <4>1, <4>2, <4>3, <3>1 DEF At, AfterIndex, ChildResults
    <3>3. CASE CheckIndex(p, s)
      <4>1. CASE Becomes(p, BuildSt(s), child[p].out, 2)
        <5>1. /\ child'[p].st = BuildSt(s) /\ child'[p].out = child[p].out
              /\ child'[p].job = child[p].job
          BY <4>1, <1>s
        <5>2. s = 2 => Indexed(p, 1)'
          BY <5>1, <3>1, <1>2, IndexedStays
        <5> QED
          BY <5>1, <5>2, <3>1 DEF At, BuildSt
      <4>2. CASE /\ Becomes(p, AfterIndex(s), child[p].out, 2)
                 /\ Key(p, s) \in index \/ Key(p, s)[1] \notin HasDev
        BY <4>2, <1>2, <3>2
      <4> QED
        BY <4>1, <4>2, <3>3 DEF CheckIndex, Fresh
    <3>4. CASE BuildIndex(p, s)
      BY <3>4, <3>2, <1>d DEF BuildIndex, Fresh
    <3>5. CASE BuildIndexFails(p, s)
      BY <3>5, <3>2, <1>d DEF BuildIndexFails, LogsThen, Fresh
    <3> QED
      BY <2>6, <3>3, <3>4, <3>5
  <2>7. CASE SavePair(p)
    BY <2>7, <1>s DEF SavePair, At
  <2> QED
    BY <2>1, <2>2, <2>3, <2>4, <2>5, <2>6, <2>7 DEF ChildStep
<1> QED
  BY <1>3, <1>4 DEF ChildInv

\* A pair file says "ok" or "uncompared" only once its indexes are seen to.
LEMMA IndexedStep ==
  ASSUME ChildTypeOK, ChildInv, CommittedInv, IndexedBeforeRecorded,
         NEW p \in Pids, ChildStep(p)
  PROVE  IndexedBeforeRecorded'
<1>1. Alive(p) /\ child[p].job \in Jobs
  BY ChildStepEffect DEF ChildEffect, Alive, Stages, ChildTypeOK
<1>2. index \subseteq index' /\ unindexed \subseteq unindexed'
  BY DEF ChildStep, OverBudget, Fetch, Fetched, Compare,
         CheckIndex, BuildIndex, BuildIndexFails, SavePair, Teardown, Fails, Crash
<1>3. CASE SavePair(p)
  <2>1. pairs' = [pairs EXCEPT ![child[p].job] = child[p].out]
    BY <1>3 DEF SavePair
  <2>2. child[p].out \in {"ok", "uncompared"} => Indexed(p, 1) /\ Indexed(p, 2)
    BY <1>3 DEF SavePair, ChildInv, At
  <2> SUFFICES ASSUME NEW j \in Jobs, pairs'[j] \in {"ok", "uncompared"}, NEW s \in {1, 2}
               PROVE  \/ <<SideOf(s)[j], IndexLang(j, pairs'[j])>> \in index' \cup unindexed'
                      \/ <<SideOf(s)[j], IndexLang(j, pairs'[j])>>[1] \notin HasDev
    BY DEF IndexedBeforeRecorded, SideOf, IndexLang
  <2>3. CASE j = child[p].job
    BY <2>1, <2>2, <2>3, <1>1, <1>2 DEF Indexed, Key, ChildTypeOK
  <2>4. CASE j # child[p].job
    BY <2>1, <2>4, <1>1, <1>2 DEF IndexedBeforeRecorded, ChildTypeOK
  <2> QED
    BY <2>3, <2>4
<1>4. CASE pairs' = pairs
  BY <1>2, <1>4 DEF IndexedBeforeRecorded, SideOf, IndexLang
<1> QED
  BY <1>3, <1>4 DEF ChildStep, OverBudget, Fetch, Fetched, Compare,
         CheckIndex, BuildIndex, BuildIndexFails, Teardown, Fails, Crash

(***************************************************************************)
(* The invariant under a step of a child: the parent's variables stand     *)
(* still, the child is still its thread's or was nobody's.                 *)
(***************************************************************************)
LEMMA ChildStepIInv ==
  ASSUME IInv, NEW p \in Pids, ChildStep(p), UNCHANGED parentVars
  PROVE  IInv'
<1>0. /\ ChildTypeOK /\ ChildInv /\ CommittedInv /\ TypeOK
      /\ phase' = phase /\ queue' = queue /\ next' = next /\ killed' = killed
      /\ thread' = thread /\ runs' = runs /\ todo' = todo /\ deaths' = deaths
      /\ dropped' = dropped
  BY DEF IInv, TypeOK, parentVars
<1>1. ChildEffect(p)
  BY <1>0, ChildStepEffect
<1>2. Visible(p) /\ Alive(p) /\ child[p] \in Child /\ child[p].job \in Jobs
  BY <1>1, <1>0 DEF ChildEffect, ChildTypeOK, Alive, Stages
<1>3. /\ child' \in [Pids -> Child] /\ orphans' \subseteq orphans
      /\ \A q \in Pids : q # p => child'[q] = child[q]
      /\ \/ child'[p].st # "free" /\ child'[p].job = child[p].job /\ orphans' = orphans
            /\ (p \in orphans => child'[p].st \in Stages)
         \/ p \in orphans /\ child'[p].st = "free" /\ orphans' = orphans \ {p}
  <2>1. NoChild \in Child
    BY PlanAssumption DEF NoChild, Child
  <2>2. CASE Moved(p)
    BY <2>2, <1>2, <1>0 DEF Moved, ChildTypeOK
  <2>3. CASE Vanished(p)
    BY <2>3, <2>1, <1>0 DEF Vanished, ChildTypeOK, NoChild
  <2> QED
    BY <1>2, <2>2, <2>3 DEF Visible
<1>4. TypeOK'
  <2>1. ChildTypeOK'
    BY <1>0, <1>1, <1>2, <1>3 DEF ChildTypeOK, ChildEffect
  <2> QED
    BY <2>1, <1>0 DEF TypeOK
<1>5. WaitingInv'
  BY <1>0, <1>3 DEF IInv, WaitingInv, HasChild
<1>6. OwnersDistinct' /\ OneThreadPerJob' /\ QueueInv' /\ PoolInv' /\ DeathsInv'
  BY <1>0 DEF IInv, OwnersDistinct, OneThreadPerJob, QueueInv, PoolInv, DeathsInv,
              HasChild, Holds, Claimed, Joined
<1>7. ChildrenOwned'
  BY <1>0, <1>2, <1>3 DEF IInv, ChildrenOwned, HasChild, Alive, Stages
<1>8. OrphansAlive'
  BY <1>0, <1>3 DEF IInv, OrphansAlive, Alive, ChildTypeOK
<1>9. CommittedInv'
  BY <1>0, <1>1, <1>2, <1>3 DEF CommittedInv, ChildEffect, ChildTypeOK
<1>10. ChildInv' /\ IndexedBeforeRecorded'
  BY <1>0, ChildInvStep, IndexedStep DEF IInv
<1>11. AccountedInv'
  BY <1>0, <1>1 DEF IInv, AccountedInv, ChildEffect, Unclaimed, Held, Holds
<1>12. KilledTwice'
  BY <1>0, <1>1 DEF IInv, KilledTwice, ChildEffect
<1> QED
  BY <1>4, <1>5, <1>6, <1>7, <1>8, <1>9, <1>10, <1>11, <1>12 DEF IInv

(***************************************************************************)
(* The parent starts, kills and reaps children and writes failure records; *)
(* it disturbs nothing of what the children rely on.                       *)
(***************************************************************************)
LEMMA ChildPartKept ==
  ASSUME IInv,
         child' \in [Pids -> Child], orphans' \subseteq Pids, leaked' \subseteq Leaks,
         index' = index, unindexed' = unindexed,
         \A p \in Pids : \/ child'[p] = child[p]
                         \/ child'[p].st = "free"
                         \/ child'[p].st = "signalled" /\ child'[p].job \in Jobs
                         \/ child'[p].st = "boot" /\ child'[p].job \in Jobs,
         pairs' \in [Jobs -> PairFiles],
         \A j \in Jobs : pairs'[j] = pairs[j] \/ pairs'[j] \in FailureRecords
  PROVE  ChildTypeOK' /\ ChildInv' /\ CommittedInv' /\ IndexedBeforeRecorded'
<1>1. ChildTypeOK /\ ChildInv /\ CommittedInv /\ IndexedBeforeRecorded
  BY DEF IInv, TypeOK
<1>2. ChildTypeOK'
  BY <1>1 DEF ChildTypeOK
<1>3. ChildInv'
  <2> SUFFICES ASSUME NEW p \in Pids, child'[p] = child[p]
               PROVE  /\ child'[p].st \in {"index1", "build1", "index2", "build2"}
                           => child'[p].out \in {"ok", "uncompared"}
                      /\ At(p, "save")' => child'[p].out \in ChildResults
                      /\ child'[p].st \in {"index2", "build2"} => Indexed(p, 1)'
                      /\ At(p, "save")' /\ child'[p].out # "skipped"
                           => Indexed(p, 1)' /\ Indexed(p, 2)'
    BY DEF ChildInv, At
  <2>1. \A s \in {1, 2} : Indexed(p, s) => Indexed(p, s)'
    BY <1>1, IndexedStays
  <2> QED
    BY <1>1, <2>1 DEF ChildInv, At
<1>4. CommittedInv'
  <2> SUFFICES ASSUME NEW p \in Pids, child'[p].st \in {"teardown", "exited0"}
               PROVE  pairs'[child'[p].job] # "none"
    BY DEF CommittedInv
  <2>1. child'[p] = child[p] /\ child[p].job \in Jobs
    BY <1>1 DEF ChildTypeOK
  <2> QED
    BY <1>1, <2>1 DEF CommittedInv, FailureRecords
<1>5. IndexedBeforeRecorded'
  BY <1>1 DEF IndexedBeforeRecorded, SideOf, IndexLang, FailureRecords
<1> QED
  BY <1>2, <1>3, <1>4, <1>5

\* What the type invariant says of one thread.
LEMMA ThreadType ==
  ASSUME TypeOK, NEW t \in Threads
  PROVE  /\ thread[t] \in Thread
         /\ thread[t].job \in 0 .. NumJobs
         /\ thread[t].pid \in Pids \cup {0}
         /\ Idle \in Thread /\ Claiming \in Thread
         /\ Idle.pc = "done" /\ Claiming.pc = "claim"
<1>1. 0 \in 0 .. NumJobs
  BY PlanAssumption
<1>2. Idle \in Thread
  BY <1>1 DEF Idle, Thread, ThreadPcs
<1>4. Claiming \in Thread
  BY <1>1 DEF Claiming, Thread, ThreadPcs
<1>5. thread[t] \in Thread
  BY DEF TypeOK
<1>6. thread[t].job \in 0 .. NumJobs /\ thread[t].pid \in Pids \cup {0}
  BY <1>5 DEF Thread
<1> QED
  BY <1>2, <1>4, <1>5, <1>6 DEF Idle, Claiming

\* Where nothing of the children or the directory changes.
LEMMA ChildPartSame ==
  ASSUME IInv,
         pairs' = pairs, index' = index, unindexed' = unindexed,
         leaked' = leaked, child' = child, orphans' = orphans
  PROVE  /\ ChildTypeOK' /\ ChildInv' /\ CommittedInv' /\ IndexedBeforeRecorded'
         /\ OrphansAlive'
<1>1. ChildTypeOK /\ OrphansAlive
  BY DEF IInv, TypeOK
<1>2. OrphansAlive'
  BY <1>1 DEF OrphansAlive, Alive
<1>3. child' \in [Pids -> Child] /\ orphans' \subseteq Pids /\ leaked' \subseteq Leaks
  BY <1>1 DEF ChildTypeOK
<1>4. pairs' \in [Jobs -> PairFiles]
  BY <1>1 DEF ChildTypeOK
<1>5. \A p \in Pids : \/ child'[p] = child[p]
                      \/ child'[p].st = "free"
                      \/ child'[p].st = "signalled" /\ child'[p].job \in Jobs
                      \/ child'[p].st = "boot" /\ child'[p].job \in Jobs
  OBVIOUS
<1>6. \A j \in Jobs : pairs'[j] = pairs[j] \/ pairs'[j] \in FailureRecords
  <2>1. \A j \in Jobs : pairs'[j] = pairs[j]
    OBVIOUS
  <2> QED
    BY <2>1
<1>7. ChildTypeOK' /\ ChildInv' /\ CommittedInv' /\ IndexedBeforeRecorded'
  BY <1>3, <1>4, <1>5, <1>6, ChildPartKept
<1> QED
  BY <1>2, <1>7

(***************************************************************************)
(* A step of thread t leaves the other threads alone (OnlyThread); what it *)
(* does to the ownership of children depends on t alone.                   *)
(***************************************************************************)
OnlyThread(t, th) ==
  /\ thread' \in [Threads -> Thread]
  /\ thread'[t] = th
  /\ \A u \in Threads : u # t => thread'[u] = thread[u]

LEMMA SetOnly ==
  ASSUME TypeOK, NEW t \in Threads, NEW th \in Thread, Set(t, th)
  PROVE  OnlyThread(t, th)
  BY DEF Set, OnlyThread, TypeOK

LEMMA OtherThread ==
  ASSUME NEW t \in Threads, NEW u \in Threads, u # t, NEW th, OnlyThread(t, th)
  PROVE  /\ thread'[u] = thread[u]
         /\ HasChild(u)' <=> HasChild(u)
         /\ Holds(u)' <=> Holds(u)
  BY DEF OnlyThread, HasChild, Holds

\* Threads without a child before and after: the children's owners stand.
LEMMA OwnershipKept ==
  ASSUME IInv, NEW t \in Threads, NEW th, OnlyThread(t, th),
         child' = child, orphans' = orphans, ~HasChild(t), ~HasChild(t)'
  PROVE  WaitingInv' /\ OwnersDistinct' /\ ChildrenOwned'
<1>1. \A u \in Threads : u # t => thread'[u] = thread[u]
  BY OtherThread
<1>0. \A u \in Threads : u # t => (HasChild(u)' <=> HasChild(u))
  BY OtherThread
<1>2. WaitingInv'
  BY <1>0, <1>1 DEF WaitingInv, IInv
<1>3. OwnersDistinct'
  BY <1>0, <1>1 DEF OwnersDistinct, IInv
<1>4. ChildrenOwned'
  BY <1>0, <1>1 DEF ChildrenOwned, IInv
<1> QED
  BY <1>2, <1>3, <1>4

\* A thread that holds no job afterwards, or the one it held, is in nobody's way.
LEMMA JobsStayApart ==
  ASSUME IInv, NEW t \in Threads, NEW th, OnlyThread(t, th),
         Holds(t)' => Holds(t) /\ th.job = thread[t].job
  PROVE  OneThreadPerJob'
<1>1. \A u \in Threads : u # t => thread'[u] = thread[u]
  BY OtherThread
<1>0. \A u \in Threads : u # t => (Holds(u)' <=> Holds(u))
  BY OtherThread
<1>2. thread'[t] = th
  BY DEF OnlyThread
<1> SUFFICES ASSUME NEW u \in Threads, NEW v \in Threads, u # v, Holds(u)', Holds(v)'
             PROVE  thread'[u].job # thread'[v].job
  BY DEF OneThreadPerJob
<1>3. Holds(u) /\ Holds(v) /\ thread'[u].job = thread[u].job /\ thread'[v].job = thread[v].job
  BY <1>0, <1>1, <1>2
<1> QED
  BY <1>3 DEF IInv, OneThreadPerJob

\* The queue's part, where the queue and the retry list are left alone.
LEMMA QueueKept ==
  ASSUME IInv, NEW t \in Threads, NEW th, OnlyThread(t, th),
         queue' = queue, killed' = killed, next' \in Nat, next' >= next,
         Holds(t)' => /\ \E k \in DOMAIN queue : k < next' /\ queue[k] = th.job
                      /\ th.job \notin RangeOf(killed)
  PROVE  QueueInv'
<1>0. \A u \in Threads : u # t => (Holds(u)' <=> Holds(u))
  BY OtherThread
<1>1. \A u \in Threads : u # t => thread'[u] = thread[u]
  BY OtherThread
<1>2. thread'[t] = th /\ next \in Nat /\ queue \in Seq(Jobs)
  BY DEF OnlyThread, IInv, TypeOK
<1>3. \A j : Claimed(j) => Claimed(j)'
  BY <1>2 DEF Claimed
<1>4. ASSUME NEW u \in Threads, Holds(u)'
      PROVE  Claimed(thread[u].job)' /\ (thread[u].job \notin RangeOf(killed))'
  <2>1. CASE u = t
    BY <2>1, <1>2, <1>4 DEF Claimed, RangeOf
  <2>2. CASE u # t
    <3>1. Holds(u) /\ thread'[u] = thread[u]
      BY <2>2, <1>0, <1>1, <1>4
    <3>2. Claimed(thread[u].job) /\ thread[u].job \notin RangeOf(killed)
      BY <3>1 DEF IInv, QueueInv
    <3>3. Claimed(thread'[u].job)
      BY <3>1, <3>2
    <3> QED
      BY <3>1, <3>2, <1>3 DEF Claimed, RangeOf
  <2> QED
    BY <2>1, <2>2
<1>5. Distinct(queue)' /\ Distinct(killed)'
  BY DEF IInv, QueueInv, Distinct
<1>6. (\A j \in RangeOf(killed) : Claimed(j))'
  BY <1>3 DEF IInv, QueueInv, RangeOf
<1> QED
  BY <1>4, <1>5, <1>6 DEF QueueInv

(***************************************************************************)
(* The invariant under each step of a worker thread.                       *)
(***************************************************************************)
LEMMA ClaimIInv ==
  ASSUME IInv, NEW t \in Threads, Claim(t)
  PROVE  IInv'
<1>1. /\ thread[t].pc = "claim" /\ next' = next + 1
      /\ phase' = phase /\ queue' = queue /\ killed' = killed /\ deaths' = deaths
      /\ dropped' = dropped /\ runs' = runs /\ todo' = todo
      /\ pairs' = pairs /\ index' = index /\ unindexed' = unindexed
      /\ leaked' = leaked /\ child' = child /\ orphans' = orphans
  BY DEF Claim, KeepPasses, childVars, disk
<1>2. TypeOK /\ next \in Nat \ {0} /\ queue \in Seq(Jobs)
      /\ thread[t] \in Thread /\ Idle \in Thread /\ Idle.pc = "done"
  BY ThreadType DEF IInv, TypeOK
<1>3. next' \in Nat \ {0} /\ next' >= next
  BY <1>1, <1>2
<1> DEFINE th == IF next > Len(queue) THEN Idle
                 ELSE [thread[t] EXCEPT !.pc = "spawn", !.job = queue[next]]
<1>4. next <= Len(queue) =>
        next \in DOMAIN queue /\ queue[next] \in Jobs /\ queue[next] \in 0 .. NumJobs
  BY <1>2, PlanAssumption DEF Jobs
<1>5. /\ th \in Thread
      /\ next > Len(queue) => th.pc = "done"
      /\ next <= Len(queue) => th.pc = "spawn" /\ th.job = queue[next]
  <2>1. CASE next > Len(queue)
    BY <2>1, <1>2
  <2>2. CASE next <= Len(queue)
    <3>1. th = [thread[t] EXCEPT !.pc = "spawn", !.job = queue[next]]
      BY <2>2, <1>2
    <3>2. th \in Thread /\ th.pc = "spawn" /\ th.job = queue[next]
      BY <3>1, <2>2, <1>2, <1>4 DEF Thread, ThreadPcs
    <3> QED
      BY <3>2, <2>2, <1>2
  <2> QED
    BY <2>1, <2>2, <1>2
<1>6. OnlyThread(t, th)
  BY <1>2, <1>5, SetOnly DEF Claim
<1> HIDE DEF th
<1>7. thread'[t] = th /\ thread' \in [Threads -> Thread]
  BY <1>6 DEF OnlyThread
<1>8. ~HasChild(t) /\ ~Holds(t) /\ ~HasChild(t)'
  BY <1>1, <1>2, <1>5, <1>7 DEF HasChild, Holds
<1>9. Holds(t)' <=> next <= Len(queue)
  BY <1>2, <1>5, <1>7 DEF Holds
<1>10. \A u \in Threads : u # t => thread'[u] = thread[u] /\ (Holds(u)' <=> Holds(u))
  BY <1>6, OtherThread
<1>11. TypeOK'
  BY <1>1, <1>2, <1>3, <1>7, ChildPartSame DEF TypeOK
<1>12. WaitingInv' /\ OwnersDistinct' /\ ChildrenOwned'
  BY <1>1, <1>6, <1>8, OwnershipKept
<1>13. next <= Len(queue) =>
         \A u \in Threads : Holds(u) => thread[u].job # queue[next]
  <2> SUFFICES ASSUME next <= Len(queue),
                      NEW u \in Threads, Holds(u), thread[u].job = queue[next]
               PROVE  FALSE
    OBVIOUS
  <2>1. PICK k \in DOMAIN queue : k < next /\ queue[k] = queue[next]
    BY DEF IInv, QueueInv, Claimed
  <2> QED
    BY <2>1, <1>4, <1>2 DEF IInv, QueueInv, Distinct
<1>14. OneThreadPerJob'
  <2> SUFFICES ASSUME NEW u \in Threads, NEW v \in Threads, u # v, Holds(u)', Holds(v)'
               PROVE  thread'[u].job # thread'[v].job
    BY DEF OneThreadPerJob
  <2>1. CASE u # t /\ v # t
    BY <2>1, <1>10 DEF IInv, OneThreadPerJob
  <2>2. CASE u = t
    BY <2>2, <1>5, <1>7, <1>9, <1>10, <1>13
  <2>3. CASE v = t
    BY <2>3, <1>5, <1>7, <1>9, <1>10, <1>13
  <2> QED
    BY <2>1, <2>2, <2>3
<1>15. QueueInv'
  <2>1. Holds(t)' => \E k \in DOMAIN queue : k < next' /\ queue[k] = th.job
    BY <1>1, <1>2, <1>4, <1>5, <1>9
  <2>2. next <= Len(queue) => ~ Claimed(queue[next])
    BY <1>2, <1>4 DEF Claimed, IInv, QueueInv, Distinct
  <2>3. Holds(t)' => th.job \notin RangeOf(killed)
    BY <2>2, <1>5, <1>9 DEF IInv, QueueInv
  <2> QED
    BY <2>1, <2>3, <1>1, <1>3, <1>6, QueueKept
<1>16. PoolInv'
  <2>1. phase \in {"stopped", "bury", "complete"} => FALSE
    BY <1>1 DEF IInv, PoolInv, Joined
  <2>2. phase = "retry" =>
          \A u, v \in Threads : thread'[u].pc # "done" /\ thread'[v].pc # "done" => u = v
    BY <1>1, <1>10 DEF IInv, PoolInv
  <2>3. Joined' => next' > Len(queue')
    BY <1>1, <1>2, <1>5, <1>7 DEF Joined
  <2> QED
    BY <2>1, <2>2, <2>3, <1>1 DEF PoolInv
<1>17. AccountedInv'
  <2>1. \A j \in Jobs : Unclaimed(j) => Unclaimed(j)' \/ Held(j)'
    <3> SUFFICES ASSUME NEW j \in Jobs, NEW k \in DOMAIN queue, k >= next, queue[k] = j
                 PROVE  Unclaimed(j)' \/ Held(j)'
      BY DEF Unclaimed
    <3>1. CASE k = next
      BY <3>1, <1>2, <1>5, <1>7, <1>9 DEF Held
    <3>2. CASE k > next
      BY <3>2, <1>1, <1>2 DEF Unclaimed
    <3> QED
      BY <3>1, <3>2, <1>2
  <2>2. \A j : Held(j) => Held(j)'
    BY <1>8, <1>10 DEF Held
  <2> QED
    BY <1>1, <2>1, <2>2 DEF IInv, AccountedInv
<1>18. DeathsInv' /\ KilledTwice'
  BY <1>1 DEF IInv, DeathsInv, KilledTwice
<1> QED
  BY <1>1, <1>11, <1>12, <1>14, <1>15, <1>16, <1>17, <1>18, ChildPartSame DEF IInv

\* A thread that is at work keeps its phase from ending, before and after.
LEMMA PoolKept ==
  ASSUME IInv, NEW t \in Threads, NEW th, OnlyThread(t, th),
         thread[t].pc # "done", th.pc # "done", phase' = phase
  PROVE  PoolInv'
<1>1. \A u \in Threads : u # t => thread'[u] = thread[u]
  BY OtherThread
<1>2. thread'[t] = th
  BY DEF OnlyThread
<1>3. phase \notin {"stopped", "bury", "complete"}
  BY DEF IInv, PoolInv, Joined
<1>4. ~Joined'
  BY <1>2 DEF Joined
<1>5. phase = "retry" =>
        \A u, v \in Threads : thread'[u].pc # "done" /\ thread'[v].pc # "done" => u = v
  <2>1. \A u \in Threads : thread'[u].pc # "done" => thread[u].pc # "done"
    BY <1>1
  <2> QED
    BY <2>1 DEF IInv, PoolInv
<1> QED
  BY <1>3, <1>4, <1>5 DEF PoolInv

\* The thread's job stays with it, or is recorded, dropped or on the list.
LEMMA AccountedKept ==
  ASSUME IInv, NEW t \in Threads, NEW th, OnlyThread(t, th),
         phase' = phase, queue' = queue, next' = next,
         \A j \in Jobs : pairs'[j] = "none" => pairs[j] = "none",
         dropped \subseteq dropped', RangeOf(killed) \subseteq RangeOf(killed'),
         Holds(t),
         \/ Holds(t)' /\ th.job = thread[t].job
         \/ pairs'[thread[t].job] # "none"
         \/ thread[t].job \in dropped'
         \/ thread[t].job \in RangeOf(killed')
  PROVE  AccountedInv'
<1>1. \A u \in Threads : u # t => thread'[u] = thread[u]
  BY OtherThread
<1>0. \A u \in Threads : u # t => (Holds(u)' <=> Holds(u))
  BY OtherThread
<1>2. thread'[t] = th
  BY DEF OnlyThread
<1> SUFFICES ASSUME phase # "stopped",
                    NEW j \in Jobs, pairs'[j] = "none", j \notin dropped',
                    j \notin RangeOf(killed')
             PROVE  Unclaimed(j)' \/ Held(j)'
  BY DEF AccountedInv
<1>3. Unclaimed(j) \/ Held(j)
  BY DEF IInv, AccountedInv
<1>4. CASE Unclaimed(j)
  BY <1>4 DEF Unclaimed
<1>5. CASE Held(j)
  <2>1. PICK u \in Threads : Holds(u) /\ thread[u].job = j
    BY <1>5 DEF Held
  <2>2. CASE u = t
    BY <2>1, <2>2, <1>2 DEF Held
  <2>3. CASE u # t
    <3>1. Holds(u)' /\ thread'[u].job = j
      BY <2>1, <2>3, <1>0, <1>1
    <3> QED
      BY <3>1 DEF Held
  <2> QED
    BY <2>2, <2>3
<1> QED
  BY <1>3, <1>4, <1>5

\* A thread that keeps its child, and children that keep their jobs.
LEMMA OwnershipSame ==
  ASSUME IInv, NEW t \in Threads, NEW th, OnlyThread(t, th), orphans' = orphans,
         HasChild(t), HasChild(t)', th.pid = thread[t].pid, th.job = thread[t].job,
         \A p \in Pids : /\ child'[p].st # "free" <=> child[p].st # "free"
                         /\ child'[p].job = child[p].job
  PROVE  WaitingInv' /\ OwnersDistinct' /\ ChildrenOwned'
<1>1. \A u \in Threads : thread'[u].pid = thread[u].pid /\ thread'[u].job = thread[u].job
  BY OtherThread DEF OnlyThread
<1>0. \A u \in Threads : HasChild(u)' <=> HasChild(u)
  BY OtherThread
<1>2. WaitingInv'
  BY <1>0, <1>1 DEF WaitingInv, IInv
<1>3. OwnersDistinct'
  BY <1>0, <1>1 DEF OwnersDistinct, IInv
<1>4. ChildrenOwned'
  BY <1>0, <1>1 DEF ChildrenOwned, IInv
<1> QED
  BY <1>2, <1>3, <1>4

\* A thread that reaps its child: nobody else owned it.
LEMMA OwnershipReleased ==
  ASSUME IInv, NEW t \in Threads, NEW th, OnlyThread(t, th), orphans' = orphans,
         HasChild(t), ~HasChild(t)', child' = [child EXCEPT ![thread[t].pid] = NoChild]
  PROVE  WaitingInv' /\ OwnersDistinct' /\ ChildrenOwned'
<1>1. \A u \in Threads : u # t => thread'[u] = thread[u]
  BY OtherThread
<1>0. \A u \in Threads : u # t => (HasChild(u)' <=> HasChild(u))
  BY OtherThread
<1>2. /\ thread[t].pid \in Pids /\ child \in [Pids -> Child]
      /\ \A p \in Pids : p # thread[t].pid => child'[p] = child[p]
      /\ child'[thread[t].pid].st = "free"
  BY DEF IInv, TypeOK, ChildTypeOK, WaitingInv, NoChild
<1>3. \A u \in Threads : u # t /\ HasChild(u) => thread[u].pid # thread[t].pid
  BY DEF IInv, OwnersDistinct
<1>4. WaitingInv'
  <2> SUFFICES ASSUME NEW u \in Threads, HasChild(u)'
               PROVE  /\ thread'[u].pid \in Pids \ orphans'
                      /\ child'[thread'[u].pid].st # "free"
                      /\ child'[thread'[u].pid].job = thread'[u].job
    BY DEF WaitingInv
  <2>1. HasChild(u) /\ thread'[u] = thread[u] /\ thread[u].pid # thread[t].pid
    BY <1>0, <1>1, <1>3
  <2> QED
    BY <2>1, <1>2 DEF IInv, WaitingInv
<1>5. OwnersDistinct'
  BY <1>0, <1>1 DEF OwnersDistinct, IInv
<1>6. ChildrenOwned'
  <2> SUFFICES ASSUME NEW p \in Pids \ orphans, child'[p].st # "free"
               PROVE  \E u \in Threads : HasChild(u)' /\ thread'[u].pid = p
    BY DEF ChildrenOwned
  <2>1. p # thread[t].pid /\ child'[p] = child[p]
    BY <1>2
  <2>2. PICK u \in Threads : HasChild(u) /\ thread[u].pid = p
    BY <2>1 DEF IInv, ChildrenOwned
  <2> QED
    BY <2>1, <2>2, <1>0, <1>1
<1> QED
  BY <1>4, <1>5, <1>6

\* A thread that takes a process id nobody had.
LEMMA OwnershipTaken ==
  ASSUME IInv, NEW t \in Threads, NEW th, OnlyThread(t, th), orphans' = orphans,
         ~HasChild(t), HasChild(t)',
         NEW p \in Pids, child[p].st = "free", th.pid = p,
         NEW c \in Child, child' = [child EXCEPT ![p] = c], c.st # "free", c.job = th.job
  PROVE  WaitingInv' /\ OwnersDistinct' /\ ChildrenOwned'
<1>1. \A u \in Threads : u # t => thread'[u] = thread[u]
  BY OtherThread
<1>0. \A u \in Threads : u # t => (HasChild(u)' <=> HasChild(u))
  BY OtherThread
<1>2. /\ thread'[t] = th /\ child \in [Pids -> Child]
      /\ \A q \in Pids : q # p => child'[q] = child[q]
      /\ child'[p] = c /\ p \notin orphans
  BY DEF IInv, TypeOK, ChildTypeOK, OrphansAlive, Alive, Stages, OnlyThread
<1>3. \A u \in Threads : HasChild(u) => thread[u].pid # p
  BY DEF IInv, WaitingInv
<1>4. WaitingInv'
  <2> SUFFICES ASSUME NEW u \in Threads, HasChild(u)'
               PROVE  /\ thread'[u].pid \in Pids \ orphans'
                      /\ child'[thread'[u].pid].st # "free"
                      /\ child'[thread'[u].pid].job = thread'[u].job
    BY DEF WaitingInv
  <2>1. CASE u = t
    BY <2>1, <1>2
  <2>2. CASE u # t
    <3>1. HasChild(u) /\ thread'[u] = thread[u] /\ thread[u].pid # p
      BY <2>2, <1>0, <1>1, <1>3
    <3> QED
      BY <3>1, <1>2 DEF IInv, WaitingInv
  <2> QED
    BY <2>1, <2>2
<1>5. OwnersDistinct'
  <2> SUFFICES ASSUME NEW u \in Threads, NEW v \in Threads, HasChild(u)', HasChild(v)',
                      thread'[u].pid = thread'[v].pid, u # v
               PROVE  FALSE
    BY DEF OwnersDistinct
  <2>1. CASE u # t /\ v # t
    BY <2>1, <1>0, <1>1 DEF IInv, OwnersDistinct
  <2>2. CASE u = t
    BY <2>2, <1>0, <1>1, <1>2, <1>3
  <2>3. CASE v = t
    BY <2>3, <1>0, <1>1, <1>2, <1>3
  <2> QED
    BY <2>1, <2>2, <2>3
<1>6. ChildrenOwned'
  <2> SUFFICES ASSUME NEW q \in Pids \ orphans, child'[q].st # "free"
               PROVE  \E u \in Threads : HasChild(u)' /\ thread'[u].pid = q
    BY DEF ChildrenOwned
  <2>1. CASE q = p
    BY <2>1, <1>2
  <2>2. CASE q # p
    <3>1. PICK u \in Threads : HasChild(u) /\ thread[u].pid = q
      BY <2>2, <1>2 DEF IInv, ChildrenOwned
    <3> QED
      BY <3>1, <1>0, <1>1
  <2> QED
    BY <2>1, <2>2
<1> QED
  BY <1>4, <1>5, <1>6

\* A thread at work is at work on a job of the queue.
LEMMA HeldJob ==
  ASSUME IInv, NEW t \in Threads, Holds(t)
  PROVE  /\ thread[t].job \in Jobs
         /\ \E k \in DOMAIN queue : k < next /\ queue[k] = thread[t].job
         /\ thread[t].job \notin RangeOf(killed)
         /\ phase \in {"pass", "retry"}
<1>1. PICK k \in DOMAIN queue : k < next /\ queue[k] = thread[t].job
  BY DEF IInv, QueueInv, Claimed
<1>2. queue[k] \in Jobs
  BY DEF IInv, TypeOK
<1>3. ~Joined
  BY DEF Joined, Holds
<1> QED
  BY <1>1, <1>2, <1>3 DEF IInv, PoolInv, QueueInv, TypeOK, Phases

LEMMA SpawnFailsIInv ==
  ASSUME IInv, NEW t \in Threads, SpawnFails(t)
  PROVE  IInv'
<1>1. /\ thread[t].pc = "spawn" /\ dropped' = dropped \cup {thread[t].job}
      /\ phase' = phase /\ queue' = queue /\ killed' = killed /\ deaths' = deaths
      /\ next' = next /\ runs' = runs /\ todo' = todo
      /\ pairs' = pairs /\ index' = index /\ unindexed' = unindexed
      /\ leaked' = leaked /\ child' = child /\ orphans' = orphans
  BY DEF SpawnFails, KeepPasses, childVars, disk
<1>2. TypeOK /\ Claiming \in Thread /\ Claiming.pc = "claim" /\ next \in Nat
  BY ThreadType DEF IInv, TypeOK
<1>3. OnlyThread(t, Claiming)
  BY <1>2, SetOnly DEF SpawnFails
<1>4. /\ thread'[t] = Claiming /\ thread' \in [Threads -> Thread]
      /\ Holds(t) /\ ~HasChild(t) /\ ~HasChild(t)' /\ ~Holds(t)'
  BY <1>1, <1>2, <1>3 DEF OnlyThread, Holds, HasChild
<1>5. thread[t].job \in Jobs
  BY <1>4, HeldJob
<1>6. ChildTypeOK' /\ ChildInv' /\ CommittedInv' /\ IndexedBeforeRecorded' /\ OrphansAlive'
  BY <1>1, ChildPartSame
<1>7. TypeOK'
  BY <1>1, <1>2, <1>4, <1>5, <1>6 DEF TypeOK
<1>8. WaitingInv' /\ OwnersDistinct' /\ ChildrenOwned'
  BY <1>1, <1>3, <1>4, OwnershipKept
<1>9. OneThreadPerJob'
  BY <1>3, <1>4, JobsStayApart
<1>10. QueueInv'
  BY <1>1, <1>2, <1>3, <1>4, QueueKept
<1>11. PoolInv'
  BY <1>1, <1>2, <1>3, PoolKept
<1>12. AccountedInv'
  BY <1>1, <1>3, <1>4, AccountedKept
<1>13. DeathsInv' /\ KilledTwice'
  BY <1>1 DEF IInv, DeathsInv, KilledTwice
<1> QED
  BY <1>6, <1>7, <1>8, <1>9, <1>10, <1>11, <1>12, <1>13 DEF IInv

LEMMA SpawnIInv ==
  ASSUME IInv, NEW t \in Threads, Spawn(t)
  PROVE  IInv'
<1>1. /\ thread[t].pc = "spawn" /\ dropped' = dropped
      /\ phase' = phase /\ queue' = queue /\ killed' = killed /\ deaths' = deaths
      /\ next' = next /\ runs' = runs /\ todo' = todo
      /\ pairs' = pairs /\ index' = index /\ unindexed' = unindexed
      /\ leaked' = leaked /\ orphans' = orphans
  BY DEF Spawn, KeepPasses, disk
<1>2. PICK p \in Pids :
        /\ child[p].st = "free"
        /\ child' = [child EXCEPT ![p] = Spawned(thread[t].job)]
        /\ Set(t, [thread[t] EXCEPT !.pc = "wait", !.pid = p])
  BY DEF Spawn
<1> DEFINE th == [thread[t] EXCEPT !.pc = "wait", !.pid = p]
<1>3. TypeOK /\ thread[t] \in Thread /\ next \in Nat
  BY ThreadType DEF IInv, TypeOK
<1>4. th \in Thread /\ th.pc = "wait" /\ th.pid = p /\ th.job = thread[t].job
  BY <1>3 DEF Thread, ThreadPcs
<1>5. OnlyThread(t, th)
  BY <1>2, <1>3, <1>4, SetOnly
<1> HIDE DEF th
<1>6. /\ thread'[t] = th /\ thread' \in [Threads -> Thread]
      /\ Holds(t) /\ ~HasChild(t) /\ HasChild(t)' /\ Holds(t)'
  BY <1>1, <1>4, <1>5 DEF OnlyThread, Holds, HasChild
<1>7. /\ thread[t].job \in Jobs /\ thread[t].job \notin RangeOf(killed)
      /\ \E k \in DOMAIN queue : k < next /\ queue[k] = thread[t].job
  BY <1>6, HeldJob
<1> DEFINE c == Spawned(thread[t].job)
<1>8. c \in Child /\ c.st = "boot" /\ c.job = thread[t].job
  <2>1. thread[t].job \in 0 .. NumJobs /\ 0 \in 0 .. 2 /\ "boot" \in Stages
    BY <1>7 DEF Jobs, Stages
  <2> QED
    BY <2>1 DEF Spawned, Child
<1>9. child' = [child EXCEPT ![p] = c]
  BY <1>2
<1> HIDE DEF c
<1>10. ChildTypeOK' /\ ChildInv' /\ CommittedInv' /\ IndexedBeforeRecorded'
  <2>1. /\ child \in [Pids -> Child] /\ orphans \subseteq Pids /\ leaked \subseteq Leaks
        /\ pairs \in [Jobs -> PairFiles]
    BY <1>3 DEF TypeOK, ChildTypeOK
  <2>2. child' \in [Pids -> Child] /\ child'[p] = c
    BY <2>1, <1>8, <1>9
  <2>3. \A q \in Pids : \/ child'[q] = child[q]
                        \/ child'[q].st = "free"
                        \/ child'[q].st = "signalled" /\ child'[q].job \in Jobs
                        \/ child'[q].st = "boot" /\ child'[q].job \in Jobs
    BY <2>1, <2>2, <1>7, <1>8, <1>9
  <2> QED
    BY <2>1, <2>2, <2>3, <1>1, ChildPartKept
<1>11. OrphansAlive'
  <2> SUFFICES ASSUME NEW q \in orphans PROVE child'[q].st \in Stages
    BY <1>1 DEF OrphansAlive, Alive
  <2>1. child[q].st \in Stages /\ q \in Pids
    BY <1>3 DEF IInv, OrphansAlive, Alive, TypeOK, ChildTypeOK
  <2>2. q # p
    BY <2>1, <1>2 DEF Stages
  <2> QED
    BY <2>1, <2>2, <1>9, <1>3 DEF TypeOK, ChildTypeOK
<1>12. TypeOK'
  BY <1>1, <1>3, <1>6, <1>10 DEF TypeOK
<1>13. WaitingInv' /\ OwnersDistinct' /\ ChildrenOwned'
  <2>1. /\ orphans' = orphans /\ child[p].st = "free" /\ th.pid = p
        /\ c.st # "free" /\ c.job = th.job /\ th \in Thread /\ c \in Child
    BY <1>1, <1>2, <1>4, <1>8
  <2> QED
    BY <2>1, <1>5, <1>6, <1>9, OwnershipTaken
<1>14. OneThreadPerJob'
  BY <1>4, <1>5, <1>6, JobsStayApart
<1>15. QueueInv'
  BY <1>1, <1>3, <1>4, <1>5, <1>7, QueueKept
<1>16. PoolInv'
  BY <1>1, <1>4, <1>5, PoolKept
<1>17. AccountedInv'
  BY <1>1, <1>4, <1>5, <1>6, AccountedKept
<1>18. DeathsInv' /\ KilledTwice'
  BY <1>1 DEF IInv, DeathsInv, KilledTwice
<1> QED
  BY <1>10, <1>11, <1>12, <1>13, <1>14, <1>15, <1>16, <1>17, <1>18 DEF IInv

LEMMA PipesClosedIInv ==
  ASSUME IInv, NEW t \in Threads, PipesClosed(t)
  PROVE  IInv'
<1>1. /\ thread[t].pc = "wait" /\ dropped' = dropped
      /\ phase' = phase /\ queue' = queue /\ killed' = killed /\ deaths' = deaths
      /\ next' = next /\ runs' = runs /\ todo' = todo
      /\ pairs' = pairs /\ index' = index /\ unindexed' = unindexed
      /\ leaked' = leaked /\ child' = child /\ orphans' = orphans
  BY DEF PipesClosed, KeepPasses, childVars, disk
<1> DEFINE th == [thread[t] EXCEPT !.pc = "settle"]
<1>2. TypeOK /\ thread[t] \in Thread /\ next \in Nat
  BY ThreadType DEF IInv, TypeOK
<1>3. th \in Thread /\ th.pc = "settle" /\ th.pid = thread[t].pid /\ th.job = thread[t].job
  BY <1>2 DEF Thread, ThreadPcs
<1>4. OnlyThread(t, th)
  BY <1>2, <1>3, SetOnly DEF PipesClosed
<1> HIDE DEF th
<1>5. /\ thread'[t] = th /\ thread' \in [Threads -> Thread]
      /\ Holds(t) /\ HasChild(t) /\ HasChild(t)' /\ Holds(t)'
  BY <1>1, <1>3, <1>4 DEF OnlyThread, Holds, HasChild
<1>6. /\ \E k \in DOMAIN queue : k < next /\ queue[k] = thread[t].job
      /\ thread[t].job \notin RangeOf(killed)
  BY <1>5, HeldJob
<1>7. ChildTypeOK' /\ ChildInv' /\ CommittedInv' /\ IndexedBeforeRecorded' /\ OrphansAlive'
  BY <1>1, ChildPartSame
<1>8. TypeOK'
  BY <1>1, <1>2, <1>5, <1>7 DEF TypeOK
<1>9. WaitingInv' /\ OwnersDistinct' /\ ChildrenOwned'
  BY <1>1, <1>3, <1>4, <1>5, OwnershipSame
<1>10. OneThreadPerJob'
  BY <1>3, <1>4, <1>5, JobsStayApart
<1>11. QueueInv'
  BY <1>1, <1>2, <1>3, <1>4, <1>6, QueueKept
<1>12. PoolInv'
  BY <1>1, <1>3, <1>4, PoolKept
<1>13. AccountedInv'
  BY <1>1, <1>3, <1>4, <1>5, AccountedKept
<1>14. DeathsInv' /\ KilledTwice'
  BY <1>1 DEF IInv, DeathsInv, KilledTwice
<1> QED
  BY <1>7, <1>8, <1>9, <1>10, <1>11, <1>12, <1>13, <1>14 DEF IInv

LEMMA DeadlineIInv ==
  ASSUME IInv, NEW t \in Threads, Deadline(t)
  PROVE  IInv'
<1> DEFINE p == thread[t].pid
<1>1. /\ thread[t].pc = "wait" /\ dropped' = dropped
      /\ phase' = phase /\ queue' = queue /\ killed' = killed /\ deaths' = deaths
      /\ next' = next /\ runs' = runs /\ todo' = todo
      /\ pairs' = pairs /\ index' = index /\ unindexed' = unindexed
  BY DEF Deadline, KeepPasses
<1> DEFINE th == [thread[t] EXCEPT !.pc = "settle", !.timedOut = TRUE]
<1>2. TypeOK /\ ChildTypeOK /\ thread[t] \in Thread /\ next \in Nat
  BY ThreadType DEF IInv, TypeOK
<1>3. th \in Thread /\ th.pc = "settle" /\ th.pid = thread[t].pid /\ th.job = thread[t].job
  BY <1>2 DEF Thread, ThreadPcs
<1>4. OnlyThread(t, th)
  BY <1>2, <1>3, SetOnly DEF Deadline
<1> HIDE DEF th
<1>5. /\ thread'[t] = th /\ thread' \in [Threads -> Thread]
      /\ Holds(t) /\ HasChild(t) /\ HasChild(t)' /\ Holds(t)'
  BY <1>1, <1>3, <1>4 DEF OnlyThread, Holds, HasChild
<1>6. /\ \E k \in DOMAIN queue : k < next /\ queue[k] = thread[t].job
      /\ thread[t].job \notin RangeOf(killed)
  BY <1>5, HeldJob
<1>7. /\ p \in Pids /\ p \notin orphans /\ child[p].st # "free"
      /\ child[p] \in Child /\ child[p].job \in Jobs
  BY <1>2, <1>5 DEF IInv, WaitingInv, ChildTypeOK
<1>8. /\ child' \in [Pids -> Child] /\ orphans' = orphans /\ leaked' \subseteq Leaks
      /\ \A q \in Pids : q # p => child'[q] = child[q]
      /\ child'[p].job = child[p].job
      /\ child'[p] = child[p] \/ child'[p].st = "signalled"
  <2>1. CASE Alive(p)
    <3> DEFINE c == [child[p] EXCEPT !.st = "signalled", !.dirs = 0]
    <3>1. /\ child' = [child EXCEPT ![p] = c] /\ orphans' = orphans
          /\ leaked' \subseteq Leaks
      BY <2>1, <1>2, <1>7, ScratchType DEF Deadline, Dies, Ends
    <3>2. 0 \in 0 .. 2 /\ "signalled" \in Stages \cup Zombie \cup {"free"}
      BY DEF Zombie
    <3>3. c \in Child /\ c.st = "signalled" /\ c.job = child[p].job
      BY <3>2, <1>7 DEF Child
    <3> HIDE DEF c
    <3> QED
      BY <3>1, <3>3, <1>2, <1>7 DEF ChildTypeOK
  <2>2. CASE ~Alive(p)
    BY <2>2, <1>2 DEF Deadline, ChildTypeOK
  <2> QED
    BY <2>1, <2>2
<1>9. ChildTypeOK' /\ ChildInv' /\ CommittedInv' /\ IndexedBeforeRecorded'
  <2>1. \A q \in Pids : \/ child'[q] = child[q]
                        \/ child'[q].st = "free"
                        \/ child'[q].st = "signalled" /\ child'[q].job \in Jobs
                        \/ child'[q].st = "boot" /\ child'[q].job \in Jobs
    BY <1>7, <1>8
  <2>2. orphans' \subseteq Pids /\ pairs' \in [Jobs -> PairFiles]
    BY <1>1, <1>2, <1>8 DEF ChildTypeOK
  <2>3. \A j \in Jobs : pairs'[j] = pairs[j] \/ pairs'[j] \in FailureRecords
    BY <1>1
  <2> QED
    BY <2>1, <2>2, <2>3, <1>1, <1>8, ChildPartKept
<1>10. OrphansAlive'
  <2> SUFFICES ASSUME NEW q \in orphans PROVE child'[q].st \in Stages
    BY <1>8 DEF OrphansAlive, Alive
  <2>1. child[q].st \in Stages /\ q \in Pids /\ q # p
    BY <1>2, <1>7 DEF IInv, OrphansAlive, Alive, ChildTypeOK
  <2> QED
    BY <2>1, <1>8
<1>11. TypeOK'
  BY <1>1, <1>2, <1>5, <1>9 DEF TypeOK
<1>12. WaitingInv' /\ OwnersDistinct' /\ ChildrenOwned'
  <2>1. \A q \in Pids : /\ child'[q].st # "free" <=> child[q].st # "free"
                        /\ child'[q].job = child[q].job
    BY <1>7, <1>8
  <2> QED
    BY <2>1, <1>3, <1>4, <1>5, <1>8, OwnershipSame
<1>13. OneThreadPerJob'
  BY <1>3, <1>4, <1>5, JobsStayApart
<1>14. QueueInv'
  BY <1>1, <1>2, <1>3, <1>4, <1>6, QueueKept
<1>15. PoolInv'
  BY <1>1, <1>3, <1>4, PoolKept
<1>16. AccountedInv'
  BY <1>1, <1>3, <1>4, <1>5, AccountedKept
<1>17. DeathsInv' /\ KilledTwice'
  BY <1>1 DEF IInv, DeathsInv, KilledTwice
<1> QED
  BY <1>9, <1>10, <1>11, <1>12, <1>13, <1>14, <1>15, <1>16, <1>17 DEF IInv

\* What the three ways of settling have in common: the zombie is reaped.
LEMMA ReapsEffect ==
  ASSUME IInv, NEW t \in Threads, thread[t].pc = "settle", Reaps(t),
         pairs' \in [Jobs -> PairFiles],
         \A j \in Jobs : pairs'[j] = pairs[j] \/ pairs'[j] \in FailureRecords
  PROVE  /\ OnlyThread(t, Claiming) /\ Holds(t) /\ ~Holds(t)'
         /\ ChildTypeOK' /\ ChildInv' /\ CommittedInv' /\ IndexedBeforeRecorded'
         /\ OrphansAlive' /\ WaitingInv' /\ OwnersDistinct' /\ ChildrenOwned'
         /\ OneThreadPerJob' /\ PoolInv'
<1>1. /\ phase' = phase /\ index' = index /\ unindexed' = unindexed
      /\ leaked' = leaked /\ orphans' = orphans
      /\ child' = [child EXCEPT ![thread[t].pid] = NoChild]
  BY DEF Reaps, KeepPasses
<1>2. TypeOK /\ ChildTypeOK /\ Claiming \in Thread /\ Claiming.pc = "claim"
  BY ThreadType DEF IInv, TypeOK
<1>3. OnlyThread(t, Claiming)
  BY <1>2, SetOnly DEF Reaps
<1>4. Holds(t) /\ HasChild(t) /\ ~HasChild(t)' /\ ~Holds(t)'
  BY <1>2, <1>3 DEF OnlyThread, Holds, HasChild
<1>5. /\ child \in [Pids -> Child] /\ thread[t].pid \in Pids /\ thread[t].pid \notin orphans
      /\ orphans \subseteq Pids /\ leaked \subseteq Leaks
  BY <1>2, <1>4 DEF ChildTypeOK, IInv, WaitingInv
<1>6. NoChild \in Child /\ NoChild.st = "free"
  BY PlanAssumption DEF NoChild, Child
<1>7. ChildTypeOK' /\ ChildInv' /\ CommittedInv' /\ IndexedBeforeRecorded'
  <2>1. child' \in [Pids -> Child]
    BY <1>1, <1>5, <1>6
  <2>2. \A q \in Pids : \/ child'[q] = child[q]
                        \/ child'[q].st = "free"
                        \/ child'[q].st = "signalled" /\ child'[q].job \in Jobs
                        \/ child'[q].st = "boot" /\ child'[q].job \in Jobs
    BY <1>1, <1>5, <1>6
  <2> QED
    BY <2>1, <2>2, <1>1, <1>5, ChildPartKept
<1>8. OrphansAlive'
  <2>1. \A q \in orphans : child'[q] = child[q]
    BY <1>1, <1>5
  <2> QED
    BY <2>1, <1>1 DEF IInv, OrphansAlive, Alive
<1>9. WaitingInv' /\ OwnersDistinct' /\ ChildrenOwned'
  BY <1>1, <1>3, <1>4, OwnershipReleased
<1>10. OneThreadPerJob'
  BY <1>3, <1>4, JobsStayApart
<1>11. PoolInv'
  BY <1>1, <1>2, <1>3, PoolKept
<1> QED
  BY <1>3, <1>4, <1>7, <1>8, <1>9, <1>10, <1>11

LEMMA SettleOkIInv ==
  ASSUME IInv, NEW t \in Threads, SettleOk(t)
  PROVE  IInv'
<1>1. /\ thread[t].pc = "settle" /\ dropped' = dropped
      /\ phase' = phase /\ queue' = queue /\ killed' = killed /\ deaths' = deaths
      /\ next' = next /\ runs' = runs /\ todo' = todo /\ pairs' = pairs
      /\ Reaps(t)
  BY DEF SettleOk, Reaps, KeepPasses
<1>2. TypeOK /\ next \in Nat /\ pairs \in [Jobs -> PairFiles] /\ pairs' \in [Jobs -> PairFiles]
  BY <1>1 DEF IInv, TypeOK, ChildTypeOK
<1>3. \A j \in Jobs : pairs'[j] = pairs[j]
  BY <1>1
<1>4. /\ OnlyThread(t, Claiming) /\ Holds(t) /\ ~Holds(t)'
      /\ ChildTypeOK' /\ ChildInv' /\ CommittedInv' /\ IndexedBeforeRecorded'
      /\ OrphansAlive' /\ WaitingInv' /\ OwnersDistinct' /\ ChildrenOwned'
      /\ OneThreadPerJob' /\ PoolInv'
  BY <1>1, <1>2, <1>3, ReapsEffect
<1>5. pairs[thread[t].job] # "none"
  <2>1. /\ thread[t].pid \in Pids /\ child[thread[t].pid].st = "exited0"
        /\ child[thread[t].pid].job = thread[t].job
    BY <1>1 DEF SettleOk, Status, IInv, WaitingInv, HasChild
  <2> QED
    BY <2>1 DEF IInv, CommittedInv
<1>6. TypeOK'
  BY <1>1, <1>2, <1>4 DEF TypeOK, OnlyThread
<1>7. QueueInv'
  BY <1>1, <1>2, <1>4, QueueKept
<1>8. AccountedInv'
  BY <1>1, <1>4, <1>5, AccountedKept
<1>9. DeathsInv' /\ KilledTwice'
  BY <1>1 DEF IInv, DeathsInv, KilledTwice
<1> QED
  BY <1>4, <1>6, <1>7, <1>8, <1>9 DEF IInv

LEMMA SettleFailedIInv ==
  ASSUME IInv, NEW t \in Threads, SettleFailed(t)
  PROVE  IInv'
<1> DEFINE what == IF thread[t].timedOut THEN "timeout" ELSE "exit"
<1>1. /\ thread[t].pc = "settle" /\ Record(thread[t].job, what)
      /\ phase' = phase /\ queue' = queue /\ killed' = killed /\ deaths' = deaths
      /\ next' = next /\ runs' = runs /\ todo' = todo
      /\ Reaps(t)
  BY DEF SettleFailed, Reaps, KeepPasses
<1>2. TypeOK /\ next \in Nat /\ pairs \in [Jobs -> PairFiles] /\ dropped \subseteq Jobs
  BY DEF IInv, TypeOK, ChildTypeOK
<1>3. what \in FailureRecords /\ what \in PairFiles /\ what \notin {"none", "killed"}
  BY DEF FailureRecords, PairFiles
<1> HIDE DEF what
<1>4. thread[t].job \in Jobs
  BY <1>1, HeldJob DEF Holds
<1>5. /\ pairs' \in [Jobs -> PairFiles] /\ dropped' \subseteq Jobs
      /\ dropped \subseteq dropped'
      /\ \A j \in Jobs : pairs'[j] = pairs[j] \/ pairs'[j] = what
      /\ pairs'[thread[t].job] # "none" \/ thread[t].job \in dropped'
  BY <1>1, <1>2, <1>3, <1>4 DEF Record
<1>6. /\ OnlyThread(t, Claiming) /\ Holds(t) /\ ~Holds(t)'
      /\ ChildTypeOK' /\ ChildInv' /\ CommittedInv' /\ IndexedBeforeRecorded'
      /\ OrphansAlive' /\ WaitingInv' /\ OwnersDistinct' /\ ChildrenOwned'
      /\ OneThreadPerJob' /\ PoolInv'
  BY <1>1, <1>3, <1>5, ReapsEffect
<1>7. TypeOK'
  BY <1>1, <1>2, <1>5, <1>6 DEF TypeOK, OnlyThread
<1>8. QueueInv'
  BY <1>1, <1>2, <1>6, QueueKept
<1>9. AccountedInv'
  <2>1. \A j \in Jobs : pairs'[j] = "none" => pairs[j] = "none"
    BY <1>3, <1>5
  <2> QED
    BY <2>1, <1>1, <1>5, <1>6, AccountedKept
<1>10. DeathsInv'
  BY <1>1 DEF IInv, DeathsInv
<1>11. KilledTwice'
  BY <1>1, <1>3, <1>5 DEF IInv, KilledTwice
<1> QED
  BY <1>6, <1>7, <1>8, <1>9, <1>10, <1>11 DEF IInv

LEMMA RangeOfAppend ==
  ASSUME NEW S, NEW s \in Seq(S), NEW e \in S
  PROVE  /\ RangeOf(Append(s, e)) = RangeOf(s) \cup {e}
         /\ Append(s, e) \in Seq(S)
<1>1. DOMAIN Append(s, e) = 1 .. Len(s) + 1 /\ DOMAIN s = 1 .. Len(s) /\ Len(s) \in Nat
  OBVIOUS
<1>2. Append(s, e)[Len(s) + 1] = e /\ \A k \in 1 .. Len(s) : Append(s, e)[k] = s[k]
  OBVIOUS
<1>3. RangeOf(Append(s, e)) \subseteq RangeOf(s) \cup {e}
  <2> SUFFICES ASSUME NEW k \in DOMAIN Append(s, e), k \notin DOMAIN s
               PROVE  Append(s, e)[k] = e
    BY <1>1, <1>2 DEF RangeOf
  <2> QED
    BY <1>1, <1>2
<1>4. RangeOf(s) \cup {e} \subseteq RangeOf(Append(s, e))
  BY <1>1, <1>2 DEF RangeOf
<1> QED
  BY <1>3, <1>4

LEMMA SettleKilledIInv ==
  ASSUME IInv, NEW t \in Threads, SettleKilled(t)
  PROVE  IInv'
<1> DEFINE j0 == thread[t].job
<1>1. /\ thread[t].pc = "settle" /\ dropped' = dropped /\ pairs' = pairs
      /\ phase' = phase /\ queue' = queue /\ killed' = Append(killed, j0)
      /\ deaths' = [deaths EXCEPT ![j0] = IF @ < 2 THEN @ + 1 ELSE @]
      /\ next' = next /\ runs' = runs /\ todo' = todo
      /\ Reaps(t)
  BY DEF SettleKilled, Reaps, KeepPasses
<1>2. /\ TypeOK /\ next \in Nat /\ pairs' \in [Jobs -> PairFiles]
      /\ killed \in Seq(Jobs) /\ deaths \in [Jobs -> 0 .. 2]
  BY <1>1 DEF IInv, TypeOK, ChildTypeOK
<1>3. j0 \in Jobs /\ j0 \in RangeOf(queue)
  BY <1>1, HeldJob DEF Holds, RangeOf
<1>4. RangeOf(killed') = RangeOf(killed) \cup {j0} /\ killed' \in Seq(Jobs)
  BY <1>1, <1>2, <1>3, RangeOfAppend
<1>5. /\ deaths' \in [Jobs -> 0 .. 2] /\ deaths'[j0] >= 1
      /\ \A j \in Jobs : deaths'[j] >= deaths[j]
      /\ deaths[j0] >= 1 => deaths'[j0] = 2
  <2> HIDE DEF j0
  <2>1. deaths[j0] \in 0 .. 2
    BY <1>2, <1>3
  <2>2. deaths'[j0] = IF deaths[j0] < 2 THEN deaths[j0] + 1 ELSE deaths[j0]
    BY <1>1, <1>2, <1>3
  <2>3. \A j \in Jobs : j # j0 => deaths'[j] = deaths[j]
    BY <1>1, <1>2
  <2>4. deaths'[j0] \in 0 .. 2 /\ deaths'[j0] >= deaths[j0]
    BY <2>1, <2>2
  <2>5. \A j \in Jobs : deaths'[j] \in 0 .. 2 /\ deaths'[j] >= deaths[j]
    BY <2>3, <2>4, <1>2
  <2>6. deaths' \in [Jobs -> 0 .. 2]
    BY <2>5, <1>1, <1>2
  <2> QED
    BY <2>1, <2>2, <2>5, <2>6
<1>6. \A j \in Jobs : pairs'[j] = pairs[j]
  BY <1>1
<1>7. /\ OnlyThread(t, Claiming) /\ Holds(t) /\ ~Holds(t)'
      /\ ChildTypeOK' /\ ChildInv' /\ CommittedInv' /\ IndexedBeforeRecorded'
      /\ OrphansAlive' /\ WaitingInv' /\ OwnersDistinct' /\ ChildrenOwned'
      /\ OneThreadPerJob' /\ PoolInv'
  BY <1>1, <1>2, <1>6, ReapsEffect
<1>8. TypeOK'
  BY <1>1, <1>2, <1>4, <1>5, <1>7 DEF TypeOK, OnlyThread
<1>9. QueueInv'
  <2>1. \A u \in Threads : Holds(u)' => u # t /\ Holds(u) /\ thread'[u] = thread[u]
    BY <1>7, OtherThread
  <2>2. \A j : Claimed(j) <=> Claimed(j)'
    BY <1>1 DEF Claimed
  <2>3. ASSUME NEW u \in Threads, Holds(u)'
        PROVE  Claimed(thread[u].job)' /\ (thread[u].job \notin RangeOf(killed))'
    <3>1. u # t /\ Holds(u) /\ thread'[u] = thread[u]
      BY <2>1, <2>3
    <3>2. Claimed(thread[u].job) /\ thread[u].job \notin RangeOf(killed)
      BY <3>1 DEF IInv, QueueInv
    <3>3. thread[u].job # j0
      BY <3>1, <1>7 DEF IInv, OneThreadPerJob
    <3>4. thread'[u].job \notin RangeOf(killed')
      BY <3>1, <3>2, <3>3, <1>4
    <3>5. Claimed(thread'[u].job)
      BY <3>1, <3>2
    <3> QED
      BY <3>4, <3>5, <1>1 DEF Claimed, RangeOf
  <2>4. \A j \in RangeOf(killed') : Claimed(j)
    BY <1>4, <1>7 DEF IInv, QueueInv
  <2>5. (\A j \in RangeOf(killed) : Claimed(j))'
    BY <2>4, <1>1 DEF Claimed, RangeOf
  <2>6. j0 \notin RangeOf(killed)
    BY <1>7, HeldJob
  <2>7. Distinct(killed')
    <3>1. Distinct(killed)
      BY DEF IInv, QueueInv
    <3> HIDE DEF j0
    <3> SUFFICES ASSUME NEW a \in DOMAIN killed', NEW b \in DOMAIN killed',
                        killed'[a] = killed'[b], a # b
                 PROVE  FALSE
      BY DEF Distinct
    <3>2. /\ DOMAIN killed' = 1 .. Len(killed) + 1 /\ DOMAIN killed = 1 .. Len(killed)
          /\ Len(killed) \in Nat /\ killed'[Len(killed) + 1] = j0
          /\ \A k \in 1 .. Len(killed) : killed'[k] = killed[k]
      BY <1>1, <1>2
    <3>3. \A k \in DOMAIN killed : killed[k] # j0
      BY <2>6 DEF RangeOf
    <3>4. CASE a \in DOMAIN killed /\ b \in DOMAIN killed
      BY <3>1, <3>2, <3>4 DEF Distinct
    <3>5. CASE a = Len(killed) + 1
      BY <3>2, <3>3, <3>5
    <3>6. CASE b = Len(killed) + 1
      BY <3>2, <3>3, <3>6
    <3> QED
      BY <3>2, <3>4, <3>5, <3>6
  <2>8. Distinct(queue')
    BY <1>1 DEF IInv, QueueInv
  <2> QED
    BY <2>3, <2>5, <2>7, <2>8 DEF QueueInv
<1>10. AccountedInv'
  BY <1>1, <1>4, <1>6, <1>7, AccountedKept
<1>11. DeathsInv'
  <2>1. \A j \in RangeOf(killed) \cup RangeOf(queue) : j \in Jobs
    BY <1>2 DEF RangeOf, TypeOK
  <2>2. \A j \in Jobs : deaths[j] \in 0 .. 2 /\ deaths'[j] \in 0 .. 2
    BY <1>2, <1>5
  <2>3. phase = "pass" => \A j \in RangeOf(killed') : deaths'[j] >= 1
    BY <2>1, <2>2, <1>4, <1>5 DEF IInv, DeathsInv
  <2>4. phase = "retry" => \A j \in RangeOf(queue) : deaths'[j] >= 1
    BY <2>1, <2>2, <1>5 DEF IInv, DeathsInv
  <2>5. phase # "bury"
    BY <1>7, HeldJob
  <2>6. phase = "retry" /\ Workers > 1 => \A j \in RangeOf(killed') : deaths'[j] = 2
    BY <2>1, <2>2, <1>3, <1>4, <1>5 DEF IInv, DeathsInv
  <2> QED
    BY <2>3, <2>4, <2>5, <2>6, <1>1 DEF DeathsInv
<1>12. KilledTwice'
  <2>1. \A j \in Jobs : deaths[j] = 2 => deaths'[j] = 2
    BY <1>2, <1>5
  <2> QED
    BY <2>1, <1>1 DEF IInv, KilledTwice
<1> QED
  BY <1>7, <1>8, <1>9, <1>10, <1>11, <1>12 DEF IInv

(***************************************************************************)
(* The invariant under the steps of run_diff itself.                       *)
(***************************************************************************)

\* Nothing is at work when the pool has been joined.
LEMMA JoinedIdle ==
  ASSUME IInv, Joined
  PROVE  /\ \A t \in Threads : ~Holds(t) /\ ~HasChild(t)
         /\ \A p \in Pids \ orphans : child[p].st = "free"
<1>1. \A t \in Threads : ~Holds(t) /\ ~HasChild(t)
  BY DEF Joined, Holds, HasChild
<1> QED
  BY <1>1 DEF IInv, ChildrenOwned

\* A pass begins with a fresh pool over jobs that are each named once.
LEMMA BeginPassInv ==
  ASSUME IInv, Joined, NEW jobs \in Seq(Jobs), Distinct(jobs),
         NEW pool \in SUBSET Threads, BeginPass(jobs, pool),
         child' = child, orphans' = orphans
  PROVE  /\ queue' = jobs /\ queue' \in Seq(Jobs) /\ next' = 1
         /\ killed' = <<>> /\ killed' \in Seq(Jobs) /\ RangeOf(killed') = {}
         /\ thread' \in [Threads -> Thread]
         /\ \A t \in pool : thread'[t].pc = "claim"
         /\ \A t \in Threads \ pool : thread'[t].pc = "done"
         /\ WaitingInv' /\ OwnersDistinct' /\ ChildrenOwned' /\ OneThreadPerJob'
         /\ QueueInv'
<1>1. /\ queue' = jobs /\ next' = 1 /\ killed' = <<>>
      /\ thread' = [t \in Threads |-> IF t \in pool THEN Claiming ELSE Idle]
  BY DEF BeginPass
<1>2. \A t \in Threads : /\ Idle \in Thread /\ Claiming \in Thread
                         /\ Idle.pc = "done" /\ Claiming.pc = "claim"
  BY ThreadType DEF IInv
<1>3. /\ thread' \in [Threads -> Thread]
      /\ \A t \in pool : thread'[t].pc = "claim"
      /\ \A t \in Threads \ pool : thread'[t].pc = "done"
  BY <1>1, <1>2
<1>4. \A t \in Threads : ~HasChild(t)' /\ ~Holds(t)'
  <2> SUFFICES ASSUME NEW t \in Threads PROVE thread'[t].pc \in {"claim", "done"}
    BY DEF HasChild, Holds
  <2> QED
    BY <1>3
<1>5. RangeOf(killed') = {} /\ killed' \in Seq(Jobs) /\ Distinct(killed')
  BY <1>1 DEF RangeOf, Distinct
<1>6. WaitingInv' /\ OwnersDistinct' /\ OneThreadPerJob'
  BY <1>4 DEF WaitingInv, OwnersDistinct, OneThreadPerJob
<1>7. ChildrenOwned'
  BY JoinedIdle DEF ChildrenOwned
<1>8. QueueInv'
  BY <1>1, <1>4, <1>5 DEF QueueInv
<1> QED
  BY <1>1, <1>3, <1>5, <1>6, <1>7, <1>8

LEMMA StartIInv ==
  ASSUME IInv, Start
  PROVE  IInv'
<1>1. /\ phase \in {"stopped", "complete"} /\ phase' = "pass" /\ runs' = runs + 1
      /\ todo' = Unrecorded /\ dropped' = {}
      /\ deaths' = [j \in Jobs |-> IF j \in Unrecorded THEN 0 ELSE deaths[j]]
      /\ pairs' = pairs /\ index' = index /\ unindexed' = unindexed
      /\ leaked' = leaked /\ child' = child /\ orphans' = orphans
  BY DEF Start, childVars, disk
<1>2. PICK n \in 0 .. NumJobs : \E s \in [1 .. n -> Jobs] :
        InPlanOrder(s, Unrecorded) /\ BeginPass(s, Threads)
  BY DEF Start
<1>3. PICK s \in [1 .. n -> Jobs] :
        InPlanOrder(s, Unrecorded) /\ BeginPass(s, Threads)
  BY <1>2
<1>4. s \in Seq(Jobs)
  BY <1>2, <1>3, PlanAssumption, SeqDef
<1>5. Distinct(s) /\ RangeOf(s) = Unrecorded
  <2>1. /\ RangeOf(s) = Unrecorded
        /\ \A a, b \in DOMAIN s : a < b => s[a] < s[b]
    BY <1>3 DEF InPlanOrder
  <2>2. DOMAIN s = 1 .. n /\ n \in Nat /\ \A a \in DOMAIN s : s[a] \in Nat
    BY <1>2, <1>3, PlanAssumption DEF Jobs
  <2>3. ASSUME NEW a \in 1 .. n, NEW b \in 1 .. n, s[a] = s[b]
        PROVE  a = b
    <3>1. ~(a < b) /\ ~(b < a)
      BY <2>1, <2>2, <2>3
    <3> QED
      BY <3>1, <2>2
  <2> QED
    BY <2>1, <2>2, <2>3 DEF Distinct
<1>6. Joined
  BY <1>1 DEF IInv, PoolInv
<1>7. /\ queue' = s /\ queue' \in Seq(Jobs) /\ next' = 1
      /\ killed' = <<>> /\ killed' \in Seq(Jobs) /\ RangeOf(killed') = {}
      /\ thread' \in [Threads -> Thread]
      /\ \A t \in Threads : thread'[t].pc = "claim"
      /\ WaitingInv' /\ OwnersDistinct' /\ ChildrenOwned' /\ OneThreadPerJob'
      /\ QueueInv'
  BY <1>1, <1>3, <1>4, <1>5, <1>6, BeginPassInv
<1>8. ChildTypeOK' /\ ChildInv' /\ CommittedInv' /\ IndexedBeforeRecorded' /\ OrphansAlive'
  BY <1>1, ChildPartSame
<1>9. TypeOK'
  <2>1. runs' \in Nat /\ deaths' \in [Jobs -> 0 .. 2] /\ phase' \in Phases
    BY <1>1 DEF IInv, TypeOK, Phases
  <2> QED
    BY <2>1, <1>1, <1>7, <1>8 DEF TypeOK, Unrecorded
<1>10. PoolInv'
  BY <1>1, <1>7, ThreadsNonEmpty DEF PoolInv, Joined
<1>11. AccountedInv'
  <2> SUFFICES ASSUME NEW j \in Jobs, pairs[j] = "none" PROVE Unclaimed(j)'
    BY <1>1 DEF AccountedInv
  <2>1. PICK k \in DOMAIN s : s[k] = j
    BY <1>5 DEF Unrecorded, RangeOf
  <2>2. k >= 1
    BY <1>3, <2>1
  <2> QED
    BY <2>1, <2>2, <1>7 DEF Unclaimed
<1>12. DeathsInv'
  BY <1>1, <1>7 DEF DeathsInv
<1>13. KilledTwice'
  BY <1>1 DEF IInv, KilledTwice, Unrecorded
<1> QED
  BY <1>7, <1>8, <1>9, <1>10, <1>11, <1>12, <1>13 DEF IInv

LEMMA FinishIInv ==
  ASSUME IInv, Finish
  PROVE  IInv'
<1>1. /\ phase \in {"pass", "retry", "bury"} /\ phase' = "complete" /\ Joined
      /\ killed = <<>> /\ queue' = queue /\ killed' = killed /\ next' = next
      /\ thread' = thread /\ runs' = runs /\ todo' = todo /\ deaths' = deaths
      /\ dropped' = dropped
      /\ pairs' = pairs /\ index' = index /\ unindexed' = unindexed
      /\ leaked' = leaked /\ child' = child /\ orphans' = orphans
  BY DEF Finish, childVars, disk
<1>2. ChildTypeOK' /\ ChildInv' /\ CommittedInv' /\ IndexedBeforeRecorded' /\ OrphansAlive'
  BY <1>1, ChildPartSame
<1>3. TypeOK'
  BY <1>1, <1>2 DEF IInv, TypeOK, Phases
<1>4. WaitingInv' /\ OwnersDistinct' /\ ChildrenOwned' /\ OneThreadPerJob' /\ QueueInv'
  BY <1>1 DEF IInv, WaitingInv, OwnersDistinct, ChildrenOwned, OneThreadPerJob, QueueInv,
              HasChild, Holds, Claimed
<1>5. PoolInv'
  BY <1>1 DEF IInv, PoolInv, Joined
<1>6. AccountedInv'
  BY <1>1 DEF IInv, AccountedInv, Unclaimed, Held, Holds
<1>7. DeathsInv' /\ KilledTwice'
  BY <1>1 DEF IInv, DeathsInv, KilledTwice
<1> QED
  BY <1>2, <1>3, <1>4, <1>5, <1>6, <1>7 DEF IInv

LEMMA GiveUpIInv ==
  ASSUME IInv, GiveUp
  PROVE  IInv'
<1>1. /\ phase = "retry" \/ (phase = "pass" /\ Workers <= 1)
      /\ phase' = "bury" /\ Joined /\ queue' = queue /\ killed' = killed /\ next' = next
      /\ thread' = thread /\ runs' = runs /\ todo' = todo /\ deaths' = deaths
      /\ dropped' = dropped
      /\ pairs' = pairs /\ index' = index /\ unindexed' = unindexed
      /\ leaked' = leaked /\ child' = child /\ orphans' = orphans
  BY DEF GiveUp, childVars, disk
<1>2. ChildTypeOK' /\ ChildInv' /\ CommittedInv' /\ IndexedBeforeRecorded' /\ OrphansAlive'
  BY <1>1, ChildPartSame
<1>3. TypeOK'
  BY <1>1, <1>2 DEF IInv, TypeOK, Phases
<1>4. WaitingInv' /\ OwnersDistinct' /\ ChildrenOwned' /\ OneThreadPerJob' /\ QueueInv'
  BY <1>1 DEF IInv, WaitingInv, OwnersDistinct, ChildrenOwned, OneThreadPerJob, QueueInv,
              HasChild, Holds, Claimed
<1>5. PoolInv'
  BY <1>1 DEF IInv, PoolInv, Joined
<1>6. AccountedInv'
  BY <1>1 DEF IInv, AccountedInv, Unclaimed, Held, Holds
<1>7. DeathsInv'
  BY <1>1, PoolAssumption DEF IInv, DeathsInv
<1>8. KilledTwice'
  BY <1>1 DEF IInv, KilledTwice
<1> QED
  BY <1>2, <1>3, <1>4, <1>5, <1>6, <1>7, <1>8 DEF IInv

LEMMA RetryIInv ==
  ASSUME IInv, Retry
  PROVE  IInv'
<1>1. /\ phase = "pass" /\ phase' = "retry" /\ Joined
      /\ runs' = runs /\ todo' = todo /\ deaths' = deaths /\ dropped' = dropped
      /\ pairs' = pairs /\ index' = index /\ unindexed' = unindexed
      /\ leaked' = leaked /\ child' = child /\ orphans' = orphans
  BY DEF Retry, childVars, disk
<1>2. PICK t \in Threads : BeginPass(killed, {t})
  BY DEF Retry
<1>3. killed \in Seq(Jobs) /\ Distinct(killed)
  BY DEF IInv, TypeOK, QueueInv
<1>4. /\ queue' = killed /\ queue' \in Seq(Jobs) /\ next' = 1
      /\ killed' = <<>> /\ killed' \in Seq(Jobs) /\ RangeOf(killed') = {}
      /\ thread' \in [Threads -> Thread]
      /\ thread'[t].pc = "claim"
      /\ \A u \in Threads \ {t} : thread'[u].pc = "done"
      /\ WaitingInv' /\ OwnersDistinct' /\ ChildrenOwned' /\ OneThreadPerJob'
      /\ QueueInv'
  BY <1>1, <1>2, <1>3, BeginPassInv
<1>5. ChildTypeOK' /\ ChildInv' /\ CommittedInv' /\ IndexedBeforeRecorded' /\ OrphansAlive'
  BY <1>1, ChildPartSame
<1>6. TypeOK'
  BY <1>1, <1>4, <1>5 DEF IInv, TypeOK, Phases
<1>7. PoolInv'
  BY <1>1, <1>4 DEF PoolInv, Joined
<1>8. AccountedInv'
  <2> SUFFICES ASSUME NEW j \in Jobs, pairs[j] = "none", j \notin dropped
               PROVE  Unclaimed(j)'
    BY <1>1 DEF AccountedInv
  <2>1. ~Held(j)
    BY <1>1, JoinedIdle DEF Held
  <2>2. ~Unclaimed(j)
    BY <1>1 DEF IInv, PoolInv, TypeOK, Unclaimed
  <2>3. j \in RangeOf(killed)
    BY <2>1, <2>2, <1>1 DEF IInv, AccountedInv
  <2>4. PICK k \in DOMAIN killed : killed[k] = j
    BY <2>3 DEF RangeOf
  <2>5. k >= 1
    BY <1>3, <2>4
  <2> QED
    BY <2>4, <2>5, <1>4 DEF Unclaimed
<1>9. DeathsInv'
  BY <1>1, <1>4 DEF IInv, DeathsInv, RangeOf
<1>10. KilledTwice'
  BY <1>1 DEF IInv, KilledTwice
<1> QED
  BY <1>4, <1>5, <1>6, <1>7, <1>8, <1>9, <1>10 DEF IInv

LEMMA RangeOfTail ==
  ASSUME NEW S, NEW s \in Seq(S), s # <<>>
  PROVE  /\ Tail(s) \in Seq(S) /\ Head(s) \in RangeOf(s)
         /\ RangeOf(Tail(s)) \subseteq RangeOf(s)
         /\ RangeOf(s) \subseteq RangeOf(Tail(s)) \cup {Head(s)}
         /\ Distinct(s) => Distinct(Tail(s))
<1>1. /\ Len(s) \in Nat \ {0} /\ DOMAIN s = 1 .. Len(s) /\ Head(s) = s[1]
      /\ DOMAIN Tail(s) = 1 .. Len(s) - 1 /\ Tail(s) \in Seq(S)
      /\ \A k \in 1 .. Len(s) - 1 : Tail(s)[k] = s[k + 1]
  OBVIOUS
<1>2. Head(s) \in RangeOf(s)
  BY <1>1 DEF RangeOf
<1>3. RangeOf(Tail(s)) \subseteq RangeOf(s)
  <2> SUFFICES ASSUME NEW k \in 1 .. Len(s) - 1 PROVE s[k + 1] \in RangeOf(s)
    BY <1>1 DEF RangeOf
  <2>1. k + 1 \in DOMAIN s
    BY <1>1
  <2> QED
    BY <2>1 DEF RangeOf
<1>4. RangeOf(s) \subseteq RangeOf(Tail(s)) \cup {Head(s)}
  <2> SUFFICES ASSUME NEW k \in DOMAIN s, s[k] # Head(s) PROVE s[k] \in RangeOf(Tail(s))
    BY DEF RangeOf
  <2>1. k - 1 \in 1 .. Len(s) - 1 /\ Tail(s)[k - 1] = s[k]
    BY <1>1
  <2> QED
    BY <2>1, <1>1 DEF RangeOf
<1>5. Distinct(s) => Distinct(Tail(s))
  <2> SUFFICES ASSUME Distinct(s), NEW a \in 1 .. Len(s) - 1, NEW b \in 1 .. Len(s) - 1,
                      s[a + 1] = s[b + 1]
               PROVE  a = b
    BY <1>1 DEF Distinct
  <2>1. a + 1 \in DOMAIN s /\ b + 1 \in DOMAIN s
    BY <1>1
  <2>2. a + 1 = b + 1
    BY <2>1 DEF Distinct
  <2> QED
    BY <2>2, <1>1
<1> QED
  BY <1>1, <1>2, <1>3, <1>4, <1>5

LEMMA BuryIInv ==
  ASSUME IInv, Bury
  PROVE  IInv'
<1>1. /\ phase = "bury" /\ phase' = "bury" /\ killed # <<>> /\ killed' = Tail(killed)
      /\ queue' = queue /\ next' = next
      /\ thread' = thread /\ runs' = runs /\ todo' = todo /\ deaths' = deaths
      /\ index' = index /\ unindexed' = unindexed
      /\ leaked' = leaked /\ child' = child /\ orphans' = orphans
      /\ Record(Head(killed), "killed")
  BY DEF Bury
<1>2. /\ killed \in Seq(Jobs) /\ pairs \in [Jobs -> PairFiles] /\ dropped \subseteq Jobs
      /\ ChildTypeOK /\ Joined
  BY <1>1 DEF IInv, TypeOK, ChildTypeOK, PoolInv
<1>3. /\ killed' \in Seq(Jobs) /\ Head(killed) \in RangeOf(killed)
      /\ RangeOf(killed') \subseteq RangeOf(killed)
      /\ RangeOf(killed) \subseteq RangeOf(killed') \cup {Head(killed)}
      /\ Distinct(killed) => Distinct(killed')
  BY <1>1, <1>2, RangeOfTail
<1>4. Head(killed) \in Jobs
  BY <1>2, <1>3 DEF RangeOf
<1>5. /\ pairs' \in [Jobs -> PairFiles] /\ dropped' \subseteq Jobs
      /\ dropped \subseteq dropped'
      /\ \A j \in Jobs : pairs'[j] = pairs[j] \/ (j = Head(killed) /\ pairs'[j] = "killed")
      /\ pairs'[Head(killed)] # "none" \/ Head(killed) \in dropped'
  <2>1. "killed" \in PairFiles /\ "killed" # "none"
    BY DEF PairFiles, FailureRecords
  <2> QED
    BY <2>1, <1>1, <1>2, <1>4 DEF Record
<1>6. ChildTypeOK' /\ ChildInv' /\ CommittedInv' /\ IndexedBeforeRecorded'
  <2>1. child' \in [Pids -> Child] /\ orphans' \subseteq Pids /\ leaked' \subseteq Leaks
    BY <1>1, <1>2 DEF ChildTypeOK
  <2>2. \A q \in Pids : \/ child'[q] = child[q]
                        \/ child'[q].st = "free"
                        \/ child'[q].st = "signalled" /\ child'[q].job \in Jobs
                        \/ child'[q].st = "boot" /\ child'[q].job \in Jobs
    BY <1>1
  <2>3. \A j \in Jobs : pairs'[j] = pairs[j] \/ pairs'[j] \in FailureRecords
    BY <1>5 DEF FailureRecords
  <2> QED
    BY <2>1, <2>2, <2>3, <1>1, <1>5, ChildPartKept
<1>7. OrphansAlive'
  BY <1>1 DEF IInv, OrphansAlive, Alive
<1>8. TypeOK'
  BY <1>1, <1>3, <1>5, <1>6 DEF IInv, TypeOK
<1>9. WaitingInv' /\ OwnersDistinct' /\ ChildrenOwned' /\ OneThreadPerJob'
  BY <1>1 DEF IInv, WaitingInv, OwnersDistinct, ChildrenOwned, OneThreadPerJob, HasChild, Holds
<1>10. QueueInv'
  <2>1. \A t \in Threads : ~Holds(t)'
    BY <1>1, <1>2 DEF Joined, Holds
  <2>2. \A j \in RangeOf(killed') : Claimed(j)
    BY <1>3 DEF IInv, QueueInv
  <2>3. (\A j \in RangeOf(killed) : Claimed(j))'
    BY <2>2, <1>1 DEF Claimed
  <2>4. Distinct(queue)' /\ Distinct(killed)'
    BY <1>1, <1>3 DEF IInv, QueueInv, Distinct
  <2> QED
    BY <2>1, <2>3, <2>4 DEF QueueInv
<1>11. PoolInv'
  BY <1>1 DEF IInv, PoolInv, Joined
<1>12. AccountedInv'
  <2> SUFFICES ASSUME NEW j \in Jobs, pairs'[j] = "none", j \notin dropped'
               PROVE  Unclaimed(j)' \/ Held(j)' \/ j \in RangeOf(killed')
    BY DEF AccountedInv
  <2>1. pairs[j] = "none" /\ j \notin dropped /\ j # Head(killed)
    BY <1>5
  <2>2. Unclaimed(j) \/ Held(j) \/ j \in RangeOf(killed)
    BY <2>1, <1>1 DEF IInv, AccountedInv
  <2> QED
    BY <2>1, <2>2, <1>1, <1>3 DEF Unclaimed, Held, Holds
<1>13. DeathsInv'
  BY <1>1, <1>3 DEF IInv, DeathsInv
<1>14. KilledTwice'
  <2>1. Workers > 1 => deaths[Head(killed)] = 2
    BY <1>1, <1>3 DEF IInv, DeathsInv
  <2> QED
    BY <2>1, <1>1, <1>5 DEF IInv, KilledTwice
<1> QED
  BY <1>6, <1>7, <1>8, <1>9, <1>10, <1>11, <1>12, <1>13, <1>14 DEF IInv

LEMMA ParentDiesIInv ==
  ASSUME IInv, ParentDies
  PROVE  IInv'
<1>1. /\ phase' = "stopped" /\ thread' = [t \in Threads |-> Idle]
      /\ child' = [p \in Pids |-> IF Alive(p) THEN child[p] ELSE NoChild]
      /\ orphans' = {p \in Pids : Alive(p)}
      /\ queue' = <<>> /\ next' = 1 /\ killed' = <<>>
      /\ runs' = runs /\ todo' = todo /\ deaths' = deaths /\ dropped' = dropped
      /\ pairs' = pairs /\ index' = index /\ unindexed' = unindexed /\ leaked' = leaked
  BY DEF ParentDies, disk
<1>2. TypeOK /\ ChildTypeOK /\ child \in [Pids -> Child]
  BY DEF IInv, TypeOK, ChildTypeOK
<1>3. NoChild \in Child /\ NoChild.st = "free"
  BY PlanAssumption DEF NoChild, Child
<1>4. \A t \in Threads : Idle \in Thread /\ Idle.pc = "done"
  BY <1>2, ThreadType
<1>5. /\ child' \in [Pids -> Child] /\ orphans' \subseteq Pids
      /\ \A p \in Pids : /\ Alive(p) => child'[p] = child[p]
                         /\ ~Alive(p) => child'[p].st = "free"
  BY <1>1, <1>2, <1>3
<1>6. \A t \in Threads : thread'[t].pc = "done" /\ ~HasChild(t)' /\ ~Holds(t)'
  BY <1>1, <1>4 DEF HasChild, Holds
<1>7. ChildTypeOK' /\ ChildInv' /\ CommittedInv' /\ IndexedBeforeRecorded'
  <2>1. \A q \in Pids : \/ child'[q] = child[q]
                        \/ child'[q].st = "free"
                        \/ child'[q].st = "signalled" /\ child'[q].job \in Jobs
                        \/ child'[q].st = "boot" /\ child'[q].job \in Jobs
    BY <1>5
  <2>2. /\ pairs' \in [Jobs -> PairFiles] /\ leaked' \subseteq Leaks
        /\ \A j \in Jobs : pairs'[j] = pairs[j] \/ pairs'[j] \in FailureRecords
    BY <1>1, <1>2 DEF ChildTypeOK
  <2> QED
    BY <2>1, <2>2, <1>1, <1>5, ChildPartKept
<1>8. TypeOK'
  <2>1. /\ thread' \in [Threads -> Thread] /\ queue' \in Seq(Jobs) /\ killed' \in Seq(Jobs)
        /\ phase' \in Phases /\ next' \in Nat \ {0}
    BY <1>1, <1>4 DEF Phases
  <2> QED
    BY <2>1, <1>1, <1>2, <1>7 DEF TypeOK
<1>9. WaitingInv' /\ OwnersDistinct' /\ OneThreadPerJob'
  BY <1>6 DEF WaitingInv, OwnersDistinct, OneThreadPerJob
<1>10. ChildrenOwned'
  BY <1>1, <1>5 DEF ChildrenOwned
<1>11. OrphansAlive'
  BY <1>1, <1>5 DEF OrphansAlive, Alive
<1>12. QueueInv'
  <2>1. RangeOf(killed') = {} /\ Distinct(killed') /\ Distinct(queue')
    BY <1>1 DEF RangeOf, Distinct
  <2> QED
    BY <2>1, <1>6 DEF QueueInv
<1>13. PoolInv'
  BY <1>1, <1>6 DEF PoolInv, Joined
<1>14. AccountedInv' /\ DeathsInv'
  BY <1>1 DEF AccountedInv, DeathsInv
<1>15. KilledTwice'
  BY <1>1 DEF IInv, KilledTwice
<1> QED
  BY <1>7, <1>8, <1>9, <1>10, <1>11, <1>12, <1>13, <1>14, <1>15 DEF IInv

(***************************************************************************)
(* The invariant, and the promises that follow from it.                    *)
(***************************************************************************)
LEMMA InitIInv == Init => IInv
<1> SUFFICES ASSUME Init PROVE IInv
  OBVIOUS
<1>1. /\ pairs = [j \in Jobs |-> "none"] /\ unindexed = {} /\ leaked = {}
      /\ index = OldIndexes
      /\ child = [p \in Pids |-> NoChild] /\ orphans = {}
      /\ phase = "stopped" /\ queue = <<>> /\ next = 1 /\ killed = <<>>
      /\ thread = [t \in Threads |-> Idle] /\ runs = 0 /\ todo = {}
      /\ deaths = [j \in Jobs |-> 0] /\ dropped = {}
  BY DEF Init, ChildInit
<1>2. NoChild \in Child /\ NoChild.st = "free"
  BY PlanAssumption DEF NoChild, Child
<1>3. Idle \in Thread /\ Idle.pc = "done"
  BY PlanAssumption DEF Idle, Thread, ThreadPcs
<1>4. \A p \in Pids : child[p].st = "free"
  BY <1>1, <1>2
<1>5. \A t \in Threads : thread[t].pc = "done"
  BY <1>1, <1>3
<1>6. \A j \in Jobs : pairs[j] = "none"
  BY <1>1
<1>7. TypeOK
  <2>1. "none" \in PairFiles /\ 0 \in 0 .. 2 /\ "stopped" \in Phases
    BY DEF PairFiles, Phases
  <2>2. index \subseteq Releases \X Langs
    BY <1>1, PlanAssumption
  <2>3. ChildTypeOK
    BY <2>1, <2>2, <1>1, <1>2, <1>4 DEF ChildTypeOK
  <2>4. /\ deaths \in [Jobs -> 0 .. 2] /\ thread \in [Threads -> Thread]
        /\ queue \in Seq(Jobs) /\ killed \in Seq(Jobs)
    BY <2>1, <1>1, <1>3
  <2> QED
    BY <2>1, <2>3, <2>4, <1>1 DEF TypeOK
<1>8. /\ WaitingInv /\ OwnersDistinct /\ OneThreadPerJob /\ ChildrenOwned /\ OrphansAlive
  BY <1>1, <1>4, <1>5
  DEF WaitingInv, OwnersDistinct, OneThreadPerJob, ChildrenOwned, OrphansAlive, HasChild, Holds
<1>9. QueueInv
  <2>1. RangeOf(killed) = {} /\ Distinct(killed) /\ Distinct(queue)
    BY <1>1 DEF RangeOf, Distinct
  <2> QED
    BY <2>1, <1>5 DEF QueueInv, Holds
<1>10. PoolInv /\ DeathsInv /\ AccountedInv
  BY <1>1, <1>5 DEF PoolInv, DeathsInv, AccountedInv, Joined
<1>11. CommittedInv /\ ChildInv
  BY <1>4 DEF CommittedInv, ChildInv, At
<1>12. IndexedBeforeRecorded /\ KilledTwice
  BY <1>6 DEF IndexedBeforeRecorded, KilledTwice
<1> QED
  BY <1>7, <1>8, <1>9, <1>10, <1>11, <1>12 DEF IInv

LEMMA StutterIInv ==
  ASSUME IInv, UNCHANGED vars
  PROVE  IInv'
BY DEF IInv, vars, parentVars, childVars, disk, TypeOK, ChildTypeOK, WaitingInv,
       OwnersDistinct, ChildrenOwned, OrphansAlive, QueueInv, PoolInv, OneThreadPerJob,
       CommittedInv, ChildInv, IndexedBeforeRecorded, AccountedInv, DeathsInv, KilledTwice,
       HasChild, Holds, Alive, At, Indexed, Key, Claimed, Unclaimed, Held, Joined

LEMMA NextIInv ==
  ASSUME IInv, [Next]_vars
  PROVE  IInv'
<1>1. CASE Start \/ Finish \/ Retry \/ GiveUp \/ Bury \/ ParentDies
  BY <1>1, StartIInv, FinishIInv, RetryIInv, GiveUpIInv, BuryIInv, ParentDiesIInv
<1>2. ASSUME NEW t \in Threads, ThreadStep(t)
      PROVE  IInv'
  BY <1>2, ClaimIInv, SpawnIInv, SpawnFailsIInv, PipesClosedIInv, DeadlineIInv,
     SettleOkIInv, SettleKilledIInv, SettleFailedIInv DEF ThreadStep
<1>3. ASSUME NEW p \in Pids, ChildStep(p), UNCHANGED parentVars
      PROVE  IInv'
  BY <1>3, ChildStepIInv
<1>4. CASE UNCHANGED vars
  BY <1>4, StutterIInv
<1> QED
  BY <1>1, <1>2, <1>3, <1>4 DEF Next, Rest

\* The inductive invariant holds in every reachable state of the diff stage,
\* for every plan, pool and number of restarts.
THEOREM Invariance == Spec => []IInv
<1>1. Init => IInv
  BY InitIInv
<1>2. IInv /\ [Next]_vars => IInv'
  BY NextIInv
<1> QED
  BY <1>1, <1>2, PTL DEF Spec

\* Every variable of run_diff and of its children keeps its type.
THEOREM TypeCorrect == Spec => []TypeOK
<1>1. IInv => TypeOK
  BY DEF IInv
<1> QED
  BY <1>1, Invariance, PTL

\* No job is ever in the hands of two worker threads (diff.cpp:198-277).
THEOREM JobsExclusive == Spec => []OneThreadPerJob
<1>1. IInv => OneThreadPerJob
  BY DEF IInv
<1> QED
  BY <1>1, Invariance, PTL

\* In the retry, at most one child of the run is alive (diff.cpp:281-286).
THEOREM RetriesAlone == Spec => []RetryAlone
<1>1. IInv => RetryAlone
  <2> SUFFICES ASSUME IInv, phase = "retry", NEW p \in Pids \ orphans,
                      NEW q \in Pids \ orphans, Alive(p), Alive(q)
               PROVE  p = q
    BY DEF RetryAlone
  <2>1. child[p].st # "free" /\ child[q].st # "free"
    BY DEF Alive, Stages
  <2>2. PICK t \in Threads : HasChild(t) /\ thread[t].pid = p
    BY <2>1 DEF IInv, ChildrenOwned
  <2>3. PICK u \in Threads : HasChild(u) /\ thread[u].pid = q
    BY <2>1 DEF IInv, ChildrenOwned
  <2>4. t = u
    BY <2>2, <2>3 DEF IInv, PoolInv, HasChild
  <2> QED
    BY <2>2, <2>3, <2>4
<1> QED
  BY <1>1, Invariance, PTL

\* With more than one worker the record "killed by signal twice" is true
\* (diff.cpp:240-249, 279-303).
THEOREM KilledMeansTwice == Spec => []KilledTwice
<1>1. IInv => KilledTwice
  BY DEF IInv
<1> QED
  BY <1>1, Invariance, PTL

\* All work done and nothing killed: no unrecorded job is left anywhere.
LEMMA AllAccounted ==
  ASSUME IInv, phase # "stopped", Joined, killed = <<>>
  PROVE  \A j \in Jobs : pairs[j] # "none" \/ j \in dropped
<1> SUFFICES ASSUME NEW j \in Jobs, pairs[j] = "none", j \notin dropped
             PROVE  FALSE
  OBVIOUS
<1>1. next > Len(queue)
  BY DEF IInv, PoolInv
<1>2. ~Held(j)
  BY JoinedIdle DEF Held
<1>3. ~Unclaimed(j)
  BY <1>1 DEF IInv, TypeOK, Unclaimed
<1>4. j \notin RangeOf(killed)
  BY DEF RangeOf
<1> QED
  BY <1>2, <1>3, <1>4 DEF IInv, AccountedInv

\* A complete stage has a record of every job it did not openly let go
\* (diff.cpp:178-307).
THEOREM NoJobLost == Spec => []EveryJobAccounted
<1>1. IInv => EveryJobAccounted
  BY AllAccounted DEF IInv, PoolInv, EveryJobAccounted
<1> QED
  BY <1>1, Invariance, PTL

\* A compared pair is recorded after both its header indexes were seen to
\* (diff.cpp:162-174).
THEOREM IndexesFirst == Spec => []IndexedBeforeRecorded
<1>1. IInv => IndexedBeforeRecorded
  BY DEF IInv
<1> QED
  BY <1>1, Invariance, PTL

(***************************************************************************)
(* What a run may do to results that were there before it.  The jobs it    *)
(* has in hand are jobs that had none when it started.                     *)
(***************************************************************************)
LEMMA QueueWithinTodoStep ==
  ASSUME IInv, QueueWithinTodo, [Next]_vars
  PROVE  QueueWithinTodo'
<1>1. CASE Start
  <2>1. PICK n \in 0 .. NumJobs : \E s \in [1 .. n -> Jobs] :
          InPlanOrder(s, Unrecorded) /\ BeginPass(s, Threads)
    BY <1>1 DEF Start
  <2>2. RangeOf(queue') = Unrecorded /\ todo' = Unrecorded
    BY <2>1, <1>1 DEF Start, InPlanOrder, BeginPass
  <2> QED
    BY <2>2 DEF QueueWithinTodo
<1>2. CASE Retry
  <2>1. queue' = killed /\ todo' = todo
    BY <1>2 DEF Retry, BeginPass
  <2>2. RangeOf(killed) \subseteq RangeOf(queue)
    BY DEF IInv, QueueInv, Claimed, RangeOf
  <2> QED
    BY <2>1, <2>2 DEF QueueWithinTodo
<1>3. CASE ParentDies
  BY <1>3 DEF ParentDies, QueueWithinTodo, RangeOf
<1>4. CASE UNCHANGED <<queue, todo>>
  BY <1>4 DEF QueueWithinTodo, RangeOf
<1>5. CASE Finish \/ GiveUp \/ Bury
  BY <1>4, <1>5 DEF Finish, GiveUp, Bury
<1>6. ASSUME NEW t \in Threads, ThreadStep(t)
      PROVE  QueueWithinTodo'
  BY <1>4, <1>6 DEF ThreadStep, Claim, Spawn, SpawnFails, PipesClosed, Deadline,
                    SettleOk, SettleKilled, SettleFailed, Reaps, KeepPasses
<1>7. CASE UNCHANGED parentVars \/ UNCHANGED vars
  BY <1>4, <1>7 DEF vars, parentVars
<1> QED
  BY <1>1, <1>2, <1>3, <1>5, <1>6, <1>7 DEF Next, Rest

\* A job in a thread's hands, or its live child's, had no result at the start.
LEMMA HeldInTodo ==
  ASSUME IInv, QueueWithinTodo
  PROVE  /\ \A t \in Threads : Holds(t) => thread[t].job \in todo
         /\ \A p \in Pids \ orphans : child[p].st # "free" => child[p].job \in todo
         /\ RangeOf(killed) \subseteq todo
<1>1. \A j : Claimed(j) => j \in todo
  BY DEF Claimed, QueueWithinTodo, RangeOf
<1>2. \A t \in Threads : Holds(t) => thread[t].job \in todo
  BY <1>1 DEF IInv, QueueInv
<1>3. \A t \in Threads : HasChild(t) => Holds(t)
  BY DEF HasChild, Holds
<1>4. ASSUME NEW p \in Pids \ orphans, child[p].st # "free"
      PROVE  child[p].job \in todo
  <2>1. PICK t \in Threads : HasChild(t) /\ thread[t].pid = p
    BY <1>4 DEF IInv, ChildrenOwned
  <2>2. child[p].job = thread[t].job
    BY <2>1 DEF IInv, WaitingInv
  <2> QED
    BY <2>1, <2>2, <1>2, <1>3
<1> QED
  BY <1>1, <1>2, <1>4 DEF IInv, QueueInv

\* What a step writes into the pair files: at most one of them, by a child
\* that saves, by a thread that settles a failure or by the closing loop.
LEMMA PairsStep ==
  ASSUME IInv, [Next]_vars
  PROVE  \/ pairs' = pairs
         \/ /\ UNCHANGED parentVars
            /\ \E p \in Pids : At(p, "save") /\ SavePair(p)
         \/ \E t \in Threads : SettleFailed(t)
         \/ Bury
<1>1. CASE Start \/ Finish \/ Retry \/ GiveUp \/ ParentDies
  BY <1>1 DEF Start, Finish, Retry, GiveUp, ParentDies, childVars, disk
<1>2. ASSUME NEW t \in Threads, ThreadStep(t), ~SettleFailed(t)
      PROVE  pairs' = pairs
  BY <1>2 DEF ThreadStep, Claim, Spawn, SpawnFails, PipesClosed, Deadline,
              SettleOk, SettleKilled, childVars, disk
<1>3. ASSUME NEW p \in Pids, ChildStep(p), ~SavePair(p)
      PROVE  pairs' = pairs
  BY <1>3 DEF ChildStep, OverBudget, Fetch, Fetched, Compare,
              CheckIndex, BuildIndex, BuildIndexFails, Teardown, Fails, Crash
<1>4. ASSUME NEW p \in Pids, SavePair(p)
      PROVE  At(p, "save")
  BY <1>4 DEF SavePair
<1>5. CASE UNCHANGED vars
  BY <1>5 DEF vars, childVars, disk
<1> QED
  BY <1>1, <1>2, <1>3, <1>4, <1>5 DEF Next, Rest

\* A run leaves the results it found alone; only a child an earlier parent
\* left behind may still replace one (diff.cpp:183-189, stages.hpp:6-8).
THEOREM ExistingKept == Spec => KeepsExisting
<1> DEFINE Keeps == \A j \in Jobs \ todo :
                      pairs'[j] # pairs[j] /\ phase # "stopped"
                        => \E p \in orphans : child[p].job = j /\ At(p, "save")
<1>1. Init => QueueWithinTodo
  BY DEF Init, QueueWithinTodo, RangeOf
<1>2. IInv /\ QueueWithinTodo /\ [Next]_vars => QueueWithinTodo'
  BY QueueWithinTodoStep
<1>3. IInv /\ QueueWithinTodo /\ [Next]_vars => Keeps
  <2> SUFFICES ASSUME IInv, QueueWithinTodo, [Next]_vars,
                      NEW j \in Jobs, j \notin todo, pairs'[j] # pairs[j]
               PROVE  \E p \in orphans : child[p].job = j /\ At(p, "save")
    OBVIOUS
  <2>0. pairs \in [Jobs -> PairFiles]
    BY DEF IInv, TypeOK, ChildTypeOK
  <2>1. ASSUME NEW p \in Pids, At(p, "save"), SavePair(p)
        PROVE  p \in orphans /\ child[p].job = j
    <3>1. child[p].job = j
      BY <2>0, <2>1 DEF SavePair
    <3>2. child[p].st # "free"
      BY <2>1 DEF At
    <3> QED
      BY <3>1, <3>2, HeldInTodo
  <2>2. ASSUME NEW t \in Threads, SettleFailed(t)
        PROVE  FALSE
    <3>1. Holds(t)
      BY <2>2 DEF SettleFailed, Holds
    <3>2. thread[t].job = j
      BY <2>0, <2>2 DEF SettleFailed, Record
    <3> QED
      BY <3>1, <3>2, HeldInTodo
  <2>3. CASE Bury
    <3>1. Head(killed) = j /\ killed # <<>>
      BY <2>0, <2>3 DEF Bury, Record
    <3>2. Head(killed) \in RangeOf(killed)
      BY <3>1, RangeOfTail DEF IInv, TypeOK
    <3> QED
      BY <3>1, <3>2, HeldInTodo
  <2> QED
    BY <2>1, <2>2, <2>3, PairsStep
<1>4. Keeps => [\A j \in Jobs \ todo :
                  pairs'[j] # pairs[j] /\ phase # "stopped"
                    => \E p \in orphans : child[p].job = j /\ At(p, "save")]_vars
  OBVIOUS
<1> QED
  BY <1>1, <1>2, <1>3, <1>4, Invariance, PTL DEF Spec, KeepsExisting

(***************************************************************************)
(* The diff stage implements JobLedger.                                    *)
(***************************************************************************)
LEMMA LedgerInit ==
  ASSUME Init
  PROVE  Ledger!Init
BY DEF Init, ChildInit, Ledger!Init

\* One job's record written, or given up, is an entry in the ledger.
LEMMA RecordLedger ==
  ASSUME IInv, NEW j \in Jobs, NEW what \in PairFiles \ {"none"}, Record(j, what),
         phase' = phase, phase \notin {"stopped", "complete"}
  PROVE  Ledger!Next
<1>0. pairs \in [Jobs -> PairFiles]
  BY DEF IInv, TypeOK, ChildTypeOK
<1>1. CASE pairs' = [pairs EXCEPT ![j] = what] /\ dropped' = dropped
  <2>1. {i \in Jobs : pairs'[i] # "none"} = {i \in Jobs : pairs[i] # "none"} \cup {j}
    BY <1>0, <1>1
  <2>2. Ledger!Enter(j)
    BY <2>1, <1>1 DEF Ledger!Enter
  <2> QED
    BY <2>2 DEF Ledger!Next
<1>2. CASE dropped' = dropped \cup {j} /\ pairs' = pairs
  <2>1. Ledger!Waive(j)
    BY <1>2 DEF Ledger!Waive
  <2> QED
    BY <2>1 DEF Ledger!Next
<1> QED
  BY <1>1, <1>2 DEF Record

LEMMA LedgerStep ==
  ASSUME IInv, [Next]_vars
  PROVE  [Ledger!Next]_(Ledger!vars)
<1>0. ASSUME phase' = phase, dropped' = dropped, pairs' = pairs
      PROVE  UNCHANGED Ledger!vars
  BY <1>0 DEF Ledger!vars
<1>1. CASE Start
  <2>1. /\ phase \in {"stopped", "complete"} /\ phase' = "pass" /\ dropped' = {}
        /\ pairs' = pairs
    BY <1>1 DEF Start, childVars, disk
  <2>2. Ledger!Open
    BY <2>1 DEF Ledger!Open
  <2> QED
    BY <2>2 DEF Ledger!Next
<1>2. CASE Finish
  <2>1. /\ phase \notin {"stopped", "complete"} /\ phase' = "complete"
        /\ dropped' = dropped /\ pairs' = pairs /\ Joined /\ killed = <<>>
    BY <1>2 DEF Finish, childVars, disk
  <2>3. \A j \in Jobs : pairs[j] # "none" \/ j \in dropped
    BY <2>1, AllAccounted
  <2>4. Ledger!Close
    BY <2>1, <2>3 DEF Ledger!Close
  <2> QED
    BY <2>4 DEF Ledger!Next
<1>3. CASE Retry \/ GiveUp
  <2>1. /\ phase \notin {"stopped", "complete"} /\ phase' \notin {"stopped", "complete"}
        /\ dropped' = dropped /\ pairs' = pairs
    BY <1>3 DEF Retry, GiveUp, childVars, disk
  <2> QED
    BY <2>1 DEF Ledger!vars
<1>4. CASE Bury
  <2>1. /\ phase = "bury" /\ phase' = phase /\ killed # <<>>
        /\ Record(Head(killed), "killed")
    BY <1>4 DEF Bury
  <2>2. Head(killed) \in Jobs
    BY <2>1, RangeOfTail DEF IInv, TypeOK
  <2>3. "killed" \in PairFiles \ {"none"}
    BY DEF PairFiles, FailureRecords
  <2> QED
    BY <2>1, <2>2, <2>3, RecordLedger
<1>5. CASE ParentDies
  <2>1. /\ phase \notin {"stopped", "complete"} /\ phase' = "stopped"
        /\ dropped' = dropped /\ pairs' = pairs
    BY <1>5 DEF ParentDies, disk
  <2>2. Ledger!Break
    BY <2>1 DEF Ledger!Break
  <2> QED
    BY <2>2 DEF Ledger!Next
<1>6. ASSUME NEW t \in Threads, SpawnFails(t)
      PROVE  Ledger!Next
  <2>1. /\ Holds(t) /\ phase' = phase /\ pairs' = pairs
        /\ dropped' = dropped \cup {thread[t].job}
    BY <1>6 DEF SpawnFails, Holds, KeepPasses, childVars, disk
  <2>2. thread[t].job \in Jobs /\ phase \notin {"stopped", "complete"}
    BY <2>1, HeldJob
  <2>3. Ledger!Waive(thread[t].job)
    BY <2>1, <2>2 DEF Ledger!Waive
  <2> QED
    BY <2>2, <2>3 DEF Ledger!Next
<1>7. ASSUME NEW t \in Threads, SettleFailed(t)
      PROVE  Ledger!Next
  <2> DEFINE what == IF thread[t].timedOut THEN "timeout" ELSE "exit"
  <2>1. Holds(t) /\ phase' = phase /\ Record(thread[t].job, what)
    BY <1>7 DEF SettleFailed, Holds, Reaps, KeepPasses
  <2>2. thread[t].job \in Jobs /\ phase \notin {"stopped", "complete"}
    BY <2>1, HeldJob
  <2>3. what \in PairFiles \ {"none"}
    BY DEF PairFiles, FailureRecords
  <2> HIDE DEF what
  <2> QED
    BY <2>1, <2>2, <2>3, RecordLedger
<1>8. ASSUME NEW t \in Threads, ThreadStep(t), ~SpawnFails(t), ~SettleFailed(t)
      PROVE  UNCHANGED Ledger!vars
  <2>1. phase' = phase /\ dropped' = dropped /\ pairs' = pairs
    BY <1>8 DEF ThreadStep, Claim, Spawn, PipesClosed, Deadline, SettleOk, SettleKilled,
                Reaps, KeepPasses, childVars, disk
  <2> QED
    BY <2>1, <1>0
<1>9. ASSUME NEW p \in Pids, ChildStep(p), UNCHANGED parentVars
      PROVE  [Ledger!Next]_(Ledger!vars)
  <2>1. phase' = phase /\ dropped' = dropped
    BY <1>9 DEF parentVars
  <2>2. CASE pairs' = pairs
    BY <2>1, <2>2, <1>0
  <2>3. CASE SavePair(p)
    <3>1. /\ pairs \in [Jobs -> PairFiles] /\ child[p].out \in ChildResults
          /\ child[p].job \in Jobs
      BY <2>3 DEF IInv, TypeOK, ChildTypeOK, ChildInv, SavePair, At
    <3>2. pairs' = [pairs EXCEPT ![child[p].job] = child[p].out]
      BY <2>3 DEF SavePair
    <3>3. PICK j \in Jobs : j = child[p].job
      BY <3>1
    <3>4. {i \in Jobs : pairs'[i] # "none"} = {i \in Jobs : pairs[i] # "none"} \cup {j}
      BY <3>1, <3>2, <3>3 DEF ChildResults
    <3>5. Ledger!Enter(j)
      BY <3>4, <2>1 DEF Ledger!Enter
    <3> QED
      BY <3>5 DEF Ledger!Next
  <2> QED
    BY <2>2, <2>3, <1>9
    DEF ChildStep, OverBudget, Fetch, Fetched, Compare,
        CheckIndex, BuildIndex, BuildIndexFails, Teardown, Fails, Crash
<1>10. CASE UNCHANGED vars
  BY <1>0, <1>10 DEF vars, parentVars, childVars, disk
<1> QED
  BY <1>1, <1>2, <1>3, <1>4, <1>5, <1>6, <1>7, <1>8, <1>9, <1>10 DEF Next, Rest

\* The diff stage implements its abstract specification: records only grow,
\* through any number of interrupted runs, and completion is reported over a
\* full ledger only (stages.hpp:6-8, diff.cpp:178-307).
THEOREM DiffImplementsLedger == Spec => ImplementsLedger
<1>1. Init => Ledger!Init
  BY LedgerInit
<1>2. IInv /\ [Next]_vars => [Ledger!Next]_(Ledger!vars)
  BY LedgerStep
<1> QED
  BY <1>1, <1>2, Invariance, PTL DEF Spec, ImplementsLedger, Ledger!Spec
(***************************************************************************)
(* Scratch directories that stay behind, in the first run of a directory.  *)
(***************************************************************************)

\* What a step of a child that has a parent does to scratch and records.
ScratchEffect(p) ==
  /\ Alive(p) /\ orphans' = orphans
  /\ \A q \in Pids : q # p => child'[q] = child[q]
  /\ child'[p].job = child[p].job
  /\ \A j \in Jobs : j # child[p].job => pairs'[j] = pairs[j]
  /\ \A j \in Jobs : <<j, "abandoned">> \in leaked' => <<j, "abandoned">> \in leaked \/ (j = child[p].job /\ child'[p].st = "signalled")

LEMMA BecomesScratch ==
  ASSUME ChildTypeOK, NEW p \in Pids, Alive(p), pairs' = pairs,
         NEW st, NEW out, NEW dirs, Becomes(p, st, out, dirs)
  PROVE  ScratchEffect(p)
<1>1. /\ child' = [child EXCEPT ![p] = [@ EXCEPT !.st = st, !.out = out, !.dirs = dirs]]
      /\ orphans' = orphans /\ leaked' = leaked
  BY DEF Becomes
<1>2. child \in [Pids -> Child]
  BY DEF ChildTypeOK
<1>3. child'[p] = [child[p] EXCEPT !.st = st, !.out = out, !.dirs = dirs]
  BY <1>1, <1>2
<1>4. child'[p].job = child[p].job
  BY <1>2, <1>3 DEF Child
<1> QED
  BY <1>1, <1>2, <1>4 DEF ScratchEffect

LEMMA EndsScratch ==
  ASSUME ChildTypeOK, NEW p \in Pids, Alive(p), p \notin orphans, pairs' = pairs,
         NEW how, Ends(p, how),
         \/ leaked' = leaked \/ LeavesScratch(p, "unremoved")
         \/ how = "signalled" /\ LeavesScratch(p, "abandoned")
  PROVE  ScratchEffect(p)
<1>1. child' = [child EXCEPT ![p] = [@ EXCEPT !.st = how, !.dirs = 0]] /\ orphans' = orphans
  BY DEF Ends
<1>2. child \in [Pids -> Child]
  BY DEF ChildTypeOK
<1>3. child'[p] = [child[p] EXCEPT !.st = how, !.dirs = 0]
  BY <1>1, <1>2
<1>4. child'[p].job = child[p].job /\ child'[p].st = how
  BY <1>2, <1>3 DEF Child
<1>5. ASSUME NEW j \in Jobs, <<j, "abandoned">> \in leaked', <<j, "abandoned">> \notin leaked
      PROVE  j = child[p].job /\ how = "signalled"
  BY <1>5 DEF LeavesScratch
<1> QED
  BY <1>1, <1>2, <1>4, <1>5 DEF ScratchEffect

LEMMA DiesScratch ==
  ASSUME ChildTypeOK, NEW p \in Pids, Alive(p), p \notin orphans, pairs' = pairs, Dies(p)
  PROVE  ScratchEffect(p)
<1>1. Ends(p, "signalled") /\ LeavesScratch(p, "abandoned")
  BY DEF Dies
<1> QED
  BY <1>1, EndsScratch

LEMMA ChildScratch ==
  ASSUME ChildTypeOK, NEW p \in Pids, p \notin orphans, ChildStep(p)
  PROVE  ScratchEffect(p)
<1>1. ASSUME Alive(p), pairs' = pairs, NEW st, NEW out, NEW dirs, Becomes(p, st, out, dirs)
      PROVE  ScratchEffect(p)
  BY <1>1, BecomesScratch
<1>2. ASSUME Alive(p), pairs' = pairs, NEW st, NEW out, LogsThen(p, st, out)
      PROVE  ScratchEffect(p)
  BY <1>1, <1>2 DEF LogsThen
<1>3. ASSUME Alive(p), pairs' = pairs, NEW how, Exits(p, how) PROVE ScratchEffect(p)
  BY <1>3, EndsScratch DEF Exits
<1>4. \A st \in Stages : At(p, st) => Alive(p)
  BY DEF At, Alive
<1>5. CASE OverBudget(p)
  BY <1>1, <1>4, <1>5 DEF OverBudget, Stages
<1>6. CASE Fetch(p)
  BY <1>1, <1>4, <1>6 DEF Fetch, Stages
<1>7. CASE Fetched(p)
  BY <1>1, <1>2, <1>4, <1>7 DEF Fetched, Stages
<1>8. CASE Compare(p)
  <2>1. Alive(p) /\ pairs' = pairs
    BY <1>4, <1>8 DEF Compare, Stages
  <2>2. \/ Becomes(p, "index1", "ok", 2)
        \/ \E out \in {"ok", "uncompared"} : LogsThen(p, "index1", out)
    BY <1>8 DEF Compare, IndexHeaders
  <2> QED
    BY <2>1, <2>2, <1>1, <1>2
<1>9. ASSUME NEW s \in {1, 2}, CheckIndex(p, s) PROVE ScratchEffect(p)
  <2>1. Alive(p) /\ pairs' = pairs
    BY <1>4, <1>9 DEF CheckIndex, Stages, IndexSt
  <2>2. \E st \in {AfterIndex(s), BuildSt(s)} : Becomes(p, st, Fresh(p), 2)
    BY <1>9 DEF CheckIndex
  <2> QED
    BY <2>1, <2>2, <1>1
<1>10. ASSUME NEW s \in {1, 2}, BuildIndex(p, s) PROVE ScratchEffect(p)
  <2>1. Alive(p) /\ pairs' = pairs /\ Becomes(p, AfterIndex(s), Fresh(p), 2)
    BY <1>4, <1>10 DEF BuildIndex, Stages, BuildSt
  <2> QED
    BY <2>1, <1>1
<1>11. ASSUME NEW s \in {1, 2}, BuildIndexFails(p, s) PROVE ScratchEffect(p)
  <2>1. Alive(p) /\ pairs' = pairs /\ LogsThen(p, AfterIndex(s), Fresh(p))
    BY <1>4, <1>11 DEF BuildIndexFails, Stages, BuildSt
  <2> QED
    BY <2>1, <1>2
<1>12. CASE SavePair(p)
  <2> DEFINE out == child[p].out
             dirs == child[p].dirs
  <2>1. /\ Alive(p) /\ pairs' = [pairs EXCEPT ![child[p].job] = out]
        /\ Becomes(p, "teardown", out, dirs)
    BY <1>4, <1>12 DEF SavePair, Stages, Fresh
  <2>2. /\ child' = [child EXCEPT ![p] = [@ EXCEPT !.st = "teardown", !.out = out, !.dirs = dirs]]
        /\ orphans' = orphans /\ leaked' = leaked
    BY <2>1 DEF Becomes
  <2>3. child \in [Pids -> Child] /\ pairs \in [Jobs -> PairFiles]
    BY DEF ChildTypeOK
  <2>4. child'[p].job = child[p].job
    <3>1. child'[p] = [child[p] EXCEPT !.st = "teardown", !.out = out, !.dirs = dirs]
      BY <2>2, <2>3
    <3> HIDE DEF out, dirs
    <3> QED
      BY <3>1, <2>3 DEF Child
  <2>5. \A j \in Jobs : j # child[p].job => pairs'[j] = pairs[j]
    BY <2>1, <2>3
  <2> QED
    BY <2>1, <2>2, <2>3, <2>4, <2>5 DEF ScratchEffect
<1>13. CASE Teardown(p)
  BY <1>3, <1>4, <1>13 DEF Teardown, Stages
<1>14. CASE Fails(p)
  BY <1>3, <1>14 DEF Fails
<1>15. CASE Crash(p)
  BY <1>15, DiesScratch DEF Crash
<1> QED
  BY <1>5, <1>6, <1>7, <1>8, <1>9, <1>10, <1>11, <1>12, <1>13, <1>14, <1>15 DEF ChildStep

\* The parts of LeakInv.
SettledGone == \A t \in Threads : thread[t].pc = "settle" => child[thread[t].pid].st \in Zombie
KilledDied == \A j \in RangeOf(killed) : deaths[j] > 0
Untouched == runs = 0 => phase = "stopped" /\ orphans = {} /\ leaked = {}
Accounted(j) ==
  \/ Dying(j)
  \/ deaths[j] > 0
  \/ PastHands(j) /\ (pairs[j] = "timeout" \/ j \in dropped)
FirstRun == runs = 1 /\ phase # "stopped"
LeakedAccounted ==
  FirstRun => orphans = {} /\ \A j \in Jobs : <<j, "abandoned">> \in leaked => Accounted(j)

LEMMA LeakInvParts ==
  ASSUME IInv
  PROVE  LeakInv <=> SettledGone /\ KilledDied /\ Untouched /\ LeakedAccounted
BY DEF LeakInv, SettledGone, KilledDied, Untouched, Accounted, FirstRun, LeakedAccounted,
       IInv, TypeOK, ChildTypeOK

LEMMA LeakInvNext ==
  ASSUME leaked' \subseteq Leaks, SettledGone', KilledDied', Untouched', LeakedAccounted'
  PROVE  LeakInv'
BY DEF LeakInv, SettledGone, KilledDied, Untouched, Accounted, FirstRun, LeakedAccounted

\* A job in hand has been claimed, once.
LEMMA HeldNotPast ==
  ASSUME IInv, NEW t \in Threads, Holds(t)
  PROVE  ~PastHands(thread[t].job) /\ ~Unclaimed(thread[t].job)
<1>1. PICK k \in DOMAIN queue : k < next /\ queue[k] = thread[t].job
  BY DEF IInv, QueueInv, Claimed
<1>2. Distinct(queue) /\ queue \in Seq(Jobs) /\ next \in Nat
  BY DEF IInv, QueueInv, TypeOK
<1>3. ASSUME NEW m \in DOMAIN queue, m >= next, queue[m] = thread[t].job PROVE FALSE
  <2>1. m = k
    BY <1>1, <1>2, <1>3 DEF Distinct
  <2>2. m \in Nat
    BY <1>2
  <2> QED
    BY <2>1, <2>2, <1>1, <1>2, <1>3
<1> QED
  BY <1>3 DEF PastHands, Unclaimed, Held

LEMMA ChildStepLeaks ==
  ASSUME IInv, LeakInv, NEW p \in Pids, ChildStep(p), parentVars' = parentVars
  PROVE  LeakInv'
<1>0. /\ SettledGone /\ KilledDied /\ Untouched /\ LeakedAccounted /\ ChildTypeOK /\ TypeOK
      /\ CommittedInv /\ ChildInv
  BY LeakInvParts DEF IInv, TypeOK
<1>1. /\ phase' = phase /\ queue' = queue /\ next' = next /\ killed' = killed /\ thread' = thread
      /\ runs' = runs /\ deaths' = deaths /\ dropped' = dropped
  BY DEF parentVars
<1>2. /\ Alive(p) /\ leaked' \subseteq Leaks
      /\ \A q \in Pids : q # p => child'[q] = child[q]
  BY <1>0, ChildStepEffect, OthersStay DEF ChildEffect
<1>3. child[p].st \notin Zombie /\ child[p].st # "signalled" /\ child[p].st # "free"
  BY <1>2 DEF Alive, Stages, Zombie
<1>4. SettledGone'
  <2> SUFFICES ASSUME NEW t \in Threads, thread[t].pc = "settle" PROVE child'[thread[t].pid].st \in Zombie
    BY <1>1 DEF SettledGone
  <2>1. thread[t].pid \in Pids /\ child[thread[t].pid].st \in Zombie
    BY <1>0 DEF SettledGone, IInv, WaitingInv, HasChild
  <2> QED
    BY <2>1, <1>2, <1>3
<1>5. KilledDied'
  BY <1>0, <1>1 DEF KilledDied, RangeOf
<1>6. Untouched'
  <2> SUFFICES ASSUME runs = 0 PROVE FALSE
    BY <1>1 DEF Untouched
  <2>1. Joined /\ p \notin orphans
    BY <1>0 DEF Untouched, IInv, PoolInv
  <2> QED
    BY <2>1, <1>3, JoinedIdle
<1>7. LeakedAccounted'
  <2> SUFFICES ASSUME FirstRun PROVE orphans' = {} /\ \A j \in Jobs : <<j, "abandoned">> \in leaked' => Accounted(j)'
    BY <1>1 DEF LeakedAccounted, FirstRun
  <2>1. p \notin orphans /\ orphans = {}
    BY <1>0 DEF LeakedAccounted
  <2>2. ScratchEffect(p)
    BY <2>1, <1>0, ChildScratch
  <2>3. PICK t \in Threads : HasChild(t) /\ thread[t].pid = p
    BY <2>1, <1>3 DEF IInv, ChildrenOwned
  <2>4. child[p].job = thread[t].job /\ Holds(t)
    BY <2>3 DEF IInv, WaitingInv, HasChild, Holds
  <2>5. \A j : Dying(j) => Dying(j)'
    <3> SUFFICES ASSUME NEW j, NEW u \in Threads, HasChild(u), thread[u].job = j,
                        \/ child[thread[u].pid].st = "signalled"
                        \/ thread[u].pc = "settle" /\ thread[u].timedOut
        PROVE  Dying(j)'
      BY DEF Dying
    <3>1. thread[u].pid \in Pids
      BY DEF IInv, WaitingInv
    <3>2. thread[u].pid # p
      BY <1>0, <1>3 DEF SettledGone
    <3> QED
      BY <3>1, <3>2, <1>1, <1>2 DEF Dying, HasChild
  <2>6. \A j : PastHands(j)' <=> PastHands(j)
    BY <1>1 DEF PastHands, Unclaimed, Held, Holds
  <2>7. ASSUME NEW j \in Jobs, <<j, "abandoned">> \in leaked' PROVE Accounted(j)'
    <3>1. CASE <<j, "abandoned">> \in leaked
      <4>1. Accounted(j) /\ j \in Jobs
        BY <3>1, <1>0 DEF LeakedAccounted, ChildTypeOK
      <4>2. PastHands(j) => j # child[p].job
        BY <2>4, HeldNotPast
      <4>3. PastHands(j) => pairs'[j] = pairs[j]
        BY <4>1, <4>2, <2>2 DEF ScratchEffect
      <4> QED
        BY <4>1, <4>3, <2>5, <2>6, <1>1 DEF Accounted
    <3>2. CASE j = child[p].job /\ child'[p].st = "signalled"
      <4>1. Dying(j)'
        BY <3>2, <2>3, <2>4, <1>1 DEF Dying, HasChild
      <4> QED
        BY <4>1 DEF Accounted
    <3> QED
      BY <3>1, <3>2, <2>2, <2>7 DEF ScratchEffect
  <2>8. orphans' = {}
    BY <2>1, <2>2 DEF ScratchEffect
  <2> QED
    BY <2>7, <2>8
<1> QED
  BY <1>2, <1>4, <1>5, <1>6, <1>7, LeakInvNext

\* What a step of thread t has to keep to, for the scratch to stay accounted for.
DyingBy(t, j) ==
  /\ HasChild(t) /\ thread[t].job = j
  /\ \/ child[thread[t].pid].st = "signalled"
     \/ thread[t].pc = "settle" /\ thread[t].timedOut

LEMMA ThreadLeaks ==
  ASSUME IInv, LeakInv, NEW t \in Threads, thread[t].pc # "done",
         NEW th, OnlyThread(t, th),
         phase' = phase, queue' = queue, runs' = runs, orphans' = orphans,
         next' \in Nat, next' >= next, dropped \subseteq dropped',
         \A u \in Threads : u # t /\ HasChild(u)
           => child'[thread[u].pid].st = child[thread[u].pid].st,
         th.pc = "settle" => child'[th.pid].st \in Zombie,
         Holds(t)' => (Holds(t) /\ th.job = thread[t].job) \/ Unclaimed(th.job),
         \A j \in RangeOf(killed') : deaths'[j] > 0,
         \A j \in Jobs : deaths[j] > 0 => deaths'[j] > 0,
         \A j \in Jobs : PastHands(j) => pairs'[j] = pairs[j],
         leaked' \subseteq Leaks,
         \A j \in Jobs : <<j, "abandoned">> \in leaked' => <<j, "abandoned">> \in leaked \/ Dying(j)',
         \A j \in Jobs : DyingBy(t, j) => Accounted(j)'
  PROVE  LeakInv'
<1>0. /\ SettledGone /\ KilledDied /\ Untouched /\ LeakedAccounted
      /\ next \in Nat /\ queue \in Seq(Jobs) /\ leaked \subseteq Leaks
  BY LeakInvParts DEF IInv, TypeOK, ChildTypeOK
<1>1. \A u \in Threads : u # t => thread'[u] = thread[u] /\ (HasChild(u)' <=> HasChild(u))
                                  /\ (Holds(u)' <=> Holds(u))
  BY OtherThread
<1>2. thread'[t] = th
  BY DEF OnlyThread
<1>3. SettledGone'
  <2> SUFFICES ASSUME NEW u \in Threads, thread'[u].pc = "settle"
               PROVE  child'[thread'[u].pid].st \in Zombie
    BY DEF SettledGone
  <2>1. CASE u = t
    BY <2>1, <1>2
  <2>2. CASE u # t
    BY <2>2, <1>0, <1>1 DEF SettledGone, HasChild
  <2> QED
    BY <2>1, <2>2
<1>4. KilledDied'
  BY DEF KilledDied, RangeOf
<1>5. Untouched'
  <2>1. ~Joined
    BY DEF Joined
  <2> QED
    BY <2>1, <1>0 DEF Untouched, IInv, PoolInv
<1>6. LeakedAccounted'
  <2> SUFFICES ASSUME FirstRun, NEW j \in Jobs, <<j, "abandoned">> \in leaked' PROVE Accounted(j)'
    BY <1>0 DEF LeakedAccounted, FirstRun
  <2>1. CASE Dying(j)'
    BY <2>1 DEF Accounted
  <2>2. CASE <<j, "abandoned">> \in leaked
    <3>1. j \in Jobs /\ Accounted(j)
      BY <2>2, <1>0 DEF LeakedAccounted
    <3>2. CASE deaths[j] > 0
      BY <3>1, <3>2 DEF Accounted
    <3>3. CASE Dying(j)
      <4>1. PICK u \in Threads : DyingBy(u, j)
        BY <3>3 DEF Dying, DyingBy
      <4>2. CASE u = t
        BY <4>1, <4>2, <3>1
      <4>3. CASE u # t
        <5>1. thread'[u] = thread[u] /\ HasChild(u)' /\ HasChild(u)
          BY <4>1, <4>3, <1>1 DEF DyingBy
        <5>2. child'[thread[u].pid].st = child[thread[u].pid].st
          BY <5>1, <4>3
        <5>3. Dying(j)'
          BY <4>1, <5>1, <5>2 DEF DyingBy, Dying
        <5> QED
          BY <5>3 DEF Accounted
      <4> QED
        BY <4>2, <4>3
    <3>4. CASE PastHands(j) /\ (pairs[j] = "timeout" \/ j \in dropped)
      <4>1. ~Unclaimed(j)'
        BY <3>4, <1>0 DEF PastHands, Unclaimed
      <4>2. ~Held(j)'
        <5> SUFFICES ASSUME NEW u \in Threads, Holds(u)', thread'[u].job = j PROVE FALSE
          BY DEF Held
        <5>1. CASE u = t
          BY <5>1, <3>4, <1>2 DEF PastHands, Held
        <5>2. CASE u # t
          BY <5>2, <3>4, <1>1 DEF PastHands, Held
        <5> QED
          BY <5>1, <5>2
      <4> QED
        BY <4>1, <4>2, <3>1, <3>4 DEF Accounted, PastHands
    <3> QED
      BY <3>1, <3>2, <3>3, <3>4 DEF Accounted
  <2> QED
    BY <2>1, <2>2
<1> QED
  BY <1>3, <1>4, <1>5, <1>6, LeakInvNext

LEMMA ClaimLeaks ==
  ASSUME IInv, LeakInv, NEW t \in Threads, Claim(t)
  PROVE  LeakInv'
<1>1. /\ thread[t].pc = "claim" /\ next' = next + 1
      /\ phase' = phase /\ queue' = queue /\ runs' = runs /\ killed' = killed
      /\ deaths' = deaths /\ dropped' = dropped /\ child' = child /\ orphans' = orphans
      /\ leaked' = leaked /\ pairs' = pairs
  BY DEF Claim, KeepPasses, childVars, disk
<1>2. TypeOK /\ next \in Nat \ {0} /\ queue \in Seq(Jobs) /\ Idle \in Thread /\ Idle.pc = "done"
      /\ thread[t] \in Thread
  BY ThreadType DEF IInv, TypeOK
<1>3. PICK th \in Thread :
        /\ Set(t, th)
        /\ th.pc # "settle"
        /\ th.pc # "done" => Unclaimed(th.job)
  <2>1. CASE next > Len(queue)
    BY <2>1, <1>2 DEF Claim
  <2>2. CASE ~(next > Len(queue))
    <3> DEFINE th == [thread[t] EXCEPT !.pc = "spawn", !.job = queue[next]]
    <3>1. next \in DOMAIN queue /\ queue[next] \in Jobs
      BY <2>2, <1>2
    <3>2. queue[next] \in 0 .. NumJobs
      BY <3>1, PlanAssumption DEF Jobs
    <3>3. th \in Thread /\ th.pc = "spawn" /\ th.job = queue[next]
      BY <3>2, <1>2 DEF Thread, ThreadPcs
    <3>4. Set(t, th)
      BY <2>2 DEF Claim
    <3>5. Unclaimed(queue[next])
      BY <3>1, <1>2 DEF Unclaimed
    <3> HIDE DEF th
    <3> QED
      BY <3>3, <3>4, <3>5
  <2> QED
    BY <2>1, <2>2
<1>4. OnlyThread(t, th) /\ thread'[t] = th
  BY <1>2, <1>3, SetOnly DEF OnlyThread
<1>5. Holds(t)' => Unclaimed(th.job)
  BY <1>3, <1>4 DEF Holds
<1>6. \A j \in Jobs : ~DyingBy(t, j)
  BY <1>1 DEF DyingBy, HasChild
<1>7. KilledDied
  BY LeakInvParts
<1>8. \A j \in RangeOf(killed') : deaths'[j] > 0
  BY <1>1, <1>7 DEF KilledDied
<1>9. next' \in Nat /\ next' >= next
  BY <1>1, <1>2
<1>10. leaked' \subseteq Leaks /\ \A j \in Jobs : <<j, "abandoned">> \in leaked' => <<j, "abandoned">> \in leaked
  BY <1>1, <1>2 DEF TypeOK, ChildTypeOK
<1> QED
  BY <1>1, <1>3, <1>4, <1>5, <1>6, <1>8, <1>9, <1>10, ThreadLeaks

LEMMA SpawnLeaks ==
  ASSUME IInv, LeakInv, NEW t \in Threads, Spawn(t)
  PROVE  LeakInv'
<1>1. /\ thread[t].pc = "spawn" /\ next' = next
      /\ phase' = phase /\ queue' = queue /\ runs' = runs /\ killed' = killed
      /\ deaths' = deaths /\ dropped' = dropped /\ orphans' = orphans
      /\ leaked' = leaked /\ pairs' = pairs
  BY DEF Spawn, KeepPasses, disk
<1>2. PICK p \in Pids :
       /\ child[p].st = "free"
       /\ child' = [child EXCEPT ![p] = Spawned(thread[t].job)]
       /\ Set(t, [thread[t] EXCEPT !.pc = "wait", !.pid = p])
  BY DEF Spawn
<1> DEFINE th == [thread[t] EXCEPT !.pc = "wait", !.pid = p]
<1>3. TypeOK /\ next \in Nat /\ thread[t] \in Thread /\ child \in [Pids -> Child]
  BY ThreadType DEF IInv, TypeOK, ChildTypeOK
<1>4. th \in Thread /\ th.pc = "wait" /\ th.job = thread[t].job
  BY <1>3 DEF Thread, ThreadPcs
<1>5. OnlyThread(t, th)
  BY <1>2, <1>3, <1>4, SetOnly
<1> HIDE DEF th
<1>6. \A u \in Threads : u # t /\ HasChild(u) => child'[thread[u].pid].st = child[thread[u].pid].st
  BY <1>2, <1>3 DEF IInv, WaitingInv
<1>7. Holds(t) /\ \A j \in Jobs : ~DyingBy(t, j)
  BY <1>1 DEF DyingBy, HasChild, Holds
<1>8. \A j \in RangeOf(killed') : deaths'[j] > 0
  BY <1>1, LeakInvParts DEF KilledDied
<1>9. next' \in Nat /\ next' >= next /\ leaked' \subseteq Leaks
      /\ \A j \in Jobs : <<j, "abandoned">> \in leaked' => <<j, "abandoned">> \in leaked
  BY <1>1, <1>3 DEF TypeOK, ChildTypeOK
<1> QED
  BY <1>1, <1>4, <1>5, <1>6, <1>7, <1>8, <1>9, ThreadLeaks

LEMMA SpawnFailsLeaks ==
  ASSUME IInv, LeakInv, NEW t \in Threads, SpawnFails(t)
  PROVE  LeakInv'
<1>1. /\ thread[t].pc = "spawn" /\ next' = next /\ dropped' = dropped \cup {thread[t].job}
      /\ phase' = phase /\ queue' = queue /\ runs' = runs /\ killed' = killed
      /\ deaths' = deaths /\ child' = child /\ orphans' = orphans
      /\ leaked' = leaked /\ pairs' = pairs
  BY DEF SpawnFails, KeepPasses, childVars, disk
<1>2. TypeOK /\ next \in Nat /\ Claiming \in Thread /\ Claiming.pc = "claim"
  BY ThreadType DEF IInv, TypeOK
<1>3. OnlyThread(t, Claiming)
  BY <1>2, SetOnly DEF SpawnFails
<1>4. ~Holds(t)' /\ \A j \in Jobs : ~DyingBy(t, j)
  BY <1>1, <1>2, <1>3 DEF DyingBy, HasChild, Holds, OnlyThread
<1>5. \A j \in RangeOf(killed') : deaths'[j] > 0
  BY <1>1, LeakInvParts DEF KilledDied
<1>6. next' \in Nat /\ next' >= next /\ leaked' \subseteq Leaks
      /\ \A j \in Jobs : <<j, "abandoned">> \in leaked' => <<j, "abandoned">> \in leaked
  BY <1>1, <1>2 DEF TypeOK, ChildTypeOK
<1> QED
  BY <1>1, <1>2, <1>3, <1>4, <1>5, <1>6, ThreadLeaks

LEMMA PipesClosedLeaks ==
  ASSUME IInv, LeakInv, NEW t \in Threads, PipesClosed(t)
  PROVE  LeakInv'
<1>1. /\ thread[t].pc = "wait" /\ next' = next /\ child[thread[t].pid].st \in Zombie
      /\ Set(t, [thread[t] EXCEPT !.pc = "settle"])
      /\ phase' = phase /\ queue' = queue /\ runs' = runs /\ killed' = killed
      /\ deaths' = deaths /\ dropped' = dropped /\ child' = child /\ orphans' = orphans
      /\ leaked' = leaked /\ pairs' = pairs
  BY DEF PipesClosed, KeepPasses, childVars, disk
<1> DEFINE th == [thread[t] EXCEPT !.pc = "settle"]
<1>2. TypeOK /\ next \in Nat /\ thread[t] \in Thread
  BY ThreadType DEF IInv, TypeOK
<1>3. /\ th \in Thread /\ th.pc = "settle" /\ th.job = thread[t].job /\ th.pid = thread[t].pid
      /\ th.timedOut = thread[t].timedOut
  BY <1>2 DEF Thread, ThreadPcs
<1>4. OnlyThread(t, th)
  BY <1>1, <1>2, <1>3, SetOnly
<1> HIDE DEF th
<1>5. thread'[t] = th /\ HasChild(t)' /\ Holds(t)
  BY <1>1, <1>3, <1>4 DEF OnlyThread, HasChild, Holds
<1>6. ASSUME NEW j \in Jobs, DyingBy(t, j) PROVE Accounted(j)'
  <2>1. Dying(j)'
    BY <1>1, <1>3, <1>5, <1>6 DEF Dying, DyingBy
  <2> QED
    BY <2>1 DEF Accounted
<1>7. \A j \in RangeOf(killed') : deaths'[j] > 0
  BY <1>1, LeakInvParts DEF KilledDied
<1>8. next' \in Nat /\ next' >= next /\ leaked' \subseteq Leaks
      /\ \A j \in Jobs : <<j, "abandoned">> \in leaked' => <<j, "abandoned">> \in leaked
  BY <1>1, <1>2 DEF TypeOK, ChildTypeOK
<1> QED
  BY <1>1, <1>3, <1>4, <1>5, <1>6, <1>7, <1>8, ThreadLeaks

LEMMA DeadlineLeaks ==
  ASSUME IInv, LeakInv, NEW t \in Threads, Deadline(t)
  PROVE  LeakInv'
<1>1. /\ thread[t].pc = "wait" /\ next' = next
      /\ Set(t, [thread[t] EXCEPT !.pc = "settle", !.timedOut = TRUE])
      /\ phase' = phase /\ queue' = queue /\ runs' = runs /\ killed' = killed
      /\ deaths' = deaths /\ dropped' = dropped /\ pairs' = pairs
  BY DEF Deadline, KeepPasses
<1> DEFINE th == [thread[t] EXCEPT !.pc = "settle", !.timedOut = TRUE]
           p == thread[t].pid
<1>2. TypeOK /\ next \in Nat /\ thread[t] \in Thread /\ ChildTypeOK
  BY ThreadType DEF IInv, TypeOK
<1>3. /\ th \in Thread /\ th.pc = "settle" /\ th.job = thread[t].job /\ th.pid = p
      /\ th.timedOut
  BY <1>2 DEF Thread, ThreadPcs
<1>4. OnlyThread(t, th)
  BY <1>1, <1>2, <1>3, SetOnly
<1> HIDE DEF th
<1>5. thread'[t] = th /\ HasChild(t) /\ HasChild(t)' /\ Holds(t)
  BY <1>1, <1>3, <1>4 DEF OnlyThread, HasChild, Holds
<1>6. p \in Pids /\ p \notin orphans /\ child[p].job = thread[t].job /\ child[p].st # "free"
  BY <1>5 DEF IInv, WaitingInv
<1>7. /\ orphans' = orphans /\ child'[p].st \in Zombie
      /\ \A q \in Pids : q # p => child'[q] = child[q]
      /\ leaked' \subseteq Leaks
      /\ \A j \in Jobs : <<j, "abandoned">> \in leaked' => <<j, "abandoned">> \in leaked \/ j = thread[t].job
  <2>1. CASE Alive(p)
    <3>1. Dies(p)
      BY <2>1 DEF Deadline
    <3>2. ScratchEffect(p) /\ leaked' \subseteq Leaks
      BY <1>1, <1>2, <1>6, <2>1, <3>1, DiesScratch, DiesVisible
    <3>3. child'[p].st = "signalled"
      <4>1. child' = [child EXCEPT ![p] = [@ EXCEPT !.st = "signalled", !.dirs = 0]]
        BY <3>1, <1>6 DEF Dies, Ends
      <4>2. child'[p] = [child[p] EXCEPT !.st = "signalled", !.dirs = 0]
        BY <4>1, <1>2, <1>6 DEF ChildTypeOK
      <4> QED
        BY <4>2, <1>2, <1>6 DEF ChildTypeOK, Child
    <3> QED
      BY <3>2, <3>3, <1>6 DEF ScratchEffect, Zombie
  <2>2. CASE ~Alive(p)
    <3>1. child' = child /\ orphans' = orphans /\ leaked' = leaked
      BY <2>2 DEF Deadline
    <3>2. child[p].st \in Zombie
      BY <2>2, <1>2, <1>6 DEF Alive, ChildTypeOK, Child
    <3> QED
      BY <3>1, <3>2, <1>2 DEF ChildTypeOK
  <2> QED
    BY <2>1, <2>2
<1> HIDE DEF p
<1>8. \A u \in Threads : u # t /\ HasChild(u) => child'[thread[u].pid].st = child[thread[u].pid].st
  <2> SUFFICES ASSUME NEW u \in Threads, u # t, HasChild(u)
               PROVE  thread[u].pid \in Pids /\ thread[u].pid # p
    BY <1>7
  <2> QED
    BY <1>5 DEF IInv, WaitingInv, OwnersDistinct, p
<1>9. ASSUME NEW j \in Jobs, j = thread[t].job PROVE Dying(j)'
  BY <1>3, <1>5, <1>9 DEF Dying
<1>10. ASSUME NEW j \in Jobs, DyingBy(t, j) PROVE Accounted(j)'
  BY <1>9, <1>10 DEF Accounted, DyingBy
<1>11. \A j \in RangeOf(killed') : deaths'[j] > 0
  BY <1>1, LeakInvParts DEF KilledDied
<1>12. next' \in Nat /\ next' >= next
  BY <1>1, <1>2
<1> QED
  BY <1>1, <1>3, <1>4, <1>5, <1>7, <1>8, <1>9, <1>10, <1>11, <1>12, ThreadLeaks

\* A thread that settles has reaped its child and holds nothing any more.
LEMMA SettleLeaks ==
  ASSUME IInv, LeakInv, NEW t \in Threads, thread[t].pc = "settle", Reaps(t),
         dropped \subseteq dropped',
         \A j \in RangeOf(killed') : deaths'[j] > 0,
         \A j \in Jobs : deaths[j] > 0 => deaths'[j] > 0,
         \A j \in Jobs : j # thread[t].job => pairs'[j] = pairs[j],
         thread[t].timedOut \/ Status(t) = "signalled" =>
           \/ deaths'[thread[t].job] > 0
           \/ pairs'[thread[t].job] = "timeout" \/ thread[t].job \in dropped'
  PROVE  LeakInv'
<1>1. /\ next' = next /\ phase' = phase /\ queue' = queue /\ runs' = runs
      /\ leaked' = leaked /\ orphans' = orphans
      /\ child' = [child EXCEPT ![thread[t].pid] = NoChild]
  BY DEF Reaps, KeepPasses
<1>2. /\ TypeOK /\ ChildTypeOK /\ Claiming \in Thread /\ Claiming.pc = "claim"
      /\ next \in Nat /\ leaked \subseteq Leaks
  BY ThreadType DEF IInv, TypeOK, ChildTypeOK
<1>3. OnlyThread(t, Claiming)
  BY <1>2, SetOnly DEF Reaps
<1>4. HasChild(t) /\ Holds(t) /\ ~Holds(t)'
  BY <1>2, <1>3 DEF OnlyThread, Holds, HasChild
<1>5. \A u \in Threads : u # t /\ HasChild(u) => child'[thread[u].pid].st = child[thread[u].pid].st
  <2> SUFFICES ASSUME NEW u \in Threads, u # t, HasChild(u)
               PROVE  child'[thread[u].pid] = child[thread[u].pid]
    OBVIOUS
  <2>1. thread[u].pid \in Pids /\ thread[u].pid # thread[t].pid
    BY <1>4 DEF IInv, WaitingInv, OwnersDistinct
  <2> QED
    BY <2>1, <1>1, <1>2 DEF ChildTypeOK
<1>6. \A j \in Jobs : PastHands(j) => pairs'[j] = pairs[j]
  BY <1>4, HeldNotPast
<1>7. ASSUME NEW j \in Jobs, DyingBy(t, j) PROVE Accounted(j)'
  <2>1. j = thread[t].job /\ (thread[t].timedOut \/ Status(t) = "signalled")
    BY <1>7 DEF DyingBy, Status
  <2>2. ~Unclaimed(j)'
    <3>1. ~Unclaimed(j)
      BY <2>1, <1>4, HeldNotPast
    <3> QED
      BY <3>1, <1>1 DEF Unclaimed
  <2>3. ~Held(j)'
    <3> SUFFICES ASSUME NEW u \in Threads, Holds(u)', thread'[u].job = j PROVE FALSE
      BY DEF Held
    <3>1. u # t
      BY <1>4
    <3>2. Holds(u) /\ thread[u].job = j
      BY <3>1, <1>3, OtherThread
    <3> QED
      BY <3>1, <3>2, <2>1, <1>4 DEF IInv, OneThreadPerJob
  <2> QED
    BY <2>1, <2>2, <2>3 DEF Accounted, PastHands
<1>8. leaked' \subseteq Leaks /\ \A j \in Jobs : <<j, "abandoned">> \in leaked' => <<j, "abandoned">> \in leaked
  BY <1>1, <1>2
<1>9. next' \in Nat /\ next' >= next
  BY <1>1, <1>2
<1> QED
  BY <1>1, <1>2, <1>3, <1>4, <1>5, <1>6, <1>7, <1>8, <1>9, ThreadLeaks

LEMMA SettleOkLeaks ==
  ASSUME IInv, LeakInv, NEW t \in Threads, SettleOk(t)
  PROVE  LeakInv'
<1>1. /\ thread[t].pc = "settle" /\ Reaps(t) /\ ~thread[t].timedOut /\ Status(t) = "exited0"
      /\ killed' = killed /\ deaths' = deaths /\ dropped' = dropped /\ pairs' = pairs
  BY DEF SettleOk
<1>2. \A j \in RangeOf(killed') : deaths'[j] > 0
  BY <1>1, LeakInvParts DEF KilledDied
<1> QED
  BY <1>1, <1>2, SettleLeaks

LEMMA SettleKilledLeaks ==
  ASSUME IInv, LeakInv, NEW t \in Threads, SettleKilled(t)
  PROVE  LeakInv'
<1>1. /\ thread[t].pc = "settle" /\ Reaps(t) /\ dropped' = dropped /\ pairs' = pairs
      /\ killed' = Append(killed, thread[t].job)
      /\ deaths' = [deaths EXCEPT ![thread[t].job] = IF @ < 2 THEN @ + 1 ELSE @]
  BY DEF SettleKilled
<1> DEFINE j0 == thread[t].job
<1>2. j0 \in Jobs /\ deaths \in [Jobs -> 0 .. 2] /\ killed \in Seq(Jobs)
  BY <1>1, HeldJob DEF Holds, IInv, TypeOK
<1>3. RangeOf(killed') = RangeOf(killed) \cup {j0} /\ RangeOf(killed) \subseteq Jobs
  BY <1>1, <1>2, RangeOfAppend DEF RangeOf
<1>4. \A j \in RangeOf(killed) : deaths[j] > 0
  BY LeakInvParts DEF KilledDied
<1>5. deaths' = [deaths EXCEPT ![j0] = IF @ < 2 THEN @ + 1 ELSE @]
  BY <1>1
<1> HIDE DEF j0
<1>6. deaths[j0] \in 0 .. 2
  BY <1>2
<1>7. deaths'[j0] = IF deaths[j0] < 2 THEN deaths[j0] + 1 ELSE deaths[j0]
  BY <1>2, <1>5
<1>8. deaths'[j0] > 0 /\ \A j \in Jobs : j # j0 => deaths'[j] = deaths[j]
  BY <1>2, <1>5, <1>6, <1>7
<1>9. \A j \in RangeOf(killed') : deaths'[j] > 0
  BY <1>3, <1>4, <1>8
<1>10. \A j \in Jobs : deaths[j] > 0 => deaths'[j] > 0
  BY <1>8
<1> QED
  BY <1>1, <1>8, <1>9, <1>10, SettleLeaks DEF j0

LEMMA SettleFailedLeaks ==
  ASSUME IInv, LeakInv, NEW t \in Threads, SettleFailed(t)
  PROVE  LeakInv'
<1> DEFINE what == IF thread[t].timedOut THEN "timeout" ELSE "exit"
<1>1. /\ thread[t].pc = "settle" /\ Reaps(t) /\ killed' = killed /\ deaths' = deaths
      /\ thread[t].timedOut \/ Status(t) = "exited1"
      /\ Record(thread[t].job, what)
  BY DEF SettleFailed
<1>2. thread[t].timedOut \/ Status(t) = "signalled" => what = "timeout"
  BY <1>1
<1> HIDE DEF what
<1>3. \A j \in RangeOf(killed') : deaths'[j] > 0
  BY <1>1, LeakInvParts DEF KilledDied
<1>4. thread[t].job \in Jobs /\ pairs \in [Jobs -> PairFiles]
  BY <1>1, HeldJob DEF Holds, IInv, TypeOK, ChildTypeOK
<1>5. /\ dropped \subseteq dropped'
      /\ \A j \in Jobs : j # thread[t].job => pairs'[j] = pairs[j]
      /\ pairs'[thread[t].job] = what \/ thread[t].job \in dropped'
  BY <1>1, <1>4 DEF Record
<1> QED
  BY <1>1, <1>2, <1>3, <1>5, SettleLeaks

\* The steps of run_diff, all of them taken when no thread is at work.
LEMMA StartLeaks ==
  ASSUME IInv, LeakInv, Start
  PROVE  LeakInv'
<1>1. phase \in {"stopped", "complete"} /\ runs' = runs + 1 /\ leaked' = leaked /\ orphans' = orphans
  BY DEF Start, childVars, disk
<1>2. PICK n \in 0 .. NumJobs : \E s \in [1 .. n -> Jobs] :
        InPlanOrder(s, Unrecorded) /\ BeginPass(s, Threads)
  BY DEF Start
<1>3. PICK s \in [1 .. n -> Jobs] : BeginPass(s, Threads)
  BY <1>2
<1>4. killed' = <<>> /\ \A t \in Threads : thread'[t].pc = "claim"
  BY <1>3 DEF BeginPass, Claiming
<1>5. runs \in Nat /\ leaked \subseteq Leaks /\ Untouched
  BY LeakInvParts DEF IInv, TypeOK, ChildTypeOK
<1>6. SettledGone' /\ KilledDied'
  BY <1>4 DEF SettledGone, KilledDied, RangeOf
<1>7. Untouched'
  BY <1>1, <1>5 DEF Untouched
<1>8. LeakedAccounted'
  BY <1>1, <1>5 DEF LeakedAccounted, FirstRun, Untouched
<1> QED
  BY <1>1, <1>5, <1>6, <1>7, <1>8, LeakInvNext

LEMMA MovesOnLeaks ==
  ASSUME IInv, LeakInv, Finish \/ GiveUp
  PROVE  LeakInv'
<1>1. /\ phase \in {"pass", "retry", "bury"} /\ phase' \in {"bury", "complete"}
      /\ queue' = queue /\ next' = next /\ killed' = killed /\ thread' = thread
      /\ runs' = runs /\ deaths' = deaths /\ dropped' = dropped
      /\ child' = child /\ orphans' = orphans /\ leaked' = leaked /\ pairs' = pairs
  BY DEF Finish, GiveUp, childVars, disk
<1>2. SettledGone /\ KilledDied /\ Untouched /\ LeakedAccounted /\ leaked \subseteq Leaks
  BY LeakInvParts DEF IInv, TypeOK, ChildTypeOK
<1>3. SettledGone' /\ KilledDied' /\ Untouched'
  BY <1>1, <1>2 DEF SettledGone, KilledDied, Untouched, RangeOf
<1>4. LeakedAccounted'
  <2> SUFFICES ASSUME NEW j \in Jobs, Accounted(j) PROVE Accounted(j)'
    BY <1>1, <1>2 DEF LeakedAccounted, FirstRun
  <2> QED
    BY <1>1 DEF Accounted, Dying, PastHands, Unclaimed, Held, Holds, HasChild
<1> QED
  BY <1>1, <1>2, <1>3, <1>4, LeakInvNext

LEMMA RetryLeaks ==
  ASSUME IInv, LeakInv, Retry
  PROVE  LeakInv'
<1>1. /\ phase = "pass" /\ phase' = "retry" /\ Joined
      /\ runs' = runs /\ deaths' = deaths /\ dropped' = dropped
      /\ child' = child /\ orphans' = orphans /\ leaked' = leaked /\ pairs' = pairs
  BY DEF Retry, childVars, disk
<1>2. PICK t \in Threads : BeginPass(killed, {t})
  BY DEF Retry
<1>3. queue' = killed /\ killed' = <<>> /\ \A u \in Threads : thread'[u].pc \in {"claim", "done"}
  BY <1>2 DEF BeginPass, Claiming, Idle
<1>4. SettledGone /\ KilledDied /\ Untouched /\ LeakedAccounted /\ leaked \subseteq Leaks
  BY LeakInvParts DEF IInv, TypeOK, ChildTypeOK
<1>5. SettledGone' /\ KilledDied' /\ Untouched'
  BY <1>1, <1>3, <1>4 DEF SettledGone, KilledDied, Untouched, RangeOf
<1>6. LeakedAccounted'
  <2> SUFFICES ASSUME NEW j \in Jobs, Accounted(j), ~(deaths[j] > 0) PROVE Accounted(j)'
    BY <1>1, <1>4 DEF LeakedAccounted, FirstRun, Accounted
  <2>1. ~Dying(j)
    BY <1>1, JoinedIdle DEF Dying
  <2>2. ~Unclaimed(j)'
    BY <1>3, <1>4 DEF Unclaimed, KilledDied, RangeOf
  <2>3. ~Held(j)'
    BY <1>3 DEF Held, Holds
  <2> QED
    BY <2>1, <2>2, <2>3, <1>1 DEF Accounted, PastHands
<1> QED
  BY <1>1, <1>4, <1>5, <1>6, LeakInvNext

LEMMA BuryLeaks ==
  ASSUME IInv, LeakInv, Bury
  PROVE  LeakInv'
<1>1. /\ phase = "bury" /\ phase' = phase /\ killed # <<>> /\ killed' = Tail(killed)
      /\ Record(Head(killed), "killed")
      /\ queue' = queue /\ next' = next /\ thread' = thread
      /\ runs' = runs /\ deaths' = deaths
      /\ child' = child /\ orphans' = orphans /\ leaked' = leaked
  BY DEF Bury
<1>2. /\ SettledGone /\ KilledDied /\ Untouched /\ LeakedAccounted /\ leaked \subseteq Leaks
      /\ killed \in Seq(Jobs) /\ pairs \in [Jobs -> PairFiles]
  BY LeakInvParts DEF IInv, TypeOK, ChildTypeOK
<1>3. Head(killed) \in RangeOf(killed) /\ RangeOf(killed') \subseteq RangeOf(killed)
  BY <1>1, <1>2, RangeOfTail
<1>4. SettledGone' /\ Untouched'
  BY <1>1, <1>2 DEF SettledGone, Untouched
<1>5. KilledDied'
  <2>1. \A j \in RangeOf(killed') : deaths[j] > 0
    BY <1>2, <1>3 DEF KilledDied
  <2> QED
    BY <2>1, <1>1 DEF KilledDied
<1>6. LeakedAccounted'
  <2> SUFFICES ASSUME NEW j \in Jobs, Accounted(j), ~(deaths[j] > 0) PROVE Accounted(j)'
    BY <1>1, <1>2 DEF LeakedAccounted, FirstRun, Accounted
  <2>1. ~Dying(j)
    <3>1. Joined
      BY <1>1 DEF IInv, PoolInv
    <3> QED
      BY <3>1, JoinedIdle DEF Dying
  <2>2. pairs[j] = "timeout" \/ j \in dropped
    BY <2>1 DEF Accounted
  <2>3. j # Head(killed)
    BY <1>2, <1>3 DEF KilledDied
  <2>4. pairs'[j] = pairs[j] /\ dropped \subseteq dropped'
    BY <2>3, <1>1, <1>2 DEF Record
  <2>5. PastHands(j)'
    BY <2>1, <1>1 DEF Accounted, PastHands, Unclaimed, Held, Holds
  <2> QED
    BY <2>2, <2>4, <2>5 DEF Accounted
<1> QED
  BY <1>1, <1>2, <1>4, <1>5, <1>6, LeakInvNext

LEMMA ParentDiesLeaks ==
  ASSUME IInv, LeakInv, ParentDies
  PROVE  LeakInv'
<1>1. /\ phase # "stopped" /\ phase' = "stopped" /\ killed' = <<>>
      /\ thread' = [t \in Threads |-> Idle] /\ runs' = runs /\ leaked' = leaked
  BY DEF ParentDies, disk
<1>2. Untouched /\ leaked \subseteq Leaks
  BY LeakInvParts DEF IInv, TypeOK, ChildTypeOK
<1>3. SettledGone' /\ KilledDied'
  BY <1>1 DEF SettledGone, KilledDied, RangeOf, Idle
<1>4. Untouched' /\ LeakedAccounted'
  BY <1>1, <1>2 DEF Untouched, LeakedAccounted, FirstRun
<1> QED
  BY <1>1, <1>2, <1>3, <1>4, LeakInvNext

\* Together, from the first state to the report of completion.
LEMMA InitLeaks == Init => LeakInv
<1> SUFFICES ASSUME Init PROVE LeakInv
  OBVIOUS
<1>1. /\ phase = "stopped" /\ killed = <<>> /\ runs = 0 /\ orphans = {} /\ leaked = {}
      /\ thread = [t \in Threads |-> Idle]
  BY DEF Init, ChildInit
<1>2. \A t \in Threads : thread[t].pc = "done"
  BY <1>1 DEF Idle
<1>3. RangeOf(killed) = {}
  BY <1>1 DEF RangeOf
<1> QED
  BY <1>1, <1>2, <1>3 DEF LeakInv

LEMMA NextLeaks ==
  ASSUME IInv, LeakInv, [Next]_vars
  PROVE  LeakInv'
<1>1. CASE Start \/ Finish \/ Retry \/ GiveUp \/ Bury \/ ParentDies
  BY <1>1, StartLeaks, MovesOnLeaks, RetryLeaks, BuryLeaks, ParentDiesLeaks
<1>2. ASSUME NEW t \in Threads, ThreadStep(t)
      PROVE  LeakInv'
  BY <1>2, ClaimLeaks, SpawnLeaks, SpawnFailsLeaks, PipesClosedLeaks, DeadlineLeaks,
     SettleOkLeaks, SettleKilledLeaks, SettleFailedLeaks DEF ThreadStep
<1>3. ASSUME NEW p \in Pids, ChildStep(p), parentVars' = parentVars
      PROVE  LeakInv'
  BY <1>3, ChildStepLeaks
<1>4. CASE UNCHANGED vars
  BY <1>4 DEF LeakInv, vars, parentVars, childVars, disk, Dying, PastHands, Unclaimed, Held,
              Holds, HasChild
<1> QED
  BY <1>1, <1>2, <1>3, <1>4 DEF Next, Rest

\* When a first run that nothing interrupted reports completion, every job
\* with scratch directories nobody tried to remove had a child killed, by a
\* signal or at its deadline, or was let go without a record.
THEOREM LeaksHaveReasons == Spec => []LeaksExplained
<1>1. Init => IInv /\ LeakInv
  BY InitIInv, InitLeaks
<1>2. IInv /\ LeakInv /\ [Next]_vars => (IInv /\ LeakInv)'
  BY NextIInv, NextLeaks
<1>3. IInv /\ LeakInv => LeaksExplained
  <2> SUFFICES ASSUME IInv, LeakInv, phase = "complete", runs = 1,
                      NEW j \in Jobs, <<j, "abandoned">> \in leaked
               PROVE  deaths[j] > 0 \/ pairs[j] = "timeout" \/ j \in dropped
    BY DEF LeaksExplained
  <2>1. LeakedAccounted /\ leaked \subseteq Leaks
    BY LeakInvParts DEF IInv, TypeOK, ChildTypeOK
  <2>2. Accounted(j)
    BY <2>1 DEF LeakedAccounted, FirstRun
  <2>3. Joined
    BY DEF IInv, PoolInv
  <2>4. ~Dying(j)
    BY <2>3, JoinedIdle DEF Dying
  <2> QED
    BY <2>2, <2>4 DEF Accounted
<1> QED
  BY <1>1, <1>2, <1>3, PTL DEF Spec

------------------------------------------------------------------------------
(***************************************************************************)
(* The diff stage's invariant, under the steps of the headers stage.       *)
(***************************************************************************)
DiffSees ==
  /\ phase' = phase /\ queue' = queue /\ next' = next /\ killed' = killed
  /\ thread' = thread /\ runs' = runs /\ todo' = todo /\ deaths' = deaths
  /\ dropped' = dropped
  /\ pairs' = pairs /\ unindexed' = unindexed /\ child' = child /\ orphans' = orphans
  /\ index \subseteq index'

LEMMA IInvSurvives ==
  ASSUME IInv, DiffSees, index' \subseteq Releases \X Langs, leaked' \subseteq Leaks
  PROVE  IInv'
<1>1. TypeOK'
  BY DEF IInv, TypeOK, ChildTypeOK, DiffSees
<1>2. WaitingInv' /\ OwnersDistinct' /\ ChildrenOwned' /\ OrphansAlive'
  BY DEF IInv, DiffSees, WaitingInv, OwnersDistinct, ChildrenOwned, OrphansAlive,
         HasChild, Alive
<1>3. QueueInv' /\ PoolInv' /\ OneThreadPerJob'
  BY DEF IInv, DiffSees, QueueInv, PoolInv, OneThreadPerJob, Holds, Claimed, Joined
<1>4. CommittedInv' /\ DeathsInv' /\ KilledTwice'
  BY DEF IInv, DiffSees, CommittedInv, DeathsInv, KilledTwice
<1>5. AccountedInv'
  BY DEF IInv, DiffSees, AccountedInv, Unclaimed, Held, Holds
<1>6. IndexedBeforeRecorded'
  BY DEF IInv, DiffSees, IndexedBeforeRecorded, SideOf, IndexLang
<1>7. ASSUME NEW p \in Pids, NEW s \in {1, 2}, Indexed(p, s)
      PROVE  Indexed(p, s)'
  BY <1>7 DEF Indexed, Key, SideOf, IndexLang, DiffSees
<1>8. ChildInv'
  BY <1>7 DEF IInv, ChildInv, At, DiffSees
<1> QED
  BY <1>1, <1>2, <1>3, <1>4, <1>5, <1>6, <1>8 DEF IInv

LEMMA HeaderKeyType ==
  ASSUME HeadersTypeOK, Job \in Jobs, NEW s \in {1, 2}
  PROVE  HeaderKey(s) \in Releases \X Langs
<1>1. headers.lang \in Langs /\ SideOf(s)[Job] \in Releases
  BY PlanAssumption DEF HeadersTypeOK, Process, SideOf
<1> QED
  BY <1>1 DEF HeaderKey

\* What a step of the headers stage does to the directory.
HeadersMove == StartHeaders \/ HeaderStep \/ HeadersDie

LEMMA HeadersMoveEffect ==
  ASSUME IInv, HeadersTypeOK, HeadersMove
  PROVE  /\ DiffSees /\ index' \subseteq Releases \X Langs /\ leaked' \subseteq Leaks
<1>0. index \subseteq Releases \X Langs /\ leaked \subseteq Leaks
  BY DEF IInv, TypeOK, ChildTypeOK
<1>1. CASE HeadersDie
  <2>1. leaked' = leaked \/ (Job \in Jobs /\ leaked' = leaked \cup {<<Job, "abandoned">>})
    BY <1>1 DEF HeadersDie, InHand
  <2>2. leaked' \subseteq Leaks
    BY <1>0, <2>1 DEF Leaks
  <2> QED
    BY <1>0, <1>1, <2>2 DEF HeadersDie, KeepDiff, DiffSees, parentVars
<1>d. ASSUME Job \in Jobs, DropsScratch
      PROVE  leaked' \subseteq Leaks
  <2>1. <<Job, "unremoved">> \in Leaks
    BY <1>d DEF Leaks
  <2> QED
    BY <1>0, <1>d, <2>1 DEF DropsScratch
<1>2. ASSUME NEW s \in {1, 2}, MakeIndex(s)
      PROVE  DiffSees /\ index' \subseteq Releases \X Langs /\ leaked' \subseteq Leaks
  <2>1. HeaderKey(s) \in Releases \X Langs
    BY <1>2, HeaderKeyType DEF MakeIndex, InHand
  <2>2. index' = index \cup {HeaderKey(s)}
    BY <1>2 DEF MakeIndex
  <2>3. leaked' \subseteq Leaks
    BY <1>2, <1>d DEF MakeIndex, InHand
  <2> QED
    BY <1>0, <1>2, <2>1, <2>2, <2>3 DEF MakeIndex, KeepDiff, DiffSees, parentVars
<1>3. CASE UNCHANGED <<parentVars, pairs, unindexed, leaked, child, orphans, index>>
  BY <1>0, <1>3 DEF DiffSees, parentVars
<1>4. CASE StartHeaders \/ SkipJob \/ ReadPair \/ SaveRecord \/ SaveRecordFails \/ HeadersComplete
  BY <1>3, <1>4 DEF StartHeaders, SkipJob, ReadPair, SaveRecord, SaveRecordFails,
                    HeadersComplete, KeepFiles, KeepDiff
<1>5. ASSUME NEW s \in {1, 2}, GetIndex(s) \/ IndexUnreadable(s)
      PROVE  DiffSees /\ index' \subseteq Releases \X Langs /\ leaked' \subseteq Leaks
  BY <1>3, <1>5 DEF GetIndex, IndexUnreadable, KeepFiles, KeepDiff
<1>6. ASSUME NEW s \in {1, 2}, MakeIndexFails(s)
      PROVE  DiffSees /\ index' \subseteq Releases \X Langs /\ leaked' \subseteq Leaks
  <2>1. leaked' \subseteq Leaks
    BY <1>6, <1>d DEF MakeIndexFails, InHand
  <2> QED
    BY <1>0, <1>6, <2>1 DEF MakeIndexFails, KeepDiff, DiffSees, parentVars
<1> QED
  BY <1>1, <1>2, <1>4, <1>5, <1>6 DEF HeadersMove, HeaderStep

(***************************************************************************)
(* Type correctness of the headers stage.                                  *)
(***************************************************************************)
LEMMA HeadersTypeInit ==
  ASSUME HeadersInit
  PROVE  HeadersTypeOK
<1>1. Stopped("stopped") \in Process /\ NoRecord \in HeaderRecord
  BY PlanAssumption DEF Stopped, Process, HeaderPcs, Kinds, Langs, NoRecord, HeaderRecord
<1>2. index = OldIndexes
  BY DEF HeadersInit, Init, ChildInit
<1> QED
  BY <1>1, <1>2 DEF HeadersInit, HeadersTypeOK

\* The language of a pair is C or C++, whatever its record says.
LEMMA PairLanguageType ==
  ASSUME NEW j \in Jobs
  PROVE  PairLanguage(j) \in Langs
BY PlanAssumption DEF PairLanguage, Langs

LEMMA HeadersTypeStep ==
  ASSUME IInv, HeadersTypeOK, HeadersMove
  PROVE  HeadersTypeOK'
<1>0. /\ headers \in Process /\ headerPairs \in [Jobs -> HeaderRecord]
      /\ oldSchema \subseteq index /\ empty \subseteq index /\ headerRuns \in Nat
      /\ early \subseteq Jobs /\ unread \subseteq Jobs
  BY DEF HeadersTypeOK
<1>s. \A pc \in HeaderPcs : Stopped(pc) \in Process
  BY PlanAssumption DEF Stopped, Process, Kinds, Langs
<1>n. Job \in Jobs => Job + 1 \in 1 .. NumJobs + 1
  BY PlanAssumption DEF Jobs
<1>h. ASSUME headers' \in Process, KeepRecords, UNCHANGED <<oldSchema, empty, index>>
      PROVE  HeadersTypeOK'
  BY <1>0, <1>h DEF HeadersTypeOK, KeepRecords, KeepReads
<1>1. CASE StartHeaders
  <2>1. headers' \in Process
    BY <1>1, <1>s DEF StartHeaders, Advance, HeaderPcs
  <2> QED
    BY <1>0, <1>1, <2>1 DEF StartHeaders, HeadersTypeOK, KeepFiles, KeepReads
<1>2. CASE SkipJob
  <2>1. headers' \in Process
    BY <1>0, <1>2, <1>n DEF SkipJob, Advance, InHand, Process
  <2> QED
    BY <1>h, <1>2, <2>1 DEF SkipJob, KeepFiles
<1>3. CASE ReadPair
  <2>1. PairLanguage(Job) \in Langs
    BY <1>3, PairLanguageType DEF ReadPair, InHand
  <2>2. headers' \in Process
    <3>1. PICK lang \in Langs : ReadsAs(lang)
      BY <1>3, <2>1 DEF ReadPair, Langs
    <3> QED
      BY <1>0, <3>1 DEF ReadsAs, Advance, Process, HeaderPcs, Kinds
  <2>3. early' \subseteq Jobs /\ unread' \subseteq Jobs
    BY <1>0, <1>3 DEF ReadPair, InHand
  <2> QED
    BY <1>0, <1>3, <2>2, <2>3 DEF ReadPair, HeadersTypeOK, KeepFiles
<1>4. ASSUME NEW s \in {1, 2}, NEW kind \in Kinds, Have(s, kind)
      PROVE  headers' \in Process
  BY <1>0, <1>4 DEF Have, Advance, AfterGet, Process, HeaderPcs
<1>5. ASSUME NEW s \in {1, 2}, GetIndex(s)
      PROVE  HeadersTypeOK'
  <2>1. KindOf(HeaderKey(s)) \in Kinds
    BY DEF KindOf, Kinds
  <2>2. CASE Have(s, KindOf(HeaderKey(s)))
    BY <2>1, <2>2, <1>4, <1>5, <1>h DEF GetIndex, KeepFiles
  <2>3. CASE Advance([headers EXCEPT !.pc = BuildAt(s)])
    <3>1. headers' \in Process
      BY <1>0, <2>3 DEF Advance, BuildAt, Process, HeaderPcs
    <3> QED
      BY <3>1, <1>5, <1>h DEF GetIndex, KeepFiles
  <2> QED
    BY <2>2, <2>3, <1>5 DEF GetIndex
<1>6. ASSUME NEW s \in {1, 2}, MakeIndex(s)
      PROVE  HeadersTypeOK'
  <2> DEFINE kind == IF HeaderKey(s)[1] \in HasDev THEN "new" ELSE "empty"
  <2>1. Have(s, kind) /\ kind \in Kinds
    BY <1>6 DEF MakeIndex, Kinds
  <2>2. headers' \in Process
    BY <2>1, <1>4
  <2>3. oldSchema' \subseteq index' /\ empty' \subseteq index'
    BY <1>0, <1>6 DEF MakeIndex
  <2> QED
    BY <1>0, <1>6, <2>2, <2>3 DEF MakeIndex, HeadersTypeOK, KeepRecords, KeepReads
<1>7. ASSUME NEW s \in {1, 2}, MakeIndexFails(s)
      PROVE  HeadersTypeOK'
  <2>1. headers' \in Process
    BY <1>0, <1>7 DEF MakeIndexFails, Advance, Process, HeaderPcs
  <2> QED
    BY <1>h, <1>7, <2>1 DEF MakeIndexFails
<1>10. ASSUME NEW s \in {1, 2}, IndexUnreadable(s)
       PROVE  HeadersTypeOK'
  <2>1. headers' \in Process
    BY <1>0, <1>10 DEF IndexUnreadable, Advance, BuildAt, Process, HeaderPcs
  <2> QED
    BY <1>h, <1>10, <2>1 DEF IndexUnreadable, KeepFiles
<1>8. CASE SaveRecord
  <2>1. headers' \in Process
    BY <1>0, <1>8, <1>n DEF SaveRecord, Advance, InHand, Process, HeaderPcs
  <2>2. headerPairs' \in [Jobs -> HeaderRecord]
    BY <1>0, <1>8 DEF SaveRecord, InHand, Process, HeaderRecord, Kinds
  <2> QED
    BY <1>0, <1>8, <2>1, <2>2 DEF SaveRecord, HeadersTypeOK, KeepFiles, KeepReads
<1>9. CASE SaveRecordFails \/ HeadersComplete \/ HeadersDie
  <2>1. headers' \in Process /\ KeepRecords /\ UNCHANGED <<oldSchema, empty, index>>
    BY <1>9, <1>s DEF SaveRecordFails, HeadersComplete, HeadersDie, Advance, HeaderPcs,
                      KeepFiles
  <2> QED
    BY <1>h, <2>1
<1> QED
  BY <1>1, <1>2, <1>3, <1>5, <1>6, <1>7, <1>8, <1>9, <1>10 DEF HeadersMove, HeaderStep

(***************************************************************************)
(* A quiet job: no step of the diff stage touches its record again.        *)
(***************************************************************************)

\* Between runs of the diff stage the only children are orphans.
LEMMA OnlyOrphans ==
  ASSUME IInv, DiffIdle
  PROVE  \A p \in Pids : child[p].st # "free" => p \in orphans
BY DEF IInv, DiffIdle, PoolInv, Joined, ChildrenOwned, HasChild

\* A process of the next state was there already, on the same job, or a
\* thread has just started it for the job it holds.
LEMMA ChildrenStep ==
  ASSUME IInv, [Next]_vars, NEW p \in Pids, child'[p].st # "free"
  PROVE  \/ child[p].st # "free" /\ child'[p].job = child[p].job
         \/ \E t \in Threads : Holds(t) /\ child'[p].job = thread[t].job
<1>0. child \in [Pids -> Child] /\ NoChild.st = "free"
  BY DEF IInv, TypeOK, ChildTypeOK, NoChild
<1>1. CASE child' = child
  BY <1>1
<1>2. CASE Start \/ Finish \/ Retry \/ GiveUp \/ Bury
  BY <1>1, <1>2 DEF Start, Finish, Retry, GiveUp, Bury, childVars
<1>3. CASE ParentDies
  BY <1>0, <1>3 DEF ParentDies, Alive, Stages
<1>4. ASSUME NEW q \in Pids, Visible(q), child[q].st # "free"
      PROVE  child[p].st # "free" /\ child'[p].job = child[p].job
  <2>1. CASE p # q
    BY <1>0, <1>4, <2>1 DEF Visible, Moved, Vanished
  <2>2. CASE p = q /\ Moved(p)
    BY <1>0, <1>4, <2>2 DEF Moved
  <2>3. CASE p = q /\ Vanished(p)
    BY <1>0, <2>3 DEF Vanished
  <2> QED
    BY <1>4, <2>1, <2>2, <2>3 DEF Visible
<1>5. ASSUME NEW q \in Pids, ChildStep(q)
      PROVE  child[p].st # "free" /\ child'[p].job = child[p].job
  <2>1. Visible(q) /\ child[q].st # "free"
    BY <1>5, ChildStepEffect DEF IInv, TypeOK, ChildEffect, Alive, Stages
  <2> QED
    BY <2>1, <1>4
<1>6. ASSUME NEW t \in Threads, Deadline(t)
      PROVE  child[p].st # "free" /\ child'[p].job = child[p].job
  <2> DEFINE q == thread[t].pid
  <2>1. CASE Alive(q)
    <3>1. q \in Pids /\ q \notin orphans /\ child[q].job \in Jobs
      BY <1>6, <2>1 DEF IInv, WaitingInv, TypeOK, ChildTypeOK, Deadline, HasChild, Alive, Stages
    <3>2. Dies(q)
      BY <1>6, <2>1 DEF Deadline
    <3>3. Visible(q) /\ child[q].st # "free"
      BY <2>1, <3>1, <3>2, DiesVisible DEF IInv, TypeOK, Alive, Stages
    <3> QED
      BY <3>1, <3>3, <1>4
  <2>2. CASE ~Alive(q)
    BY <1>1, <1>6, <2>2 DEF Deadline
  <2> QED
    BY <2>1, <2>2
<1>7. ASSUME NEW t \in Threads, Spawn(t)
      PROVE  \/ child[p].st # "free" /\ child'[p].job = child[p].job
             \/ Holds(t) /\ child'[p].job = thread[t].job
  <2>1. PICK q \in Pids : child' = [child EXCEPT ![q] = Spawned(thread[t].job)]
    BY <1>7 DEF Spawn
  <2>2. Holds(t) /\ Spawned(thread[t].job).job = thread[t].job
    BY <1>7 DEF Spawn, Holds, Spawned
  <2> QED
    BY <1>0, <2>1, <2>2
<1>8. ASSUME NEW t \in Threads, SettleOk(t) \/ SettleKilled(t) \/ SettleFailed(t)
      PROVE  child[p].st # "free" /\ child'[p].job = child[p].job
  <2>1. child' = [child EXCEPT ![thread[t].pid] = NoChild]
    BY <1>8 DEF SettleOk, SettleKilled, SettleFailed, Reaps
  <2> QED
    BY <1>0, <2>1
<1>9. ASSUME NEW t \in Threads, Claim(t) \/ SpawnFails(t) \/ PipesClosed(t)
      PROVE  child' = child
  BY <1>9 DEF Claim, SpawnFails, PipesClosed, childVars
<1>10. CASE UNCHANGED vars
  BY <1>1, <1>10 DEF vars, childVars
<1> QED
  BY <1>1, <1>2, <1>3, <1>5, <1>6, <1>7, <1>8, <1>9, <1>10 DEF Next, Rest, ThreadStep

\* A run in progress keeps its list of jobs; a run that starts lists those
\* without a record.
LEMMA TodoStep ==
  ASSUME [Next]_vars
  PROVE  \/ todo' = todo /\ (~DiffIdle' => ~DiffIdle)
         \/ todo' = Unrecorded /\ pairs' = pairs
<1>1. CASE Start
  BY <1>1 DEF Start, childVars, disk
<1>2. CASE Finish \/ Retry \/ GiveUp \/ Bury \/ ParentDies
  BY <1>2 DEF Finish, Retry, GiveUp, Bury, ParentDies, DiffIdle
<1>3. ASSUME NEW t \in Threads, ThreadStep(t)
      PROVE  todo' = todo /\ phase' = phase
  BY <1>3 DEF ThreadStep, Claim, Spawn, SpawnFails, PipesClosed, Deadline,
              SettleOk, SettleKilled, SettleFailed, Reaps, KeepPasses
<1>4. CASE UNCHANGED parentVars \/ UNCHANGED vars
  BY <1>4 DEF vars, parentVars, DiffIdle
<1>5. CASE \E t \in Threads : ThreadStep(t)
  BY <1>3, <1>5 DEF DiffIdle
<1> QED
  BY <1>1, <1>2, <1>4, <1>5 DEF Next, Rest

LEMMA QuietStep ==
  ASSUME IInv, QueueWithinTodo, [Next]_vars, NEW j \in Jobs, Quiet(j)
  PROVE  Quiet(j)' /\ pairs'[j] = pairs[j]
<1>0. pairs \in [Jobs -> PairFiles] /\ pairs[j] # "none"
  BY DEF IInv, TypeOK, ChildTypeOK, Quiet
<1>1. \A t \in Threads : Holds(t) => ~DiffIdle
  BY DEF IInv, PoolInv, Joined, Holds, DiffIdle
<1>2. \A t \in Threads : Holds(t) => thread[t].job # j
  BY <1>1, HeldInTodo DEF Quiet
<1>3. ASSUME NEW p \in Pids, At(p, "save"), SavePair(p)
      PROVE  pairs'[j] = pairs[j]
  <2>1. child[p].job # j
    BY <1>3 DEF Quiet, At
  <2> QED
    BY <1>0, <1>3, <2>1 DEF SavePair
<1>4. ASSUME NEW t \in Threads, SettleFailed(t)
      PROVE  pairs'[j] = pairs[j]
  <2>1. thread[t].job # j
    BY <1>2, <1>4 DEF SettleFailed, Holds
  <2> QED
    BY <1>0, <1>4, <2>1 DEF SettleFailed, Record
<1>5. ASSUME Bury
      PROVE  pairs'[j] = pairs[j]
  <2>1. killed # <<>> /\ ~DiffIdle
    BY <1>5 DEF Bury, DiffIdle
  <2>2. Head(killed) \in RangeOf(killed)
    BY <2>1, RangeOfTail DEF IInv, TypeOK
  <2>3. Head(killed) # j
    BY <2>1, <2>2, HeldInTodo DEF Quiet
  <2> QED
    BY <1>0, <1>5, <2>3 DEF Bury, Record
<1>6. pairs'[j] = pairs[j]
  BY <1>3, <1>4, <1>5, PairsStep
<1>7. \A p \in Pids : child'[p].st # "free" => child'[p].job # j
  BY <1>2, ChildrenStep DEF Quiet
<1>8. ~DiffIdle' => j \notin todo'
  BY <1>0, <1>6, TodoStep DEF Quiet, Unrecorded
<1> QED
  BY <1>0, <1>6, <1>7, <1>8 DEF Quiet

\* Indexes and failed builds are never taken back.
LEMMA IndexesGrow ==
  ASSUME [Next]_vars
  PROVE  index \subseteq index' /\ unindexed \subseteq unindexed'
<1>1. CASE Start \/ Finish \/ Retry \/ GiveUp \/ Bury \/ ParentDies
  BY <1>1 DEF Start, Finish, Retry, GiveUp, Bury, ParentDies, childVars, disk
<1>2. ASSUME NEW t \in Threads, ThreadStep(t)
      PROVE  index' = index /\ unindexed' = unindexed
  BY <1>2 DEF ThreadStep, Claim, Spawn, SpawnFails, PipesClosed, Deadline, Reaps,
              SettleOk, SettleKilled, SettleFailed, childVars, disk
<1>3. ASSUME NEW p \in Pids, ChildStep(p)
      PROVE  index \subseteq index' /\ unindexed \subseteq unindexed'
  BY <1>3 DEF ChildStep, OverBudget, Fetch, Fetched, Compare, CheckIndex, BuildIndex,
              BuildIndexFails, SavePair, Teardown, Fails, Crash
<1>4. CASE UNCHANGED vars
  BY <1>4 DEF vars, childVars, disk
<1> QED
  BY <1>1, <1>2, <1>3, <1>4 DEF Next, Rest

(***************************************************************************)
(* The invariant of the two stages, under a step of the diff stage.        *)
(***************************************************************************)
LEMMA DiffStepInv ==
  ASSUME HeadersInv, [Next]_vars, UNCHANGED headerVars, HeadersRunning => phase' = phase
  PROVE  HeadersInv'
<1>0. /\ IInv /\ QueueWithinTodo /\ HeadersTypeOK
      /\ headers' = headers /\ headerPairs' = headerPairs /\ oldSchema' = oldSchema
      /\ empty' = empty /\ headerRuns' = headerRuns /\ early' = early /\ unread' = unread
      /\ HeadersRunning => phase' = phase
  BY DEF HeadersInv, headerVars
<1>1. IInv' /\ QueueWithinTodo'
  BY <1>0, NextIInv, QueueWithinTodoStep
<1>2. index \subseteq index' /\ unindexed \subseteq unindexed'
  BY <1>0, IndexesGrow
<1>3. HeadersTypeOK'
  BY <1>0, <1>2 DEF HeadersTypeOK
<1>4. Exclusive' /\ DoneSoFar'
  BY <1>0 DEF HeadersInv, Exclusive, DoneSoFar, HeadersRunning, DiffIdle, Job
<1>5. ASSUME NEW j \in Jobs, Quiet(j)
      PROVE  Quiet(j)' /\ pairs'[j] = pairs[j] /\ ReadOf(j)' = ReadOf(j)
  BY <1>0, <1>5, QuietStep DEF PairLanguage, ReadOf
<1>6. SettledInv'
  <2> SUFFICES ASSUME NEW j \in Jobs \ early
               PROVE  /\ headerPairs[j].done => Quiet(j)' /\ headerPairs[j].lang \in ReadOf(j)'
                      /\ Working(j) => Quiet(j)' /\ headers.lang \in ReadOf(j)'
    BY <1>0 DEF SettledInv, Working, Job
  <2> QED
    BY <1>5 DEF HeadersInv, SettledInv
<1>7. NoSecondDownload'
  <2> SUFFICES ASSUME NEW s \in {1, 2}, InHand(BuildAt(s)), Job \notin early,
                      pairs'[Job] \in {"ok", "uncompared"}, ~Mistaken(Job)',
                      HeaderKey(s)[1] \in HasDev
               PROVE  HeaderKey(s) \in unindexed' \cup oldSchema
    BY <1>0 DEF NoSecondDownload, InHand, HeaderKey, Job
  <2>1. Job \in Jobs \ early /\ Working(Job)
    BY DEF InHand, BuildAt, Working
  <2>2. pairs'[Job] = pairs[Job]
    BY <2>1, <1>5 DEF HeadersInv, SettledInv
  <2>3. HeaderKey(s) \in unindexed \cup oldSchema
    BY <1>0, <2>2 DEF HeadersInv, NoSecondDownload, Mistaken, IndexLang, Job
  <2> QED
    BY <2>3, <1>2
<1> QED
  BY <1>1, <1>3, <1>4, <1>6, <1>7 DEF HeadersInv

(***************************************************************************)
(* Under a step of the headers stage.                                      *)
(***************************************************************************)

\* Nothing a quiet job depends on changes.
LEMMA QuietKept ==
  ASSUME DiffSees, NEW j
  PROVE  Quiet(j)' = Quiet(j) /\ PairLanguage(j)' = PairLanguage(j)
BY DEF DiffSees, Quiet, DiffIdle, PairLanguage

\* A pair that is settled when the headers stage reads it is quiet.
LEMMA SettledQuiet ==
  ASSUME HeadersInv, HeadersRunning, NEW j \in Jobs, Settled(j)
  PROVE  Quiet(j)
BY OnlyOrphans DEF HeadersInv, Exclusive, Settled, Quiet

\* A step of get_index.
SideStep(s) == GetIndex(s) \/ IndexUnreadable(s) \/ MakeIndex(s) \/ MakeIndexFails(s)

LEMMA HeadersMoveSettled ==
  ASSUME HeadersInv, HeadersMove, DiffSees
  PROVE  SettledInv'
<1>0. /\ headers \in Process /\ headerPairs \in [Jobs -> HeaderRecord]
      /\ SettledInv
  BY DEF HeadersInv, HeadersTypeOK
<1>1. ASSUME headerPairs' = headerPairs, early' = early, unread' = unread,
             \A j \in Jobs : Working(j)' => Working(j) /\ headers'.lang = headers.lang
      PROVE  SettledInv'
  BY <1>0, <1>1, QuietKept DEF SettledInv, ReadOf
<1>2. CASE ReadPair
  <2>1. /\ headerPairs' = headerPairs /\ ~headerPairs[Job].done /\ Job \in Jobs
        /\ headers'.job = Job /\ HeadersRunning
    BY <1>0, <1>2 DEF ReadPair, ReadsAs, Advance, InHand, Process, HeadersRunning, Job
  <2>l. headers'.lang \in {PairLanguage(Job)} \cup IF Job \in unread' THEN {"cxx"} ELSE {}
    BY <1>0, <1>2 DEF ReadPair, ReadsAs, Advance, Process
  <2>u. \A j \in Jobs : j # Job => (j \in unread' <=> j \in unread)
    BY <1>2 DEF ReadPair
  <2>2. \A j \in Jobs \ early' : j = Job \/ j \notin early
    BY <1>2 DEF ReadPair
  <2>3. Job \notin early' => Settled(Job)
    BY <1>2 DEF ReadPair
  <2>4. Job \notin early' => Quiet(Job)
    BY <2>1, <2>3, SettledQuiet
  <2> SUFFICES ASSUME NEW j \in Jobs \ early'
               PROVE  /\ headerPairs'[j].done =>
                            Quiet(j)' /\ headerPairs'[j].lang \in ReadOf(j)'
                      /\ Working(j)' => Quiet(j)' /\ headers'.lang \in ReadOf(j)'
    BY DEF SettledInv
  <2>5. CASE j = Job
    BY <2>1, <2>l, <2>4, <2>5, QuietKept DEF ReadOf
  <2>6. CASE j # Job
    <3>1. ~Working(j)' /\ j \in Jobs \ early
      BY <2>1, <2>2, <2>6 DEF Working, Job
    <3>2. ReadOf(j)' = ReadOf(j)
      BY <2>u, <2>6, QuietKept DEF ReadOf
    <3> QED
      BY <1>0, <2>1, <3>1, <3>2, QuietKept DEF SettledInv
  <2> QED
    BY <2>5, <2>6
<1>3. CASE SaveRecord
  <2>1. /\ Job \in Jobs /\ Working(Job) /\ early' = early /\ unread' = unread
        /\ headers'.pc = "next"
        /\ \A j \in Jobs : j # Job => headerPairs'[j] = headerPairs[j]
        /\ headerPairs'[Job].lang = headers.lang
    BY <1>0, <1>3 DEF SaveRecord, Advance, InHand, Process, Working, KeepReads
  <2>2. \A j \in Jobs : ~Working(j)'
    BY <2>1 DEF Working
  <2> SUFFICES ASSUME NEW j \in Jobs \ early, headerPairs'[j].done
               PROVE  Quiet(j)' /\ headerPairs'[j].lang \in ReadOf(j)'
    BY <2>1, <2>2 DEF SettledInv
  <2>3. ReadOf(j)' = ReadOf(j)
    BY <2>1, QuietKept DEF ReadOf
  <2> QED
    BY <1>0, <2>1, <2>3, QuietKept DEF SettledInv
<1>4. CASE StartHeaders \/ SkipJob \/ SaveRecordFails \/ HeadersComplete \/ HeadersDie
  <2>1. headerPairs' = headerPairs /\ early' = early /\ unread' = unread
    BY <1>4 DEF StartHeaders, SkipJob, SaveRecordFails, HeadersComplete, HeadersDie,
                KeepRecords, KeepReads
  <2>2. headers'.pc \in {"next", "stopped", "complete"}
    BY <1>0, <1>4 DEF StartHeaders, SkipJob, SaveRecordFails, HeadersComplete, HeadersDie,
                      Advance, Stopped, InHand, Process
  <2> QED
    BY <1>1, <2>1, <2>2 DEF Working
<1>5. ASSUME NEW s \in {1, 2}, SideStep(s)
      PROVE  SettledInv'
  <2>1. headerPairs' = headerPairs /\ early' = early /\ unread' = unread
    BY <1>5 DEF SideStep, GetIndex, IndexUnreadable, MakeIndex, MakeIndexFails, KeepRecords,
                KeepReads
  <2>2. headers.pc \in {"get1", "get2", "build1", "build2"}
    BY <1>5 DEF SideStep, GetIndex, IndexUnreadable, MakeIndex, MakeIndexFails, InHand, GetSt,
                BuildAt
  <2>3. headers'.job = Job /\ headers'.lang = headers.lang
    BY <1>0, <1>5 DEF SideStep, GetIndex, IndexUnreadable, MakeIndex, MakeIndexFails, Have,
                      Advance, Process, Job
  <2> QED
    BY <1>1, <2>1, <2>2, <2>3 DEF Working, Job
<1> QED
  BY <1>2, <1>3, <1>4, <1>5 DEF HeadersMove, HeaderStep, SideStep

LEMMA HeadersMoveDownload ==
  ASSUME HeadersInv, HeadersMove
  PROVE  NoSecondDownload'
<1>0. headers \in Process /\ IndexedBeforeRecorded /\ SettledInv
  BY DEF HeadersInv, HeadersTypeOK, IInv
<1>1. ASSUME headers'.pc \notin {"build1", "build2"}
      PROVE  NoSecondDownload'
  BY <1>1 DEF NoSecondDownload, InHand, BuildAt
<1>2. CASE StartHeaders \/ SkipJob \/ ReadPair \/ SaveRecord \/ SaveRecordFails
           \/ HeadersComplete \/ HeadersDie
  <2>1. CASE SkipJob \/ ReadPair \/ SaveRecord
    BY <1>0, <1>1, <2>1 DEF SkipJob, ReadPair, ReadsAs, SaveRecord, Advance, InHand, Process
  <2>2. CASE StartHeaders \/ SaveRecordFails \/ HeadersComplete \/ HeadersDie
    BY <1>1, <2>2 DEF StartHeaders, SaveRecordFails, HeadersComplete, HeadersDie,
                      Advance, Stopped
  <2> QED
    BY <1>2, <2>1, <2>2
<1>3. ASSUME NEW s \in {1, 2}, MakeIndex(s) \/ MakeIndexFails(s)
      PROVE  NoSecondDownload'
  <2>1. headers'.pc \notin {"build1", "build2"}
    BY <1>0, <1>3 DEF MakeIndex, MakeIndexFails, Have, Advance, AfterGet, Process
  <2> QED
    BY <1>1, <2>1
<1>4. ASSUME NEW s \in {1, 2}, GetIndex(s)
      PROVE  NoSecondDownload'
  <2>1. CASE Usable(HeaderKey(s))
    <3>1. headers'.pc \notin {"build1", "build2"}
      BY <1>0, <1>4, <2>1 DEF GetIndex, Have, Advance, AfterGet, Process
    <3> QED
      BY <1>1, <3>1
  <2>2. CASE ~Usable(HeaderKey(s))
    <3>1. /\ headers'.pc = BuildAt(s) /\ headers'.job = Job /\ headers'.lang = headers.lang
          /\ early' = early /\ unindexed' = unindexed /\ oldSchema' = oldSchema
          /\ pairs' = pairs /\ unread' = unread /\ Job \in Jobs /\ headers.pc = GetSt(s)
      BY <1>0, <1>4, <2>2 DEF GetIndex, Advance, InHand, KeepRecords, KeepReads, KeepFiles,
                              KeepDiff, Process, Job
    <3>2. \A r \in {1, 2} : headers'.pc = BuildAt(r) => r = s
      BY <3>1 DEF BuildAt
    <3> SUFFICES ASSUME Job \notin early, pairs[Job] \in {"ok", "uncompared"},
                        ~Mistaken(Job), HeaderKey(s)[1] \in HasDev
                 PROVE  HeaderKey(s) \in unindexed \cup oldSchema
      BY <3>1, <3>2 DEF NoSecondDownload, InHand, HeaderKey, Mistaken, IndexLang, Job
    <3>3. Working(Job)
      BY <3>1 DEF Working, GetSt
    <3>4. headers.lang = IndexLang(Job, pairs[Job])
      BY <1>0, <3>1, <3>3 DEF SettledInv, ReadOf, Mistaken, PairLanguage, IndexLang
    <3>5. HeaderKey(s) \in index \cup unindexed
      BY <1>0, <3>1, <3>4 DEF IndexedBeforeRecorded, HeaderKey
    <3> QED
      BY <2>2, <3>5 DEF Usable
  <2> QED
    BY <2>1, <2>2
<1>5. ASSUME NEW s \in {1, 2}, IndexUnreadable(s)
      PROVE  NoSecondDownload'
  <2>1. CASE headers'.pc \notin {"build1", "build2"}
    BY <1>1, <2>1
  <2>2. CASE headers'.pc \in {"build1", "build2"}
    <3>1. /\ headers'.pc = BuildAt(s) /\ headers'.job = Job /\ headers'.lang = headers.lang
          /\ HeaderKey(s) \in oldSchema /\ oldSchema' = oldSchema
      BY <1>0, <1>5, <2>2 DEF IndexUnreadable, Advance, KeepFiles, Process, Job
    <3>2. \A r \in {1, 2} : headers'.pc = BuildAt(r) => r = s
      BY <3>1 DEF BuildAt
    <3>3. HeaderKey(s)' = HeaderKey(s)
      BY <3>1 DEF HeaderKey, Job
    <3> QED
      BY <3>1, <3>2, <3>3 DEF NoSecondDownload, InHand
  <2> QED
    BY <2>1, <2>2
<1> QED
  BY <1>2, <1>3, <1>4, <1>5 DEF HeadersMove, HeaderStep

LEMMA HeadersMoveDone ==
  ASSUME HeadersInv, HeadersMove
  PROVE  DoneSoFar' /\ Exclusive'
<1>0. /\ headers \in Process /\ headerPairs \in [Jobs -> HeaderRecord]
      /\ DoneSoFar /\ Exclusive /\ IInv /\ HeadersTypeOK
  BY DEF HeadersInv, HeadersTypeOK
<1>1. phase' = phase
  BY <1>0, HeadersMoveEffect DEF DiffSees
<1>2. CASE StartHeaders
  <2>1. headers'.job = 1 /\ DiffIdle
    BY <1>2 DEF StartHeaders, Advance, Stopped, DiffIdle
  <2>2. \A j \in Jobs : ~(j < 1)
    BY PlanAssumption DEF Jobs
  <2> QED
    BY <1>1, <2>1, <2>2 DEF DoneSoFar, Exclusive, DiffIdle, Job
<1>3. CASE SkipJob \/ SaveRecord
  <2>0. Job \in Jobs /\ headers.pc \in {"next", "record"}
    BY <1>3 DEF SkipJob, SaveRecord, InHand
  <2>1. /\ HeadersRunning /\ headers'.job = Job + 1 /\ Job \in Jobs
        /\ headerPairs'[Job].done
        /\ \A j \in Jobs : j # Job => headerPairs'[j] = headerPairs[j]
    <3>1. headers'.job = Job + 1
      BY <1>0, <1>3 DEF SkipJob, SaveRecord, Advance, Process
    <3>2. CASE SkipJob
      BY <2>0, <3>1, <3>2 DEF SkipJob, KeepRecords, HeadersRunning
    <3>3. CASE SaveRecord
      BY <1>0, <2>0, <3>1, <3>3 DEF SaveRecord, HeadersRunning
    <3> QED
      BY <1>3, <3>2, <3>3
  <2>2. \A j \in Jobs : j < Job + 1 => j < Job \/ j = Job
    BY <2>1, PlanAssumption DEF Jobs
  <2> QED
    BY <1>0, <1>1, <2>1, <2>2 DEF DoneSoFar, Exclusive, DiffIdle, Job
<1>4. CASE SaveRecordFails \/ HeadersComplete \/ HeadersDie
  <2>1. headers'.pc \in {"stopped", "complete"}
    BY <1>4 DEF SaveRecordFails, HeadersComplete, HeadersDie, Advance, Stopped
  <2> QED
    BY <2>1 DEF DoneSoFar, Exclusive, HeadersRunning
<1>5. ASSUME HeadersRunning, headers'.job = Job, headerPairs' = headerPairs
      PROVE  DoneSoFar' /\ Exclusive'
  BY <1>0, <1>1, <1>5 DEF DoneSoFar, Exclusive, DiffIdle, Job
<1>6. CASE ReadPair
  <2>1. HeadersRunning /\ headers'.job = Job /\ headerPairs' = headerPairs
    BY <1>0, <1>6 DEF ReadPair, ReadsAs, InHand, Advance, Process, HeadersRunning, Job
  <2> QED
    BY <1>5, <2>1
<1>7. ASSUME NEW s \in {1, 2}, SideStep(s)
      PROVE  DoneSoFar' /\ Exclusive'
  <2>1. HeadersRunning /\ headers'.job = Job /\ headerPairs' = headerPairs
    BY <1>0, <1>7 DEF SideStep, GetIndex, IndexUnreadable, MakeIndex, MakeIndexFails, InHand,
                      GetSt, BuildAt, Have, Advance, Process, HeadersRunning, KeepRecords, Job
  <2> QED
    BY <1>5, <2>1
<1> QED
  BY <1>2, <1>3, <1>4, <1>6, <1>7 DEF HeadersMove, HeaderStep, SideStep

LEMMA HeadersMoveInv ==
  ASSUME HeadersInv, HeadersMove
  PROVE  HeadersInv'
<1>1. IInv /\ HeadersTypeOK /\ QueueWithinTodo
  BY DEF HeadersInv
<1>2. DiffSees /\ index' \subseteq Releases \X Langs /\ leaked' \subseteq Leaks
  BY <1>1, HeadersMoveEffect
<1>3. IInv'
  BY <1>1, <1>2, IInvSurvives
<1>4. QueueWithinTodo'
  BY <1>1, <1>2 DEF QueueWithinTodo, RangeOf, DiffSees
<1> QED
  BY <1>1, <1>2, <1>3, <1>4, HeadersTypeStep, HeadersMoveSettled, HeadersMoveDownload,
     HeadersMoveDone DEF HeadersInv

LEMMA HeadersInvInit ==
  ASSUME HeadersInit
  PROVE  HeadersInv
<1>1. Init /\ headers.pc = "stopped" /\ headerPairs = [j \in Jobs |-> NoRecord]
  BY DEF HeadersInit, Stopped
<1>2. IInv /\ HeadersTypeOK
  BY <1>1, InitIInv, HeadersTypeInit
<1>3. QueueWithinTodo
  BY <1>1 DEF Init, QueueWithinTodo, RangeOf
<1>4. Exclusive /\ DoneSoFar
  BY <1>1 DEF Exclusive, DoneSoFar, HeadersRunning
<1>5. SettledInv
  BY <1>1 DEF SettledInv, Working, NoRecord
<1>6. NoSecondDownload
  BY <1>1 DEF NoSecondDownload, InHand, BuildAt
<1> QED
  BY <1>2, <1>3, <1>4, <1>5, <1>6 DEF HeadersInv

LEMMA HeadersNextInv ==
  ASSUME HeadersInv, [HeadersNext]_allVars
  PROVE  HeadersInv'
<1>1. CASE HeadersMove
  BY <1>1, HeadersMoveInv
<1>2. CASE DiffStep
  BY <1>2, DiffStepInv DEF DiffStep
<1>3. CASE UNCHANGED allVars
  <2>1. UNCHANGED vars /\ UNCHANGED headerVars /\ phase' = phase
    BY <1>3 DEF allVars, vars, parentVars
  <2> QED
    BY <2>1, DiffStepInv
<1> QED
  BY <1>1, <1>2, <1>3 DEF HeadersNext, HeadersMove

\* The invariant of the two stages holds for every plan, whatever indexes an
\* earlier version left, and any number of runs of either stage; the diff
\* stage's own invariant is part of it.
THEOREM HeadersInvariance == HeadersSpec => []HeadersInv
<1>1. HeadersInit => HeadersInv
  BY HeadersInvInit
<1>2. HeadersInv /\ [HeadersNext]_allVars => HeadersInv'
  BY HeadersNextInv
<1> QED
  BY <1>1, <1>2, PTL DEF HeadersSpec

\* The variables of the headers stage keep their types (headers.cpp:78-124).
THEOREM HeadersTypeCorrect == HeadersSpec => []HeadersTypeOK
<1>1. HeadersInv => HeadersTypeOK
  BY DEF HeadersInv
<1> QED
  BY <1>1, HeadersInvariance, PTL

\* A header record keeps the language its pair was compared in, or is C++ for a
\* pair record that could not be loaded, through any number of runs of either
\* stage and the work of orphans (headers.cpp:62-74, diff.cpp:162-163).
THEOREM LanguagesAgree == HeadersSpec => []LanguageKept
<1>1. HeadersInv => LanguageKept
  BY DEF HeadersInv, SettledInv, LanguageKept, ReadOf, PairLanguage, IndexLang
<1> QED
  BY <1>1, HeadersInvariance, PTL

\* The headers stage downloads what the diff stage has left for it only where
\* that stage failed, the schema is the earlier one, or the record of a C pair
\* could not be loaded (headers.cpp:24-40, 62-65).
THEOREM DownloadedOnce == HeadersSpec => []NoSecondDownload
<1>1. HeadersInv => NoSecondDownload
  BY DEF HeadersInv
<1> QED
  BY <1>1, HeadersInvariance, PTL

(***************************************************************************)
(* The headers stage implements JobLedger.                                 *)
(***************************************************************************)
LEMMA HeadersLedgerSame ==
  ASSUME headerPairs' = headerPairs,
         headers'.pc = headers.pc \/ (HeadersRunning /\ HeadersRunning')
  PROVE  UNCHANGED HeadersLedger!vars
BY DEF HeadersLedger!vars, HeadersRunning

LEMMA HeadersLedgerStep ==
  ASSUME HeadersInv, [HeadersNext]_allVars
  PROVE  [HeadersLedger!Next]_(HeadersLedger!vars)
<1>0. headers \in Process /\ headerPairs \in [Jobs -> HeaderRecord] /\ DoneSoFar
  BY DEF HeadersInv, HeadersTypeOK
<1>1. CASE StartHeaders
  <2>1. ~HeadersRunning /\ HeadersRunning' /\ headerPairs' = headerPairs
    BY <1>1 DEF StartHeaders, Advance, Stopped, HeadersRunning
  <2>2. HeadersLedger!Open
    BY <2>1 DEF HeadersLedger!Open, HeadersRunning
  <2> QED
    BY <2>2 DEF HeadersLedger!Next
<1>2. CASE SaveRecord
  <2>1. PICK j \in Jobs : j = Job
    BY <1>2 DEF SaveRecord, InHand
  <2>2. /\ HeadersRunning /\ HeadersRunning' /\ headerPairs'[j].done
        /\ \A i \in Jobs : i # j => headerPairs'[i] = headerPairs[i]
    BY <1>0, <1>2, <2>1 DEF SaveRecord, Advance, InHand, Process, HeadersRunning
  <2>3. {i \in Jobs : headerPairs'[i].done} = {i \in Jobs : headerPairs[i].done} \cup {j}
    BY <2>2
  <2>4. HeadersLedger!Enter(j)
    BY <2>2, <2>3 DEF HeadersLedger!Enter
  <2> QED
    BY <2>4 DEF HeadersLedger!Next
<1>3. CASE HeadersComplete
  <2>1. /\ HeadersRunning /\ headers'.pc = "complete" /\ ~HeadersRunning'
        /\ headerPairs' = headerPairs /\ Job = NumJobs + 1
    BY <1>3 DEF HeadersComplete, Advance, Stopped, HeadersRunning, KeepRecords
  <2>2. \A j \in Jobs : j < Job
    BY <2>1, PlanAssumption DEF Jobs
  <2>3. \A j \in Jobs : headerPairs[j].done
    BY <1>0, <2>1, <2>2 DEF DoneSoFar
  <2>4. HeadersLedger!Close
    BY <2>1, <2>3 DEF HeadersLedger!Close
  <2> QED
    BY <2>4 DEF HeadersLedger!Next
<1>4. CASE SaveRecordFails \/ HeadersDie
  <2>1. /\ HeadersRunning /\ headers'.pc = "stopped" /\ ~HeadersRunning'
        /\ headerPairs' = headerPairs
    BY <1>4 DEF SaveRecordFails, HeadersDie, Advance, Stopped, HeadersRunning, InHand, KeepRecords
  <2>2. HeadersLedger!Break
    BY <2>1 DEF HeadersLedger!Break
  <2> QED
    BY <2>2 DEF HeadersLedger!Next
<1>5. CASE SkipJob \/ ReadPair
  <2>1. HeadersRunning /\ HeadersRunning' /\ headerPairs' = headerPairs
    BY <1>0, <1>5 DEF SkipJob, ReadPair, ReadsAs, InHand, Advance, Process, HeadersRunning,
                      KeepRecords
  <2> QED
    BY <2>1, HeadersLedgerSame
<1>6. ASSUME NEW s \in {1, 2}, SideStep(s)
      PROVE  UNCHANGED HeadersLedger!vars
  <2>1. HeadersRunning /\ HeadersRunning' /\ headerPairs' = headerPairs
    BY <1>0, <1>6 DEF SideStep, GetIndex, IndexUnreadable, MakeIndex, MakeIndexFails, InHand,
                      GetSt, BuildAt, Have, AfterGet, Advance, Process, HeadersRunning,
                      KeepRecords
  <2> QED
    BY <2>1, HeadersLedgerSame
<1>7. CASE DiffStep \/ UNCHANGED allVars
  <2>1. headers' = headers /\ headerPairs' = headerPairs
    BY <1>7 DEF DiffStep, allVars, headerVars
  <2> QED
    BY <2>1, HeadersLedgerSame
<1> QED
  BY <1>1, <1>2, <1>3, <1>4, <1>5, <1>6, <1>7 DEF HeadersNext, HeaderStep, SideStep

\* The headers stage implements its abstract specification: header records
\* only grow and "complete" is reported over a full ledger, whatever runs of
\* either stage were interrupted (stages.hpp:127-137, headers.cpp:78-124).
THEOREM HeadersImplement == HeadersSpec => HeadersImplementLedger
<1>1. HeadersInit => HeadersLedger!Init
  BY DEF HeadersInit, HeadersLedger!Init, Stopped, NoRecord, HeadersRunning
<1>2. HeadersInv /\ [HeadersNext]_allVars => [HeadersLedger!Next]_(HeadersLedger!vars)
  BY HeadersLedgerStep
<1> QED
  BY <1>1, <1>2, HeadersInvariance, PTL
  DEF HeadersSpec, HeadersImplementLedger, HeadersLedger!Spec
==============================================================================
