------------------------------ MODULE DiffStage ------------------------------
(***************************************************************************)
(* The diff stage, run_diff: a parent process whose worker threads take    *)
(* jobs from a shared counter, run one child (module DiffChild) at a time  *)
(* under a deadline (proc::run), and settle what became of it; then one    *)
(* retry, alone, of the jobs whose child was killed by a signal; then a    *)
(* failure record for those killed again.  The parent itself may be killed *)
(* at any point and the stage started again on the same directory.         *)
(***************************************************************************)
EXTENDS DiffChild

CONSTANTS
  Workers,      \* DiffOptions::workers, the --workers option
  Threads,      \* the threads of the pool, max(1, workers) of them
  MaxRuns       \* bound: how often the stage is started on this directory

ASSUME PoolAssumption ==
  /\ Workers \in Nat
  /\ IsFiniteSet(Threads)
  /\ Cardinality(Threads) = IF Workers > 1 THEN Workers ELSE 1
  /\ MaxRuns \in Nat

VARIABLES
  phase,        \* where run_diff is
  queue,        \* the jobs of the running pass
  next,         \* the pass's shared counter, 1-based
  killed,       \* jobs whose child was killed by a signal, in order
  thread,       \* worker thread |-> what it is doing
  runs,         \* times the stage was started
  todo,         \* history: jobs without a result when this run started
  deaths,       \* history: children of the job this run saw killed
  dropped       \* history: jobs this run let go without a record

parentVars == <<phase, queue, next, killed, thread, runs, todo, deaths, dropped>>
vars == <<parentVars, childVars>>

Phases == {"stopped", "pass", "retry", "bury", "complete"}
ThreadPcs == {"claim", "spawn", "wait", "settle", "done"}

Idle == [pc |-> "done", job |-> 0, pid |-> 0, timedOut |-> FALSE]
Claiming == [pc |-> "claim", job |-> 0, pid |-> 0, timedOut |-> FALSE]

Thread == [pc : ThreadPcs, job : 0 .. NumJobs, pid : Pids \cup {0}, timedOut : BOOLEAN]

RangeOf(s) == {s[k] : k \in DOMAIN s}
Distinct(s) == \A a, b \in DOMAIN s : s[a] = s[b] => a = b

TypeOK ==
  /\ ChildTypeOK
  /\ phase \in Phases
  /\ queue \in Seq(Jobs)
  /\ next \in Nat \ {0}
  /\ killed \in Seq(Jobs)
  /\ thread \in [Threads -> Thread]
  /\ runs \in Nat
  /\ todo \subseteq Jobs
  /\ deaths \in [Jobs -> 0 .. 2]
  /\ dropped \subseteq Jobs

Init ==
  /\ ChildInit
  /\ phase = "stopped"
  /\ queue = <<>>
  /\ next = 1
  /\ killed = <<>>
  /\ thread = [t \in Threads |-> Idle]
  /\ runs = 0
  /\ todo = {}
  /\ deaths = [j \in Jobs |-> 0]
  /\ dropped = {}
------------------------------------------------------------------------------
(***************************************************************************)
(* Starting a run and its passes.                                          *)
(***************************************************************************)

\* The jobs with no pair file, in plan order.
Unrecorded == {j \in Jobs : pairs[j] = "none"}
\* (Seeded fault: the test for an existing pair file is gone.)
WholePlan(s, S) ==
  /\ RangeOf(s) = Jobs
  /\ \A a, b \in DOMAIN s : a < b => s[a] < s[b]

InPlanOrder(s, S) ==
  /\ RangeOf(s) = S
  /\ \A a, b \in DOMAIN s : a < b => s[a] < s[b]

\* pass(): a fresh counter, no kills yet, and a pool of threads.
BeginPass(jobs, pool) ==
  /\ queue' = jobs
  /\ next' = 1
  /\ killed' = <<>>
  /\ thread' = [t \in Threads |-> IF t \in pool THEN Claiming ELSE Idle]

Start ==
  /\ phase \in {"stopped", "complete"}
  /\ runs < MaxRuns
  /\ runs' = runs + 1
  /\ \E n \in 0 .. NumJobs : \E s \in [1 .. n -> Jobs] :
       InPlanOrder(s, Unrecorded) /\ BeginPass(s, Threads)
  /\ phase' = "pass"
  /\ todo' = Unrecorded
  /\ deaths' = [j \in Jobs |-> IF j \in Unrecorded THEN 0 ELSE deaths[j]]
  /\ dropped' = {}
  /\ UNCHANGED childVars

Joined == \A t \in Threads : thread[t].pc = "done"

\* Every thread of the pool has been joined and no killed job is left.
Finish ==
  /\ phase \in {"pass", "retry", "bury"} /\ Joined
  /\ killed = <<>>
  /\ phase' = "complete"
  /\ UNCHANGED <<queue, next, killed, thread, runs, todo, deaths, dropped, childVars>>

\* One more pass over the killed jobs, with a pool of one thread.  A run with
\* a single worker had them alone already.
\* (Seeded faults: the killed jobs of the retry are retried in their turn; the
\* retry runs in the whole pool.)
RetryAgain ==
  /\ phase \in {"pass", "retry"} /\ Joined
  /\ killed # <<>> /\ Workers > 1
  /\ phase' = "retry"
  /\ \E t \in Threads : BeginPass(killed, {t})
  /\ UNCHANGED <<runs, todo, deaths, dropped, childVars>>

RetryPooled ==
  /\ phase = "pass" /\ Joined
  /\ killed # <<>> /\ Workers > 1
  /\ phase' = "retry"
  /\ BeginPass(killed, Threads)
  /\ UNCHANGED <<runs, todo, deaths, dropped, childVars>>

Retry ==
  /\ phase = "pass" /\ Joined
  /\ killed # <<>> /\ Workers > 1
  /\ phase' = "retry"
  /\ \E t \in Threads : BeginPass(killed, {t})
  /\ UNCHANGED <<runs, todo, deaths, dropped, childVars>>

\* (Seeded fault: the records are written without a retry.)
GiveUpAtOnce ==
  /\ Joined
  /\ killed # <<>>
  /\ phase \in {"pass", "retry"}
  /\ phase' = "bury"
  /\ UNCHANGED <<queue, next, killed, thread, runs, todo, deaths, dropped, childVars>>

GiveUp ==
  /\ Joined
  /\ killed # <<>>
  /\ phase = "retry" \/ (phase = "pass" /\ Workers <= 1)
  /\ phase' = "bury"
  /\ UNCHANGED <<queue, next, killed, thread, runs, todo, deaths, dropped, childVars>>

\* The result of save_artifact is discarded: a job whose record could not be
\* written is let go without one.
Record(j, what) ==
  \/ /\ pairs' = [pairs EXCEPT ![j] = what]
     /\ UNCHANGED dropped
  \/ /\ dropped' = dropped \cup {j}
     /\ UNCHANGED pairs

\* The closing loop: "killed by signal twice" for each of them, one by one.
Bury ==
  /\ phase = "bury" /\ killed # <<>>
  /\ Record(Head(killed), "killed")
  /\ killed' = Tail(killed)
  /\ UNCHANGED <<phase, queue, next, thread, runs, todo, deaths,
                 index, unindexed, child, orphans, leaked>>
------------------------------------------------------------------------------
(***************************************************************************)
(* One worker thread.                                                      *)
(***************************************************************************)
Set(t, th) == thread' = [thread EXCEPT ![t] = th]
KeepPasses == UNCHANGED <<phase, queue, runs, todo>>

\* next.fetch_add(1), and out of the loop at the end of the queue.
\* (Seeded faults: a counter read and not advanced; the last job never taken.)
ClaimUnsynchronised(t) ==
  /\ thread[t].pc = "claim"
  /\ \E n \in {next, next + 1} :
       /\ next' = n
       /\ IF next > Len(queue)
          THEN Set(t, Idle)
          ELSE Set(t, [thread[t] EXCEPT !.pc = "spawn", !.job = queue[next]])
  /\ KeepPasses /\ UNCHANGED <<killed, deaths, dropped, childVars>>

ClaimShort(t) ==
  /\ thread[t].pc = "claim"
  /\ next' = next + 1
  /\ IF next >= Len(queue)
     THEN Set(t, Idle)
     ELSE Set(t, [thread[t] EXCEPT !.pc = "spawn", !.job = queue[next]])
  /\ KeepPasses /\ UNCHANGED <<killed, deaths, dropped, childVars>>

Claim(t) ==
  /\ thread[t].pc = "claim"
  /\ next' = next + 1
  /\ IF next > Len(queue)
     THEN Set(t, Idle)
     ELSE Set(t, [thread[t] EXCEPT !.pc = "spawn", !.job = queue[next]])
  /\ KeepPasses /\ UNCHANGED <<killed, deaths, dropped, childVars>>

Spawn(t) ==
  /\ thread[t].pc = "spawn"
  /\ \E p \in Pids :
       /\ child[p].st = "free"
       /\ child' = [child EXCEPT ![p] = Spawned(thread[t].job)]
       /\ Set(t, [thread[t] EXCEPT !.pc = "wait", !.pid = p])
  /\ KeepPasses /\ UNCHANGED <<next, killed, deaths, dropped, disk, orphans>>

\* pipe2 or posix_spawnp failed: one log line, and on to the next job.
SpawnFails(t) ==
  /\ thread[t].pc = "spawn"
  /\ Set(t, Claiming)
  /\ dropped' = dropped \cup {thread[t].job}
  /\ KeepPasses /\ UNCHANGED <<next, killed, deaths, childVars>>

\* The poll loop ends when both pipes are at their end: the child is gone.
PipesClosed(t) ==
  /\ thread[t].pc = "wait"
  /\ child[thread[t].pid].st \in Zombie
  /\ Set(t, [thread[t] EXCEPT !.pc = "settle"])
  /\ KeepPasses /\ UNCHANGED <<next, killed, deaths, dropped, childVars>>

\* The deadline is looked at before the pipes are: SIGKILL, whatever the
\* child has done so far, and timed_out says so for good.
Deadline(t) ==
  /\ thread[t].pc = "wait"
  /\ Set(t, [thread[t] EXCEPT !.pc = "settle", !.timedOut = TRUE])
  /\ IF Alive(thread[t].pid) THEN Dies(thread[t].pid)
     ELSE UNCHANGED <<child, orphans, leaked>>
  /\ KeepPasses /\ UNCHANGED <<next, killed, deaths, dropped, pairs, index, unindexed>>

\* waitpid has returned; under the lock the thread sorts out what it got.
Reaps(t) ==
  /\ child' = [child EXCEPT ![thread[t].pid] = NoChild]
  /\ Set(t, Claiming)
  /\ KeepPasses /\ UNCHANGED <<next, index, unindexed, leaked, orphans>>

Status(t) == child[thread[t].pid].st

SettleOk(t) ==
  /\ thread[t].pc = "settle"
  /\ ~thread[t].timedOut /\ Status(t) = "exited0"
  /\ Reaps(t)
  /\ UNCHANGED <<killed, deaths, dropped, pairs>>

\* (Seeded fault: a killed job is logged and not put on the retry list.)
SettleKilledLost(t) ==
  /\ thread[t].pc = "settle"
  /\ ~thread[t].timedOut /\ Status(t) = "signalled"
  /\ Reaps(t)
  /\ deaths' = [deaths EXCEPT ![thread[t].job] = IF @ < 2 THEN @ + 1 ELSE @]
  /\ UNCHANGED <<killed, dropped, pairs>>

SettleKilled(t) ==
  /\ thread[t].pc = "settle"
  /\ ~thread[t].timedOut /\ Status(t) = "signalled"
  /\ Reaps(t)
  /\ killed' = Append(killed, thread[t].job)
  /\ deaths' = [deaths EXCEPT ![thread[t].job] = IF @ < 2 THEN @ + 1 ELSE @]
  /\ UNCHANGED <<dropped, pairs>>

SettleFailed(t) ==
  /\ thread[t].pc = "settle"
  /\ thread[t].timedOut \/ Status(t) = "exited1"
  /\ Reaps(t)
  /\ Record(thread[t].job, IF thread[t].timedOut THEN "timeout" ELSE "exit")
  /\ UNCHANGED <<killed, deaths>>
------------------------------------------------------------------------------
\* The parent is killed, or the machine loses it: what it knew is gone, its
\* zombies are reaped by init, its living children run on as orphans.
ParentDies ==
  /\ phase \notin {"stopped", "complete"}
  /\ phase' = "stopped"
  /\ thread' = [t \in Threads |-> Idle]
  /\ child' = [p \in Pids |-> IF Alive(p) THEN child[p] ELSE NoChild]
  /\ orphans' = {p \in Pids : Alive(p)}
  /\ queue' = <<>> /\ next' = 1 /\ killed' = <<>>
  /\ UNCHANGED <<runs, todo, deaths, dropped, disk>>

ThreadStep(t) ==
  \/ Claim(t) \/ Spawn(t) \/ SpawnFails(t)
  \/ PipesClosed(t) \/ Deadline(t)
  \/ SettleOk(t) \/ SettleKilled(t) \/ SettleFailed(t)

\* run_diff has returned or its process is dead, and no child is left.
Rest ==
  /\ phase \in {"stopped", "complete"}
  /\ \A p \in Pids : child[p].st = "free"
  /\ UNCHANGED vars

Next ==
  \/ Start \/ Finish \/ Retry \/ GiveUp \/ Bury
  \/ \E t \in Threads : ThreadStep(t)
  \/ \E p \in Pids : ChildStep(p) /\ UNCHANGED parentVars
  \/ ParentDies
  \/ Rest

Spec == Init /\ [][Next]_vars

\* The parent's own threads are scheduled, and poll wakes at the latest when
\* the deadline has passed.  Nothing is assumed of a child: it may hang.
Fairness ==
  /\ WF_vars(Finish) /\ WF_vars(Retry) /\ WF_vars(GiveUp) /\ WF_vars(Bury)
  /\ \A t \in Threads : WF_vars(ThreadStep(t))

FairSpec == Spec /\ Fairness
------------------------------------------------------------------------------
(***************************************************************************)
(* What the stage promises.                                                *)
(***************************************************************************)
Holds(t) == thread[t].pc \in {"spawn", "wait", "settle"}

\* The threads share one counter and one retry list; still no job is ever in
\* the hands of two of them, in the pass or in the retry (diff.cpp:198-277).
OneThreadPerJob ==
  \A t, u \in Threads :
    t # u /\ Holds(t) /\ Holds(u) => thread[t].job # thread[u].job

\* A job killed for want of memory gets its second chance alone: during the
\* retry at most one child of this run is alive (diff.cpp:281-286).
RetryAlone ==
  phase = "retry" =>
    \A p, q \in Pids \ orphans : Alive(p) /\ Alive(q) => p = q

\* With more than one worker, the record "killed by signal twice" says what
\* happened: the run that wrote it saw two children of the job killed, the
\* second of them in the retry (diff.cpp:240-249, 279-303).
KilledTwice ==
  Workers > 1 => \A j \in Jobs : pairs[j] = "killed" => deaths[j] = 2

\* When the stage says it is complete every job has a pair file, but for
\* those it let go after a failed spawn or a failed write: none is lost
\* between the queue, the threads and the retry list (diff.cpp:178-307).
EveryJobAccounted ==
  phase = "complete" => \A j \in Jobs : pairs[j] # "none" \/ j \in dropped

\* A result that existed when the run started is left alone by it: only a
\* child of an earlier, dead parent can still replace it (diff.cpp:183-189).
KeepsExisting ==
  [][\A j \in Jobs \ todo :
       pairs'[j] # pairs[j] /\ phase # "stopped"
         => \E p \in orphans : child[p].job = j /\ At(p, "save")]_vars

\* Both header indexes of a compared pair are on disk, in the language the
\* headers stage will ask for, before its pair file is; a pair that is never
\* compared again would otherwise never leave them (diff.cpp:162-174).
IndexedBeforeRecorded ==
  \A j \in Jobs : pairs[j] \in {"ok", "uncompared"} =>
    \A s \in {1, 2} :
      LET key == <<SideOf(s)[j], IndexLang(j, pairs[j])>>
      IN key \in index \cup unindexed \/ key[1] \notin HasDev

\* Scratch directories nobody tried to remove outlive a first, uninterrupted
\* run only for jobs a child of which was killed, by a signal or at its
\* deadline: every other way out of diff_one at least attempts the removal
\* (diff.cpp:89-100, fs.cpp:119-132, METHODOLOGY.md:305-306).
LeaksExplained ==
  phase = "complete" /\ runs = 1 =>
    \A j \in Jobs : <<j, "abandoned">> \in leaked =>
      deaths[j] > 0 \/ pairs[j] = "timeout" \/ j \in dropped

\* A started run ends, even if every child hangs, in a request without a time
\* limit for one (client.cpp:177-187): the deadline frees each thread, and the
\* jobs killed in the retry are not retried (diff.cpp:198-307,
\* process.cpp:83-103).
StageEnds == phase = "pass" ~> phase \in {"complete", "stopped"}

\* The stage implements JobLedger: the recorded jobs only grow, also through
\* the death of the parent and the writes of orphans, and completion is
\* reported only over a full ledger (stages.hpp:6-8, diff.cpp:178-307).
Ledger == INSTANCE JobLedger WITH
  stage <- IF phase \in {"stopped", "complete"} THEN phase ELSE "running",
  recorded <- {j \in Jobs : pairs[j] # "none"},
  waived <- dropped

ImplementsLedger == Ledger!Spec
------------------------------------------------------------------------------
(***************************************************************************)
(* Why the promises hold: an inductive invariant, proved in                *)
(* StageProofs and checked by TLC as IInv.                             *)
(***************************************************************************)
HasChild(t) == thread[t].pc \in {"wait", "settle"}

\* A thread that waits has a child of its own, working on the thread's job.
WaitingInv ==
  \A t \in Threads : HasChild(t) =>
    /\ thread[t].pid \in Pids \ orphans
    /\ child[thread[t].pid].st # "free"
    /\ child[thread[t].pid].job = thread[t].job

OwnersDistinct ==
  \A t, u \in Threads :
    HasChild(t) /\ HasChild(u) /\ thread[t].pid = thread[u].pid => t = u

ChildrenOwned ==
  \A p \in Pids \ orphans : child[p].st # "free" =>
    \E t \in Threads : HasChild(t) /\ thread[t].pid = p

OrphansAlive == \A p \in orphans : Alive(p)

\* What the threads hold and what was killed has been claimed from the queue,
\* each job by one of them; the queue names no job twice.
Claimed(j) == \E k \in DOMAIN queue : k < next /\ queue[k] = j
Unclaimed(j) == \E k \in DOMAIN queue : k >= next /\ queue[k] = j
Held(j) == \E t \in Threads : Holds(t) /\ thread[t].job = j

QueueInv ==
  /\ Distinct(queue) /\ Distinct(killed)
  /\ \A j \in RangeOf(killed) : Claimed(j)
  /\ \A t \in Threads : Holds(t) => /\ Claimed(thread[t].job)
                                    /\ thread[t].job \notin RangeOf(killed)

\* The threads that exist in each phase; a pool is joined only at the end of
\* its queue.
PoolInv ==
  /\ phase \in {"stopped", "bury", "complete"} => Joined
  /\ phase = "retry" =>
       \A t, u \in Threads : thread[t].pc # "done" /\ thread[u].pc # "done" => t = u
  /\ phase # "stopped" /\ Joined => next > Len(queue)
  /\ phase = "complete" => killed = <<>>

\* A child that exits with status 0 has left a pair file.
CommittedInv ==
  \A p \in Pids : child[p].st \in {"teardown", "exited0"} => pairs[child[p].job] # "none"

\* A child that indexes headers has compared its pair, one that saves has a
\* result, and it has seen to both indexes of a compared pair by then.
Indexed(p, s) == Key(p, s) \in index \cup unindexed \/ Key(p, s)[1] \notin HasDev

ChildInv ==
  \A p \in Pids :
    /\ child[p].st \in {"index1", "build1", "index2", "build2"}
         => child[p].out \in {"ok", "uncompared"}
    /\ At(p, "save") => child[p].out \in ChildResults
    /\ child[p].st \in {"index2", "build2"} => Indexed(p, 1)
    /\ At(p, "save") /\ child[p].out # "skipped" => Indexed(p, 1) /\ Indexed(p, 2)

\* A run has in hand only jobs that had no record when it started.
QueueWithinTodo == RangeOf(queue) \subseteq todo

\* No job without a record is forgotten.
AccountedInv ==
  phase # "stopped" =>
    \A j \in Jobs : pairs[j] = "none" /\ j \notin dropped =>
      Unclaimed(j) \/ Held(j) \/ j \in RangeOf(killed)

\* How many deaths put a job on the retry list of each pass.
DeathsInv ==
  /\ phase = "pass" => \A j \in RangeOf(killed) : deaths[j] >= 1
  /\ phase = "retry" => \A j \in RangeOf(queue) : deaths[j] >= 1
  /\ phase \in {"retry", "bury"} /\ Workers > 1 => \A j \in RangeOf(killed) : deaths[j] = 2

IInv ==
  /\ TypeOK
  /\ WaitingInv /\ OwnersDistinct /\ ChildrenOwned /\ OrphansAlive
  /\ QueueInv /\ PoolInv /\ OneThreadPerJob
  /\ CommittedInv /\ ChildInv /\ IndexedBeforeRecorded /\ AccountedInv
  /\ DeathsInv /\ KilledTwice

\* The child of job j is dead, and its thread has yet to settle that.
Dying(j) ==
  \E t \in Threads :
    /\ HasChild(t) /\ thread[t].job = j
    /\ \/ child[thread[t].pid].st = "signalled"
       \/ thread[t].pc = "settle" /\ thread[t].timedOut

\* No thread has job j in hand, nor will one in this pass.
PastHands(j) == ~Unclaimed(j) /\ ~Held(j)

\* Before the first parent has died, every job that abandoned scratch has a
\* death counted, a record of its own, or a child that is about to be settled.
LeakInv ==
  /\ \A t \in Threads : thread[t].pc = "settle" => child[thread[t].pid].st \in Zombie
  /\ \A j \in RangeOf(killed) : deaths[j] > 0
  /\ runs = 0 => phase = "stopped" /\ orphans = {} /\ leaked = {}
  /\ runs = 1 /\ phase # "stopped" =>
       /\ orphans = {}
       /\ \A j \in Jobs : <<j, "abandoned">> \in leaked =>
            \/ Dying(j)
            \/ deaths[j] > 0
            \/ PastHands(j) /\ (pairs[j] = "timeout" \/ j \in dropped)
------------------------------------------------------------------------------
(***************************************************************************)
(* What the documentation says and the code does not do.                   *)
(***************************************************************************)

\* stages.hpp: "results that already exist are kept".  A child that is
\* killed at its deadline after it has written its result loses it.
ResultsAreKept ==
  [][\A j \in Jobs : pairs[j] = "ok" => pairs'[j] = "ok"]_vars
==============================================================================
