------------------------------ MODULE DiffChild ------------------------------
(***************************************************************************)
(* One child process of the diff stage: `abistudy diff --work W --one i`,  *)
(* which runs diff_one on the i-th job of plan.json and leaves its result  *)
(* in the study directory.  The directory is the only thing children share *)
(* with each other and with the parent (module DiffStage):                 *)
(*                                                                         *)
(*   pairs      pairs/<id>.json, one file per job                          *)
(*   index      headers/index/<src>@<version>.<lang>.json, one per release *)
(*              and language; the two jobs on either side of a release     *)
(*              share its file                                             *)
(*   scratch    mkdtemp directories, held by `child[p].dirs'; `leaked' has *)
(*              the jobs a child of which left some behind, and why        *)
(*                                                                         *)
(* Files appear by rename (write_file_atomic), so a reader sees an old     *)
(* file or a new one and never a part of one.                              *)
(***************************************************************************)
EXTENDS Integers, FiniteSets, Sequences

CONSTANTS
  NumJobs,      \* plan.jobs.size()
  Pids,         \* process ids the kernel may hand out
  Releases,     \* releases of the source package, shared by adjacent jobs
  V1, V2,       \* job |-> its older and its newer release
  PairLang,     \* job |-> language abi::compare reports, "cxx" with nothing to pair
  HasDev,       \* releases whose -dev tree has an include root
  OldIndexes,   \* index files an earlier version of the tool left behind
  Stuck         \* jobs whose scratch the file system may refuse to remove

Jobs == 1 .. NumJobs
Langs == {"c", "cxx"}

ASSUME PlanAssumption ==
  /\ NumJobs \in Nat \ {0}
  /\ V1 \in [Jobs -> Releases]
  /\ V2 \in [Jobs -> Releases]
  /\ PairLang \in [Jobs -> Langs]
  /\ HasDev \subseteq Releases
  /\ OldIndexes \subseteq HasDev \X Langs
  /\ Stuck \subseteq Jobs

VARIABLES
  pairs,        \* job |-> what its pair file says, "none" if there is none
  index,        \* header indexes on disk
  unindexed,    \* history: indexes some build of which has failed
  child,        \* process id |-> the process, if there is one
  orphans,      \* children whose parent has died
  leaked        \* scratch directories no living process owns

disk == <<pairs, index, unindexed, leaked>>
childVars == <<disk, child, orphans>>

(***************************************************************************)
(* A pair file is the work of a child ("ok", "skipped" over the memory     *)
(* budget, "uncompared" when every object failed) or a failure record the  *)
(* parent wrote in its stead.                                              *)
(***************************************************************************)
ChildResults == {"ok", "skipped", "uncompared"}
FailureRecords == {"timeout", "exit", "killed"}
PairFiles == {"none"} \cup ChildResults \cup FailureRecords

Stages == {"boot", "fetch1", "fetch2", "compare", "index1", "build1",
           "index2", "build2", "save", "teardown"}

\* A job's scratch directory stays when its process ends without running the
\* destructor ("abandoned"), or when ~TempDir could not remove it and dropped
\* the error ("unremoved").
Leaks == Jobs \X {"abandoned", "unremoved"}

NoChild == [st |-> "free", job |-> 0, out |-> "none", dirs |-> 0]

\* "exited0" and "exited1" are zombies with that exit status (1 stands for
\* every non-zero one), "signalled" is a zombie killed by a signal.
Zombie == {"exited0", "exited1", "signalled"}
Child == [st : Stages \cup Zombie \cup {"free"}, job : 0 .. NumJobs,
          out : {"none"} \cup ChildResults, dirs : 0 .. 2]

Alive(p) == child[p].st \in Stages

\* DiffOptions::index_headers.  The command line run_diff gives a child is
\* `diff --work W --one i' and nothing else, so a child has the default.
IndexHeaders == TRUE

\* The language diff_one indexes headers in: C++ when no object said better.
IndexLang(j, out) == IF out = "ok" THEN PairLang[j] ELSE "cxx"

ChildTypeOK ==
  /\ pairs \in [Jobs -> PairFiles]
  /\ index \subseteq Releases \X Langs
  /\ unindexed \subseteq Releases \X Langs
  /\ child \in [Pids -> Child]
  /\ \A p \in Pids : child[p].st # "free" => child[p].job \in Jobs
  /\ orphans \subseteq Pids
  /\ leaked \subseteq Leaks

ChildInit ==
  /\ pairs = [j \in Jobs |-> "none"]
  /\ index = OldIndexes
  /\ unindexed = {}
  /\ child = [p \in Pids |-> NoChild]
  /\ orphans = {}
  /\ leaked = {}
------------------------------------------------------------------------------
\* posix_spawnp: the process exists, on a plan it has yet to read.
Spawned(j) == [st |-> "boot", job |-> j, out |-> "none", dirs |-> 0]

\* A process ends.  It stays a zombie until its parent waits for it; an
\* orphan is reaped by init at once.
Ends(p, how) ==
  IF p \in orphans
  THEN /\ child' = [child EXCEPT ![p] = NoChild]
       /\ orphans' = orphans \ {p}
  ELSE /\ child' = [child EXCEPT ![p] = [@ EXCEPT !.st = how, !.dirs = 0]]
       /\ UNCHANGED orphans

LeavesScratch(p, why) ==
  leaked' = IF child[p].dirs > 0 THEN leaked \cup {<<child[p].job, why>>} ELSE leaked

\* Returning from main runs the TempDir destructors first.
\* (Seeded fault: std::exit instead of a return.)
ExitsAbruptly(p, how) == Ends(p, how) /\ LeavesScratch(p, "abandoned")

Exits(p, how) ==
  /\ Ends(p, how)
  /\ \/ UNCHANGED leaked
     \/ child[p].job \in Stuck /\ LeavesScratch(p, "unremoved")

\* A signal runs no destructor: the scratch directories stay.
Dies(p) == Ends(p, "signalled") /\ LeavesScratch(p, "abandoned")

Becomes(p, st, out, dirs) ==
  /\ child' = [child EXCEPT ![p] = [@ EXCEPT !.st = st, !.out = out, !.dirs = dirs]]
  /\ UNCHANGED <<orphans, leaked>>

\* A line on stderr, then on to stage st.  The parent held the only reading
\* end of that pipe, so an orphan is killed by SIGPIPE here.
LogsThen(p, st, out) ==
  IF p \in orphans THEN Dies(p) ELSE Becomes(p, st, out, child[p].dirs)

At(p, st) == child[p].st = st
Fresh(p) == child[p].out
------------------------------------------------------------------------------
(***************************************************************************)
(* diff_one, step by step.                                                 *)
(***************************************************************************)

\* The HEAD budget, sizes estimated over the network, is looked at first: a
\* pair over it goes straight to its record.
OverBudget(p) ==
  /\ At(p, "boot")
  /\ Becomes(p, "save", "skipped", 0)
  /\ UNCHANGED <<pairs, index, unindexed>>

\* materialize for v1, then for v2: each creates its scratch directory first.
Fetch(p) ==
  \/ /\ At(p, "boot")
     /\ Becomes(p, "fetch1", "none", 1)
     /\ UNCHANGED <<pairs, index, unindexed>>
  \/ /\ At(p, "fetch1")
     /\ Becomes(p, "fetch2", "none", 2)
     /\ UNCHANGED <<pairs, index, unindexed>>

\* Both trees are there: too large to read, or on to the comparison with a
\* log line first.
Fetched(p) ==
  /\ At(p, "fetch2")
  /\ \/ Becomes(p, "save", "skipped", 2)
     \/ LogsThen(p, "compare", "none")
  /\ UNCHANGED <<pairs, index, unindexed>>

\* abi::compare on every paired object, then a line for each.  With nothing
\* to pair there is no line and no language.  The result is an error only if
\* none of the pairs could be compared.
Compare(p) ==
  /\ At(p, "compare")
  /\ LET then == IF IndexHeaders THEN "index1" ELSE "save"
     IN \/ PairLang[child[p].job] = "cxx" /\ Becomes(p, then, "ok", 2)
        \/ \E out \in {"ok", "uncompared"} : LogsThen(p, then, out)
  /\ UNCHANGED <<pairs, index, unindexed>>

\* ensure_header_index for the release of side s: nothing to do if the file
\* exists or there are no headers, else a build that another child sharing
\* the release may be running as well.
SideOf(s) == IF s = 1 THEN V1 ELSE V2
Key(p, s) == <<SideOf(s)[child[p].job], IndexLang(child[p].job, child[p].out)>>
IndexSt(s) == IF s = 1 THEN "index1" ELSE "index2"
BuildSt(s) == IF s = 1 THEN "build1" ELSE "build2"
\* (Seeded fault: the newer release is left to the next pair.)
AfterFirstIndex(s) == "save"

AfterIndex(s) == IF s = 1 THEN "index2" ELSE "save"

CheckIndex(p, s) ==
  /\ At(p, IndexSt(s))
  /\ IF Key(p, s) \in index \/ Key(p, s)[1] \notin HasDev
     THEN Becomes(p, AfterIndex(s), Fresh(p), 2)
     ELSE Becomes(p, BuildSt(s), Fresh(p), 2)
  /\ UNCHANGED <<pairs, index, unindexed>>

\* hdr::index succeeded: one line on stderr, then the file is renamed in.
BuildIndex(p, s) ==
  /\ At(p, BuildSt(s))
  /\ IF p \in orphans
     THEN Dies(p) /\ UNCHANGED index
     ELSE Becomes(p, AfterIndex(s), Fresh(p), 2) /\ index' = index \cup {Key(p, s)}
  /\ UNCHANGED <<pairs, unindexed>>

\* hdr::index or the write failed: logged, and the pair goes on without.
BuildIndexFails(p, s) ==
  /\ At(p, BuildSt(s))
  /\ LogsThen(p, AfterIndex(s), Fresh(p))
  /\ unindexed' = unindexed \cup {Key(p, s)}
  /\ UNCHANGED <<pairs, index>>

\* save_artifact: the rename is the commit point of the pair.
SavePair(p) ==
  /\ At(p, "save")
  /\ pairs' = [pairs EXCEPT ![child[p].job] = child[p].out]
  /\ Becomes(p, "teardown", Fresh(p), child[p].dirs)
  /\ UNCHANGED <<index, unindexed>>

\* An error is returned out of diff_one (estimate, download, extraction, the
\* write of the record) or an exception leaves it (bad_alloc under prlimit):
\* main unwinds and exits with status 1.
Fails(p) ==
  /\ Alive(p) /\ ~At(p, "teardown")
  /\ Exits(p, "exited1")
  /\ UNCHANGED <<pairs, index, unindexed>>

\* The result is on disk; removing gigabytes of scratch still takes a while,
\* and may fail unnoticed.
Teardown(p) ==
  /\ At(p, "teardown")
  /\ Exits(p, "exited0")
  /\ UNCHANGED <<pairs, index, unindexed>>

\* The OOM killer, an abort, a crash of libabigail: at any point.
Crash(p) ==
  /\ Alive(p)
  /\ Dies(p)
  /\ UNCHANGED <<pairs, index, unindexed>>

ChildStep(p) ==
  \/ OverBudget(p) \/ Fetch(p) \/ Fetched(p) \/ Compare(p)
  \/ \E s \in {1, 2} : CheckIndex(p, s) \/ BuildIndex(p, s) \/ BuildIndexFails(p, s)
  \/ SavePair(p) \/ Teardown(p)
  \/ Fails(p) \/ Crash(p)
==============================================================================
