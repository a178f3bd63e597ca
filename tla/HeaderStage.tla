----------------------------- MODULE HeaderStage -----------------------------
(***************************************************************************)
(* The headers stage, run_headers, on a directory the diff stage has       *)
(* worked on or will work on again: one process that takes the jobs in     *)
(* plan order, reads the pair record for the language of the library, and  *)
(* compares the header indexes of the two releases, building those the     *)
(* diff stage did not leave behind.                                        *)
(*                                                                         *)
(* A user runs one stage command at a time, in any order and again after   *)
(* any interruption; the orphans of a diff stage that died may be at work  *)
(* next to either.                                                         *)
(***************************************************************************)
EXTENDS DiffStage

CONSTANT MaxHeaderRuns  \* bound: how often the headers stage is started

ASSUME HeaderRunsAssumption == MaxHeaderRuns \in Nat

VARIABLES
  headers,      \* the process of the headers stage
  headerPairs,  \* job |-> what headers/pairs/<id>.json says
  oldSchema,    \* indexes on disk that have the schema of an earlier version
  empty,        \* indexes on disk of a release that had no include root
  headerRuns,   \* times the headers stage was started
  early,        \* history: jobs whose pair was not settled when it was read
  unread        \* history: jobs whose pair was there and could not be loaded

headerVars == <<headers, headerPairs, oldSchema, empty, headerRuns, early, unread>>
allVars == <<vars, headerVars>>

HeaderPcs == {"stopped", "next", "get1", "build1", "get2", "build2", "record", "complete"}
Kinds == {"none", "new", "old", "empty"}

\* The indexes in hand, a (of v1) and b (of v2); err is that of get_index.
Process == [pc : HeaderPcs, job : 1 .. NumJobs + 1, lang : Langs,
            a : Kinds, b : Kinds, err : BOOLEAN]
Stopped(pc) == [pc |-> pc, job |-> 1, lang |-> "cxx", a |-> "none", b |-> "none",
                err |-> FALSE]

NoRecord == [done |-> FALSE, lang |-> "cxx", a |-> "none", b |-> "none", err |-> FALSE]
HeaderRecord == [done : BOOLEAN, lang : Langs, a : Kinds, b : Kinds, err : BOOLEAN]

HeadersTypeOK ==
  /\ headers \in Process
  /\ headerPairs \in [Jobs -> HeaderRecord]
  /\ oldSchema \subseteq index
  /\ empty \subseteq index
  /\ headerRuns \in Nat
  /\ early \subseteq Jobs
  /\ unread \subseteq Jobs

HeadersInit ==
  /\ Init
  /\ headers = Stopped("stopped")
  /\ headerPairs = [j \in Jobs |-> NoRecord]
  /\ oldSchema = OldIndexes
  /\ empty = {}
  /\ headerRuns = 0
  /\ early = {}
  /\ unread = {}
------------------------------------------------------------------------------
HeadersRunning == headers.pc \notin {"stopped", "complete"}

Job == headers.job
InHand(pc) == headers.pc = pc /\ Job \in Jobs
Advance(changes) == headers' = changes
KeepReads == UNCHANGED <<early, unread>>
KeepRecords == UNCHANGED <<headerPairs, headerRuns>> /\ KeepReads
KeepFiles == UNCHANGED <<oldSchema, empty, index, leaked>>
KeepDiff == UNCHANGED <<parentVars, pairs, unindexed, child, orphans>>

StartHeaders ==
  /\ phase \in {"stopped", "complete"} /\ ~HeadersRunning
  /\ headerRuns < MaxHeaderRuns
  /\ headerRuns' = headerRuns + 1
  /\ Advance(Stopped("next"))
  /\ UNCHANGED headerPairs /\ KeepReads /\ KeepFiles /\ KeepDiff

\* A header record that exists is kept, whatever it says.
SkipJob ==
  /\ InHand("next")
  /\ headerPairs[Job].done
  /\ Advance([headers EXCEPT !.job = Job + 1])
  /\ KeepRecords /\ KeepFiles /\ KeepDiff

\* pair_language: what the compared objects of the record say, C++ without
\* any, and also C++ when the record cannot be loaded, be it because there is
\* none or because it cannot be read or parsed.  A pair without a record, or
\* with an orphan at work on it, is unsettled.
\* (Seeded fault: the language of the library, compared or not.)
PairLanguageAnyway(j) == PairLang[j]

PairLanguage(j) == IF pairs[j] = "ok" THEN PairLang[j] ELSE "cxx"

Settled(j) == pairs[j] # "none" /\ \A p \in orphans : child[p].job # j

ReadsAs(lang) ==
  Advance([headers EXCEPT !.pc = "get1", !.lang = lang,
                          !.a = "none", !.b = "none", !.err = FALSE])

ReadPair ==
  /\ InHand("next")
  /\ ~headerPairs[Job].done
  /\ \/ ReadsAs(PairLanguage(Job)) /\ unread' = unread \ {Job}
     \/ pairs[Job] # "none" /\ ReadsAs("cxx") /\ unread' = unread \cup {Job}
  /\ early' = IF Settled(Job) THEN early \ {Job} ELSE early \cup {Job}
  /\ UNCHANGED <<headerPairs, headerRuns>> /\ KeepFiles /\ KeepDiff

GetSt(s) == IF s = 1 THEN "get1" ELSE "get2"
BuildAt(s) == IF s = 1 THEN "build1" ELSE "build2"
AfterGet(s) == IF s = 1 THEN "get2" ELSE "record"
HeaderKey(s) == <<SideOf(s)[Job], headers.lang>>

\* get_index has the index of side s: on to the other side, or to the record.
Have(s, kind) ==
  Advance(IF s = 1 THEN [headers EXCEPT !.pc = AfterGet(s), !.a = kind]
                   ELSE [headers EXCEPT !.pc = AfterGet(s), !.b = kind])

\* get_index, the file: an index of the present schema is used, one of the
\* earlier schema for C++ only; otherwise the index has to be built.
Usable(k) == k \in index /\ (k \notin oldSchema \/ k[2] = "cxx")
KindOf(k) == IF k \in oldSchema THEN "old" ELSE IF k \in empty THEN "empty" ELSE "new"

GetIndex(s) ==
  /\ InHand(GetSt(s))
  /\ IF Usable(HeaderKey(s))
     THEN Have(s, KindOf(HeaderKey(s)))
     ELSE Advance([headers EXCEPT !.pc = BuildAt(s)])
  /\ KeepRecords /\ KeepFiles /\ KeepDiff

\* The file is there and cannot be loaded: unless its schema was the trouble,
\* that is the error of the job.  Of two schemas tried in turn for C++, the
\* earlier one can fail as well, and the index is built.
IndexUnreadable(s) ==
  /\ InHand(GetSt(s)) /\ HeaderKey(s) \in index
  /\ \/ Advance([headers EXCEPT !.pc = "record", !.err = TRUE])
     \/ HeaderKey(s) \in oldSchema /\ Advance([headers EXCEPT !.pc = BuildAt(s)])
  /\ KeepRecords /\ KeepFiles /\ KeepDiff

\* The scratch directory of the -dev tree is removed on the way out of
\* get_index; an error of that is dropped.
DropsScratch ==
  \/ UNCHANGED leaked
  \/ Job \in Stuck /\ leaked' = leaked \cup {<<Job, "unremoved">>}

\* get_index, the build: fetch the -dev packages, index them, save the file.
\* A release without an include root gets an empty index.
MakeIndex(s) ==
  /\ InHand(BuildAt(s))
  /\ LET k == HeaderKey(s)
         kind == IF k[1] \in HasDev THEN "new" ELSE "empty"
     IN /\ index' = index \cup {k}
        /\ oldSchema' = oldSchema \ {k}
        /\ empty' = IF kind = "empty" THEN empty \cup {k} ELSE empty \ {k}
        /\ Have(s, kind)
  /\ DropsScratch
  /\ KeepRecords /\ KeepDiff

\* Network, extraction, libclang or the write of the file: the error goes
\* into the record of the job, and the other side is not looked at.
MakeIndexFails(s) ==
  /\ InHand(BuildAt(s))
  /\ Advance([headers EXCEPT !.pc = "record", !.err = TRUE])
  /\ DropsScratch
  /\ UNCHANGED <<oldSchema, empty, index>>
  /\ KeepRecords /\ KeepDiff

SaveRecord ==
  /\ InHand("record")
  /\ headerPairs' = [headerPairs EXCEPT ![Job] =
       [done |-> TRUE, lang |-> headers.lang, err |-> headers.err,
        a |-> IF headers.err THEN "none" ELSE headers.a,
        b |-> IF headers.err THEN "none" ELSE headers.b]]
  /\ Advance([headers EXCEPT !.pc = "next", !.job = Job + 1])
  /\ UNCHANGED headerRuns /\ KeepReads /\ KeepFiles /\ KeepDiff

\* The record cannot be written: the stage returns the error.
SaveRecordFails ==
  /\ InHand("record")
  /\ Advance(Stopped("stopped"))
  /\ KeepRecords /\ KeepFiles /\ KeepDiff

\* (Seeded fault: the last job is never looked at.)
HeadersCompleteShort ==
  /\ headers.pc = "next" /\ Job >= NumJobs
  /\ Advance(Stopped("complete"))
  /\ KeepRecords /\ KeepFiles /\ KeepDiff

HeadersComplete ==
  /\ headers.pc = "next" /\ Job = NumJobs + 1
  /\ Advance(Stopped("complete"))
  /\ KeepRecords /\ KeepFiles /\ KeepDiff

\* Killed, or brought down by libclang in this very process: the scratch
\* directory of a build stays.
HeadersDie ==
  /\ HeadersRunning
  /\ Advance(Stopped("stopped"))
  /\ leaked' = IF InHand("build1") \/ InHand("build2")
               THEN leaked \cup {<<Job, "abandoned">>} ELSE leaked
  /\ UNCHANGED <<oldSchema, empty, index>>
  /\ KeepRecords /\ KeepDiff

HeaderStep ==
  \/ SkipJob \/ ReadPair
  \/ \E s \in {1, 2} :
       GetIndex(s) \/ IndexUnreadable(s) \/ MakeIndex(s) \/ MakeIndexFails(s)
  \/ SaveRecord \/ SaveRecordFails \/ HeadersComplete

\* The diff stage is not started while the headers stage runs.
DiffStep ==
  /\ Next
  /\ HeadersRunning => phase' = phase
  /\ UNCHANGED headerVars

HeadersNext == StartHeaders \/ HeaderStep \/ HeadersDie \/ DiffStep

HeadersSpec == HeadersInit /\ [][HeadersNext]_allVars
------------------------------------------------------------------------------
(***************************************************************************)
(* What the two stages promise together.                                   *)
(***************************************************************************)

\* A header record is in the language its pair was compared in, for ever: a
\* settled pair record is not replaced by any later run of either stage, and
\* what pair_language makes of it is the language diff_one indexed the
\* headers in.  The one exception is a record the stage could not load at the
\* time: then it is C++ (headers.cpp:62-74, 89, diff.cpp:162-163).
LanguageKept ==
  \A j \in Jobs \ early : headerPairs[j].done =>
    \/ headerPairs[j].lang = IndexLang(j, pairs[j])
    \/ j \in unread /\ headerPairs[j].lang = "cxx"

\* "so the header stage needs no second download" (METHODOLOGY.md:112): for a
\* settled pair that was compared and is not mistaken for C++ because its
\* record could not be loaded, a release with headers is fetched again only if
\* the diff stage failed to index it or left an index of the earlier schema
\* (headers.cpp:24-40, 62-65, diff.cpp:162-172).
Mistaken(j) == j \in unread /\ IndexLang(j, pairs[j]) # "cxx"

NoSecondDownload ==
  \A s \in {1, 2} :
    /\ InHand(BuildAt(s)) /\ pairs[Job] \in {"ok", "uncompared"}
    /\ Job \notin early /\ ~Mistaken(Job)
    => LET k == HeaderKey(s) IN k[1] \in HasDev => k \in unindexed \cup oldSchema

\* The headers stage implements JobLedger without waivers: records only
\* grow, through any number of interrupted runs, and the stage is complete
\* only when each job has one (stages.hpp:127-137, headers.cpp:78-124).
HeadersLedger == INSTANCE JobLedger WITH
  stage <- IF HeadersRunning THEN "running" ELSE headers.pc,
  recorded <- {j \in Jobs : headerPairs[j].done},
  waived <- {}

HeadersImplementLedger == HeadersLedger!Spec

(***************************************************************************)
(* Why: the inductive invariant of the two stages.  Nothing the diff stage *)
(* can still do touches the record of a quiet job, and each settled job is *)
(* quiet from the moment the headers stage has read its pair.              *)
(***************************************************************************)
ReadOf(j) == {PairLanguage(j)} \cup IF j \in unread THEN {"cxx"} ELSE {}

DiffIdle == phase \in {"stopped", "complete"}
Exclusive == HeadersRunning => DiffIdle

Quiet(j) ==
  /\ pairs[j] # "none"
  /\ \A p \in Pids : child[p].st # "free" => child[p].job # j
  /\ ~DiffIdle => j \notin todo

Working(j) == headers.pc \in {"get1", "build1", "get2", "build2", "record"} /\ Job = j

SettledInv ==
  \A j \in Jobs \ early :
    /\ headerPairs[j].done => Quiet(j) /\ headerPairs[j].lang \in ReadOf(j)
    /\ Working(j) => Quiet(j) /\ headers.lang \in ReadOf(j)

DoneSoFar == HeadersRunning => \A j \in Jobs : j < Job => headerPairs[j].done

HeadersInv ==
  /\ IInv /\ QueueWithinTodo
  /\ HeadersTypeOK /\ Exclusive
  /\ SettledInv /\ NoSecondDownload /\ DoneSoFar
------------------------------------------------------------------------------
==============================================================================
