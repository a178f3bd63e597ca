# Verification of abistudy

`abistudy` (`src/cxx/src`, C++26) measures which kinds of ABI change happen between consecutive
releases of Debian's shared libraries. It runs as six stages over one *study directory*; each stage is
meant to be idempotent and resumable. This directory holds TLA+ models of the program, TLC
configurations that check them on small instances, and TLAPS proofs of the central results.

## 1. The system

| Component | Source (`src/cxx/src/`) | State it keeps | Operations |
|---|---|---|---|
| select | `pipeline/select.cpp` | `selection.json` | `run_select`: candidates from popcon within per-language limits |
| resolve | `pipeline/resolve.cpp` | `plan.json` | `run_resolve`: consecutive upstream releases per library, one job per adjacent pair |
| diff, parent | `pipeline/diff.cpp` `run_diff` | `todo`, the pass's counter, `killed`; threads | pool of children, retry of killed jobs, failure records |
| diff, child | `pipeline/diff.cpp` `diff_one` | two scratch directories, the result under construction | budget, fetch, compare, index headers, save |
| process runner | `core/process.cpp` | two pipes, pid, deadline | `proc::run` |
| file helpers | `core/fs.cpp`, `core/artifact.cpp` | files | atomic write, `TempDir`, load/save of an artefact |
| snapshot client | `snapshot/client.cpp` | throttle (per process), API cache (per directory) | `get`, `api`, `download`, `content_length`, `fetch_to_file` |
| materialise | `pipeline/materialize.cpp` | scratch directory of one release | download and extract the packages of a release |
| headers | `pipeline/headers.cpp` | `headers/index/*`, `headers/pairs/*` | `run_headers`, `get_index`, `pair_language` |
| comparison | `abi/compare.cpp`, `abi/model.hpp` | none (pure) | pair symbols, classify changes, count them |
| header index | `hdr/index.cpp` | none (pure) | index a tree with libclang, compare two indexes |
| version order | `core/version.cpp` | none (pure) | Debian version comparison |
| analyze, report | `pipeline/analyze.cpp`, `pipeline/report.cpp` | `summary.json`, `report.*` | aggregation and rendering |
| earlier pipelines | `src/scripts`, `src/v2` | – | superseded Python programs |

The stages share nothing but the study directory. The diff stage is the concurrent one: a parent with
a pool of threads, each running one child process at a time; the children share the directory, with each
other, with the parent and with the orphans of an interrupted run. Libraries are not thread-safe and
eat memory, so a child may be killed at any instruction; the parent may be killed as well, and the
stage is then simply started again. Everything hard about the program is there: a shared counter and
retry list, a deadline racing a finished child, files as commit points, scratch that a signal leaves
behind, jobs that must be neither lost nor repeated.

## 2. The modules

| Module | Role |
|---|---|
| `DiffChild` | one child of the diff stage and the directory it works on |
| `DiffStage` | the parent, its threads, interruption and restart; EXTENDS `DiffChild`; the properties |
| `JobLedger` | abstract specification: a set of recorded jobs that only grows, completion over a full ledger |
| `MCDiffStage` | the instances TLC checks |
| `HeaderStage` | the headers stage composed with the diff stage on one directory; EXTENDS `DiffStage` |
| `MCHeaderStage` | the instance TLC checks |
| `StageProofs` | the theorems about `DiffStage` and `HeaderStage` and their TLAPS proofs |
| `Select` | the select stage over a ranking and an archive; the properties of `selection.json` |
| `Resolve` | the resolve stage after it; EXTENDS `Select`; the properties of `plan.json` |
| `MCCorpus` | the archives TLC checks the two stages over |
| `ChangeKinds` | the taxonomy of `abi/model.hpp`: kinds, framings, mechanisms, tallies; used by the next and by `Study` |
| `CorpusProofs` | the theorems about `Resolve` (and `Select` within it) and their TLAPS proofs |
| `Compare`, `MCCompare`, `CompareProofs` | `abi::compare` on one pair of shared objects; its instance; its theorems |
| `HeaderIndex`, `MCHeaderIndex`, `HeaderIndexProofs` | `hdr::index` on two releases, `hdr::compare`, and the record on disk |
| `DebVersion`, `MCDebVersion`, `DebVersionProofs` | the order of Debian versions |
| `SnapshotClient` | processes in calls of `snapshot::Client`, with the cache they share |
| `Materialize`, `MCMaterialize`, `MaterializeProofs` | `pipeline::materialize` for one release; EXTENDS `SnapshotClient`; the theorems are about both |
| `Study`, `MCStudy`, `StudyProofs` | `run_analyze` and `run_report` over a directory others still write to |
| `Inductions` | lemmas the proofs share: induction, recursive functions, finite sums and how many are in a family of sets |

### DiffChild

`child[p]` is a process: its stage `st` names the point of `diff_one` it has reached, `out` is the result
it has in hand (`res.error` and whether anything was compared), `dirs` the number of `TempDir` objects it owns;
`leaked` tells directories nobody tried to remove (`abandoned`) from those `~TempDir` could not remove (`unremoved`), which the file system may do to the jobs in `Stuck`.
`"exited0"`, `"exited1"` and `"signalled"` are zombies that `waitpid` has yet to collect. `pairs[j]` is
what the pair file of job `j` says: the work of a child (`ok`, `skipped`, `uncompared`) or a failure record
of the parent (`timeout`, `exit`, `killed`). `index` is the set of header index files, by release and
language, shared by the two jobs on either side of a release.

| Action | Code |
|---|---|
| `OverBudget` | the budget from HEAD sizes, diff.cpp:75-88 |
| `Fetch`, `Fetched` | `materialize` for v1 and v2 and the extracted budget, diff.cpp:89-107 |
| `Compare` | the loop over paired objects, diff.cpp:109-160; its log lines kill an orphan (SIGPIPE) |
| `CheckIndex`, `BuildIndex`, `BuildIndexFails` | `ensure_header_index`, test and build being separate steps, diff.cpp:27-51, 162-172 |
| `SavePair` | `save_artifact`: the rename, diff.cpp:174 |
| `Teardown` | destructors and exit 0; a directory that cannot be removed stays without a word, fs.cpp:78-82, 129-132 |
| `Fails` | any error returned or exception thrown before: destructors and exit 1, main.cpp:203-222 |
| `Crash` | killed by a signal at any point; scratch stays |

### DiffStage

`phase` is where `run_diff` is, `queue`/`next` the running pass's jobs and shared counter, `killed` its list of
killed jobs, `thread[t]` a worker's position in its loop and in `proc::run`. `runs`, `todo`, `deaths`
and `dropped` are history variables for the properties: they guard nothing but the bound on `runs`.

| Action | Code |
|---|---|
| `Start` | diff.cpp:181-198: jobs without a pair file, in plan order |
| `Claim` | `next.fetch_add(1)`, diff.cpp:204-210 |
| `Spawn`, `SpawnFails` | process.cpp:42-75, diff.cpp:230-235 |
| `PipesClosed`, `Deadline` | the poll loop, process.cpp:83-103; the deadline is looked at first, and counts also for a child that has already finished |
| `SettleOk`, `SettleKilled`, `SettleFailed` | `waitpid` and the code under the lock, diff.cpp:228-268 |
| `Retry`, `GiveUp`, `Bury`, `Finish` | diff.cpp:271-306 |
| `ParentDies` | the parent is killed; living children become orphans (nothing ties them to it) |

`waitpid`, the test of the exit status and the record under the lock are one step: nobody else looks at
the pid, the list or the job's file between them, except an orphan of the same job writing the same file,
and its rename may come before or after the step as well.

Operators whose comment says *seeded fault* are variants of the operator after them with one plausible
mistake. No action uses them; they show that a property notices the mistake.

### HeaderStage

One process, `headers`: its program counter, the job it looks at, the language `pair_language` gave, the kinds
of the indexes in hand (`new`, `old` schema, `empty`) and the error of `get_index`. `headerPairs[j]` is what
`headers/pairs/<id>.json` says. The index files are `index` of `DiffChild`; `oldSchema` and `empty` say which
of them have the schema of an earlier version of the tool (`OldIndexes` at the start: the directory may be an
old one) or belong to a release without an include root. `early` and `unread` are history: the jobs whose pair record was
missing, or had an orphan at work on it, when the headers stage read it, and those whose record was there and could not be loaded.

| Action | Code (headers.cpp) |
|---|---|
| `StartHeaders` | the stage begins with the plan, 78-84; one stage command at a time |
| `SkipJob` | a header record exists, 85-88 |
| `ReadPair` | `pair_language`, 61-74, 89; a record that does not load, for whatever reason, makes the pair C++ |
| `GetIndex` | the file is there and of a schema the language allows, 20-40 |
| `IndexUnreadable` | the file is there and does not load: the error of the job, 28-30, but for one of the earlier schema, 33-38 |
| `MakeIndex`, `MakeIndexFails` | the -dev packages are fetched and indexed, the index saved, 41-59 |
| `SaveRecord`, `SaveRecordFails` | the comparison or the error is saved; a failing save ends the stage, 90-122 |
| `HeadersComplete` | the end of the loop, 123-124 |
| `HeadersDie` | killed, or brought down by libclang, which runs in this very process |
| `DiffStep` | any step of the diff stage and its children; not `Start` while the headers stage runs |

### Select and Resolve

`archive` is what the ranking, the Packages file and snapshot.debian.org say; it is chosen at the start and nothing
changes it. A version is its place in the order of dpkg; two versions of a source that differ do not compare equal. Which names
`candidate` accepts, which sources ship a `-dbgsym` and a `-dev` package and in which versions `roles` finds
both are sets of rows and versions. `stage` is the one stage command at work and where it is; `selection` and `plan` are
the two files, each with its history (the requests that failed while it was made, and for the plan the rows it was made from).

| Action | Code |
|---|---|
| `StartSelect`, `StartResolve` | a stage command; resolve needs the file of select, resolve.cpp:95 |
| `NotCandidate`, `OverQuota`, `SourceSeen` | the three `continue`s before the source is looked up, select.cpp:58-71 |
| `BinariesFail`, `Reject`, `Accept` | the source counts as seen; then its packages decide, select.cpp:72-97 |
| `SaveSelection`, `SelectAborts` | the end of the loop and the save; a failed request for a source, a failed save, a kill |
| `ListVersions`, `ListVersionsFails` | versions of a source, newest first, one for each upstream release, resolve.cpp:100-115 |
| `PackagesFail`, `Incomplete`, `Pick` | one version looked at, newest first, within `Releases` and `MaxScan`, resolve.cpp:119-160 |
| `PairUp` | the pairs of the library, oldest first, resolve.cpp:161-163 |
| `SavePlan`, `ResolveAborts` | the save; a failed save, a kill |

### Compare

What libabigail finds in a pair of objects is a value, `object`, chosen at the start: a sequence of visits to nodes of the diff tree (a node may
come more than once, the library reports some of the members that moved and all whose type changed), the symbols of one side only, as sets whose order is
open, and the functions of both sides. `pc` is the loop the function is in and `i` its index. A tally of `ChangeCounts` is a
function over all kinds; a key that is absent is a zero.

| Action | Code (compare.cpp) |
|---|---|
| `Load`, `LoadFails` | corpora, diff, language of the object, 50-93, 637-690 |
| `Visit` | the `TypeVisitor` on one node, 188-378: members and cases once a type, bases and slots at each visit |
| `AttributeType` | public or third party, by the header that declares the type, 692-704 |
| `CollectSymbols` | the two vectors without what the compiler generates, 406-465 |
| `PairSignature`, `NoSignature` | the first pass: one qualified name, two texts, 467-496 |
| `PairRename`, `NoRename` | the second pass: names that differ in digits only, 498-514 |
| `RecordRemoved`, `RecordAdded`, `RecordChanged` | plain events, and declarations that changed, 517-571 |
| `TallyRenames` | renames in the public tally, and the threshold, 536-538 |
| `EndLoop` | from one loop to the next |

### HeaderIndex

Both releases are indexed one after the other, header by header; `files` are the headers left. What libclang makes of a header is one
of `Units`: its worst diagnostic, the definitions and macros met in it, and which of them belong to files of the package itself. A
definition is a fingerprint of its declaration and one of its body. `bodies` is history: every body met for a key.

| Action | Code (index.cpp) |
|---|---|
| `ListHeaders`, `NoIndex` | the headers under the root, 57-67; `clang_createIndex` fails, 238-242 |
| `SkipHeader`, `ParseHeader`, `ParseFails` | one round of the loop, 278-317: over the limit, parsed, no unit |
| `EndIndex` | the end of the loop, 317-319 |
| `Compare` | `hdr::compare`, 332-372, and the record after its round trip through JSON (433-464, headers.cpp:102-112) |

### DebVersion

Two strings of characters (their codes) are split and compared both ways in step, so that symmetry can be stated; `walk[n]` holds the
two positions and the result.

| Action | Code (version.cpp) |
|---|---|
| `Parse`, `ParseFails` | `DebianVersion::parse` on both strings, 68-94 |
| `Compare` | one round of `operator<=>`: the epochs, or one round of a loop of `compare_fragment` on the upstream parts or the revisions, 32-66, 100-106 |

### SnapshotClient and Materialize

`call[p]` is the call process `p` is in: where it stands, its attempt, the status it holds (which outlives an attempt without
an answer), and the body, which is the time the archive gave it. `cache` holds the files `api_<hash>.json`, `dest[p]` the file downloaded to.
`mat` is where `materialize` is: the package `n`, the version `v`, the estimate, what is extracted and what is missing.

| Action | Code |
|---|---|
| `Api`, `ReadCache`, `CacheUnreadable` | the test of the cache and the read after it, client.cpp:138-151; another process may replace the file between them |
| `Attempt` | one round of `get`, client.cpp:91-136, for each kind of answer |
| `Parse`, `ParseFails`, `Store` | the rest of `api`, client.cpp:152-155 |
| `Download`, `Verified`, `Mismatch` | `download` and its second try, client.cpp:157-172 |
| `ContentLength`, `HeadAnswered` | one HEAD request and its answer, client.cpp:174-201, which may never come |
| `Tick` | time passes, while every process is idle or waits for the archive |
| `AskFiles`, `EstimateListed`, `NoVersions`, `AskSize`, `Sized`, `Estimated` | `estimate_download_bytes` and the test of the budget, materialize.cpp:75-104, 127-136; the files of a version are listed by api.cpp:86-119 |
| `FetchListed`, `Missing`, `FetchDeb`, `Fetched`, `Extract` | `fetch_one`, materialize.cpp:26-48, 137-158 |
| `CallFails`, `Complete` | an error of any call, or an answer of another shape (api.cpp:8-27); the end |

### Study

`pairs` and `headers` are the records on disk, `loaded` and `all` the maps of `run_analyze`, `summary`, `report` and `html` the files it and `run_report` leave.
`listed` and `disturbed` are history: whether both directories could be opened, and the records written since the study began.

| Action | Code |
|---|---|
| `Start`, `ReadHeader` | the walk of `headers/pairs`, analyze.cpp:238-247 |
| `OpenPairs`, `ReadPair` | the walk of `pairs`, one transition rolled up, analyze.cpp:248-266, 29-66 |
| `Tabulate`, `SaveSummary`, `SaveReport` | the tables, the two saves, analyze.cpp:267-511, 92-234 |
| `Stop` | a write that fails, or the process dies |
| `RenderReport` | report.html from summary.json with its list of the least stable libraries, at most `MaxListed` (8), report.cpp:211-235, 326-369 |
| `SavePair`, `SaveHeader` | a stage, or an orphan of one, writes a record; a walk under way may miss a new one |


## 3. The runs

| Run | Instance | Shows |
|---|---|---|
| `diff_stage` | 2 adjacent jobs sharing a release, the only one with headers, 2 workers, 2 pids, 1 run, scratch that may resist removal | one run, whatever is interleaved, killed, late or failing: its safety, and that it ends with its retry |
| `diff_resume` | 2 jobs without headers, 1 worker, 2 pids, 2 runs | a second run after the first was interrupted anywhere, with orphans; refinement of `JobLedger` |
| `header_stage` | 2 jobs, 1 worker, 1 pid, 1 run of the diff stage among 2 of the headers stage, old indexes of both languages, records and indexes unreadable at times | language of the records, no second download, ledger without waivers |
| `corpus` | 4 ranked packages of 2 sources, 5 versions, limits 1 and 1, scan 3, 3 releases among 4 scanned, 2 commands | the selection and the plan against their definitions, names of jobs, chains, gaps |
| `compare` | any change of a layout of 2 members, enums and classes visited twice, up to 3 symbols a side, threshold 2, cap 3 | types and symbols are counted once and none is lost, the pairing leaves nothing, a mass rename is one |
| `version` | all pairs of strings of 1–3 characters over `~ . a 0 1`, of 3–4 over `~ a 0 1`, of 108 with epochs and revisions | the order of deb-version(7), its symmetry, the parts, termination |
| `fetch` | a release of 3 packages, one with 2 versions, beside a second process; 2 attempts, time to live 1 | errors, fresh answers, whole files, the release complete, the budget, every call returns |
| `index` | 1 definition, 1 macro and 1 stamp, up to 3 headers a side with a limit of 2 | the counters of the record, and what the order of units can change |
| `study` | 2 transitions of 2 libraries with any records, 1 library listed, 2 studies, 1 write meanwhile | the summary is of the directory, framings, the two reports |
| `doc_results_kept` | 2 jobs, 1 worker | *violated*: "results that already exist are kept" (stages.hpp:7) |
| `doc_stamps` | as `index` | *violated*: macros "both in full and with version/build stamps excluded" (METHODOLOGY.md:141-144) |
| `doc_each_type_once` | as `compare` | *violated*: "counts each changed type once (dedupe by canonical type)" (METHODOLOGY.md:98-99) |

Each property is stated in a comment beside its definition, with the lines it is about.

**Diff stage.** `OneThreadPerJob`, `RetryAlone`, `KilledTwice`, `EveryJobAccounted`,
`IndexedBeforeRecorded`, `LeaksExplained` (invariants), `KeepsExisting` (what a step may never do),
`ImplementsLedger` (refinement), `StageEnds` (liveness, in `diff_stage`, where two workers make the retry possible; 1.7 million states).
Two jobs are enough for every race the code can have: both in different threads, both
waiting, one on the retry list while the other runs, both sharing an index file. Two workers are the
least for which the retry pass differs from the pass. Two pids are two running children, or in `diff_resume` an orphan beside
a running child; a child of `diff_stage` whose parent has died has no successor there, so a third is idle. One release with headers in the first run and none in the second keep the
states of index building where the question is about them. Two runs are the least with a resumption (some 970 000 states). The proofs below do not depend on these.
No run uses symmetry.

**Headers stage.** `LanguageKept`, `NoSecondDownload` (invariants), `HeadersImplementLedger` (refinement). Two
jobs sharing a release and one of each language are the least for which an index is shared and missed. A record that cannot be loaded once, and
can be later, is what `unread` excuses: the pair is taken for C++ then, and its header record stays so. An index the diff stage left that cannot be loaded is the error of the job, not a second download. The diff stage runs once
in this instance (7 million states); that a *further* run of the diff stage does not
replace the record a header record was made from is covered by the proof, which bounds neither.

**Corpus stages.** `OneEntryPerSource`, `QuotaKept`, `NothingPassedOver` (what is not in the selection was
not due, or its source was lost to a request or lacks its packages), `JobIdsDistinct`, `ChainedOlderFirst`, `GapsExplained`,
`PlanAsDefined` (without failures the plan is the one METHODOLOGY.md defines, given here as a set rather than a loop).
The two stages meet only in the order of the entries, so the archives are the union of two families: any
ranking (all origins and hints, any shipping sources, one row that may be no candidate) with a single release of each source, and one ranking with any
history of five versions (any return of an upstream part under a later revision or epoch, pre-releases, any set of
versions that lack the packages). Two sources over four rows give rows of one source of both languages before, between and after each other;
limits of 1 make a language fill up while the other does not; `Scan` and `MaxScan` are each one short of the whole,
and five versions leave room for a gap on each side of a pick. `MaxCommands` = 2 is enough for select then resolve, either of them again,
and for an interrupted one; the proofs bound none of this.

**Comparison.** `TypesCountedOnce`, `TypesAttributed`, `SymbolsConserved`, `NothingLeftToPair`, `MassRenameMeansMost`. Two members
are the least for which one is reported and the other is found by the walk over both sides. The symbols are chosen so that each pass can take what a later
one wants: overloads of one name, C names that differ in digits, a variable among functions, private and generated ones. A threshold of
2 is reached with both one and no plain events to spare, and the cap of 3 is passed.

**Versions.** `AsDebVersion` (against the definition of deb-version(7) as a sequence of weights and numbers), `Antisymmetric`, `PartsAreTheString`, `Terminates`.
The characters are one of each class the code tells apart (tilde, letter, other, zero, digit); two letters would
compare as two weights do. Up to four characters give runs of two of each kind, zeros before a number, and strings that end
at any point of the other. Epochs up to 10 with a largest of 9 reach the overflow.

**Fetching.** `ErrorsExplained`, `AnswersAreFresh`, `WholeOrNothing`, `ExtractedOrMissing`, `BudgetBinds`, `CallsReturn`. Two attempts are the
least with a retry, and an attempt without an answer may come before or after one that was answered. The clock moves once, by the whole time to live, so a
file is stale or fresh at any step; the second process may replace it between the look and the read. A package whose newest
version has no file, one with none at all, and a budget reached exactly are in the instance (some 970 000 states).

**Header index.** `CountersAddUp`, `AgreedBodiesDecide`. One key suffices, since keys do not meet; three headers over a limit of
two give a skipped one beside two units that may disagree.

**Study.** `StudyOfTheDirectory`, `FramingsNest`, `ReportAgrees`, `ReportsFollowSummary`. The records have every
class of change that a framing or a mechanism tells apart, a mass rename, an error, no objects, one that does not load; two of them make each
table count over more than one, and a list of one library is cut, with a tie, or not. Which of two libraries with breaks comes first by their numbers is beyond two transitions: it is
in the theorem `ReportAgreesAlways`. Two studies and one write are the least in which the second overwrites the first, is
interrupted, or meets another directory.

**Fairness.** `Fairness` of `DiffStage` holds for the parent only: its threads are scheduled, and `poll` is given at most the
time left (1 s at most), so a waiting thread reaches its deadline. Nothing is assumed of a child: it may hang
for ever, and in a HEAD request the code lets it, and `StageEnds` still holds. Nor is anything assumed of `Start`: no one has to run the stage again.
In `Materialize` a process that is not killed goes on, and each request of `get` gets an end, because libcurl gives up a transfer that stays
below 1 KiB/s for two minutes (client.cpp:109-111); that the archive ever answers is not assumed. A HEAD request has no such limit (client.cpp:182-187): `HeadAnswered` has no fairness,
`CallsReturn` is about the other calls, and only the deadline of the child ends such a wait; the headers stage, which has no deadline, sends none (its `Want` has no budget). In `DebVersion` nothing runs but the comparison.

**What the violations mean.** A
child that passes its deadline after the rename of its good result, while it deletes its scratch, has that
result replaced by a timeout record, permanently (`doc_results_kept`). The record of a header comparison has no field for macros that changed and are no
stamps; `from_json` gives the reader the count of all that changed, so the two figures are always equal (`doc_stamps`). Bases and
virtual slots of a class are counted outside `first_time`, once for each visit of libabigail (`doc_each_type_once`).

Other places where the text and the code differ, seen while modelling; the properties state what does hold:

* report.html names at most eight of the libraries with a break, and nothing says how many there are (report.cpp:361-369, `ReportAgrees`).
* stages.hpp:119, "Every job has a result file": a job whose process cannot be spawned, or whose failure record cannot be
  written, is missing after a stage that says it is complete (`EveryJobAccounted`).
* METHODOLOGY.md:295, "retried alone … once": with one worker, killed twice is recorded after one death (`KilledTwice`).
* main.cpp:37, `--no-headers`, and stages.hpp:93: the children are not given it, nor `--max-extracted-mb`, `--max-files` and `--trace`.
* METHODOLOGY.md:40, a stage refuses another schema: `get_index` accepts the earlier schema for C++ (`LanguageKept`).
* METHODOLOGY.md:59, accepted iff the source ships its packages: the first package of a source to be looked up decides for all (`NothingPassedOver`).
* METHODOLOGY.md:72, consecutive releases: a failed request makes a pair of the releases around the one it was about (`GapsExplained`).
* compare.hpp:73-77: a symbol of a private version node is not public; its rename is counted as public (compare.cpp:537).
* compare.hpp:89, 99-100 and METHODOLOGY.md:115-116, every counted event is in its events vector: the renames are counted (compare.cpp:536-537) and leave no event, so that
  no reviewer can audit them (`SymbolsConserved` states it for all but the renames).
* compare.hpp:86 and METHODOLOGY.md:171, a mass rename is at least as large as all other symbol events: compare.cpp:538 compares with the plain removals and additions only,
  so an object with 50 renames and a thousand changed signatures is set aside as a mass rename (`MassRenameMeansMost` states what is left).
* headers.cpp:61, "C++ if unknown": also where the diff stage has decided on C but its record cannot be loaded (`LanguageKept`). METHODOLOGY.md:112, no second download: such a pair is downloaded again.
* materialize and the headers stage remove their scratch without looking at the result (fs.cpp:78-82): what resists stays (`LeaksExplained` is about the rest).
* materialize.hpp:27-28, an upper bound of what is downloaded: only the first version of a package is sized
  (materialize.cpp:96), and an answer of 429 or 5xx to a HEAD request is taken for the size (client.cpp:192) (`BudgetBinds`).
* index.hpp:71-72, units that fail are counted: one that libclang does not create is counted nowhere (`failed`, history in `HeaderIndex`).
* `ParseCoverage` loses `parsed_as_cxx` and `with_errors` in its JSON, so that a release is poor by fatal errors only; and one with nothing parsed is never poor.
* report.cpp:243-247 and 272: transitions with a layout change are the sum over the kinds, and may count one several times.
* METHODOLOGY.md:207-208: a summary of no transitions is made and saved like any other; `analyze` takes a directory it cannot open for an empty one.
* version.hpp: the revision is empty iff there is no hyphen; it is also for `1.0-`.

## 4. The proofs

Every invariant, action property and refinement that the passing runs check is also a theorem, for every value of the constants that the named
assumptions allow. Three properties are checked by TLC only, because liveness under fairness is out of the prover's reach: `StageEnds`, `Terminates` and `CallsReturn`.

`StageProofs` proves, for every plan, number of workers, set of process ids and number of runs:
`Invariance` (`IInv`), `TypeCorrect`, `JobsExclusive`, `RetriesAlone`, `KilledMeansTwice`, `NoJobLost`,
`IndexesFirst`, `ExistingKept`, `DiffImplementsLedger` and `LeaksHaveReasons`, from `PlanAssumption` and `PoolAssumption` alone.

The promises are not inductive by themselves. *No job is held twice* needs that what is held was claimed
from a queue that names no job twice (`QueueInv`), which for the retry needs that the list of killed jobs
has none twice, which needs that a held job is not on it. *No job is lost* (`AccountedInv`) says that a job
without a record is unclaimed, held or on the killed list; its step at `SettleOk` needs that a child that exited with status 0
left a record (`CommittedInv`), and that the child a thread waits for is working on the thread's job
(`WaitingInv`, `OwnersDistinct`, `ChildrenOwned`). *Indexes first* needs what a child has seen to by each of its
stages (`ChildInv`). *Killed twice* counts deaths per pass (`DeathsInv`) and needs `PoolInv`: a pool is
joined only at the end of its queue. *The retry is alone* follows from `PoolInv` and `ChildrenOwned`.
`IInv` conjoins these; the proof takes one lemma per action.
`DiffImplementsLedger` maps each action to a step of `JobLedger` or to a stutter.
*A leak has a reason* (`LeakInv`) follows each child of the first run from its signal to the record or the count of deaths that its parent
makes of it, for the reason is written down later than the directory is lost: a leaked job is one of a child that is dying (`Dying`), has a death counted, or is past its
thread's hands with a record of the timeout, or let go without a record. Directories `~TempDir` could not remove are told apart and need no other reason.

`StageProofs` also proves `HeadersInvariance` (`HeadersInv`), `HeadersTypeCorrect`, `LanguagesAgree`, `DownloadedOnce` and
`HeadersImplement` for every plan and any number of runs of both stages. The heart is `Quiet(j)`: the pair has a record, no
living process is on the job, and a running diff stage does not have it in its list; then no step of the diff stage
touches the record. A job that is settled when the headers stage reads its pair is quiet from then on (`SettledInv`), because a
run of the diff stage started later leaves out the jobs with a record (`QueueWithinTodo`, `Exclusive`); its language is the one the record gives, or C++ where it could not be loaded (`ReadOf`). `DoneSoFar` gives the
ledger its complete set at the end. The proof takes the steps of the diff stage through `IInvSurvives` and one effect lemma
and never expands them again. Of both stages only the liveness `StageEnds` stays with TLC.

`CorpusProofs` proves `CorpusInvariance` (`IInv` of `Resolve`), `EntriesDistinct`, `LimitsKept`, `ChainsOlderFirst`, `OnlyExplainedGaps`,
`DistinctJobIds`, `MostInstalledTaken` and `PlanMatchesDefinition` for every archive, all limits and any sequence of commands. In the select loop (`SelectInv`) the rows looked up are of distinct
sources, entries were looked up and are in ranking order, and the counters count them. In the resolve loop (`ReleasesInv`) what was picked is newer
than what is left and whatever was dropped has a reason; `Pairs` turns that into a chain. That a source has its jobs in one block, and not
from two entries, comes from `OneEntryPerSource` with `JobsOfEarlier` (the jobs so far are of earlier entries). The names are
distinct because the first releases of a chain increase and `PerUpstream` keeps one version for each upstream part.
`NothingPassedOver` and `PlanAsDefined` compare the files with sets that the loops never build. `PassedInv` gives for each row the loop has gone by the reason
why its source is missing, as of the limits when it was met, which the sizes at the end can only confirm. `RecentInv` says that the versions looked at are the newest ones, no
more of them than `MaxScan` and those picked complete, so that a loop without a failed request ends with `RecentReleases`, and `DefinedInv` that each library done has the jobs of its definition.

`CompareProofs` proves `CompareInvariance`, `EverySymbolCounts`, `PairingIsMaximal`, `MassRenameIsMost`, `EachTypeCounts` and `TypesFindTheirTally` for any difference libabigail may find, any
threshold and any cap. Each pass over the symbols has its fact: a flag is set on one side for each flag on the other, so that the two used sets and the two counters
of pairs have one size (`PairedOK`); what a pass has gone by has no partner left, and later pairs only take partners away
(`GreedyOK`); the plain ones so far are the unused ones so far (`PlainOK`); and the events of symbols kept are all counted, up to the cap
(`RecordedOK`; `EarlyOK`: nothing of all this before the symbols are collected). For the types, the visits made determine the set of types seen, the events are about types seen, and
each of them has come to what its first visit expects (`VisitsInv`): the members the library reports and those the walk over both sides finds are disjoint and together
all that differ (`MembersCounted`), and an event appended adds its count to one type and one kind (`AmountAppend`). The two tallies are the sums over the events
judged so far (`AttributionInv`), and symbol events are of other kinds (`SymbolsApart`).

`DebVersionProofs` proves `VersionInvariance`, `ComparisonIsAntisymmetric`, `PartsTogether` and `OrderOfDebVersion` for strings of any length and any set of character codes.
The invariant says that the second walk is the mirror of the first (`Mirror`: positions exchanged, result negated) as long as the two have
taken the same steps, and that over two equal strings a walk has equal positions and no result but equality (`Even`); each kind of step keeps both.
The last hyphen is the largest index with one, so the parts and the hyphen between them are the string (`SplitParts`).

`OrderOfDebVersion` shows that the loop, which never builds a key, gives the order of the keys of deb-version(7). A key is a fold over the characters of a part; the proof takes it apart into
the states of the fold after each character (`KeyStates`), of which what precedes a finished entry never changes again (`KeyGrows`). `Stands(s, i, p)` says that a walk at position `i` has gone by
exactly the first `p` entries of the key of `s`, or is past the end, where what is missing counts as 0. The invariant (`OrderInv`) says that the two positions stand at the same `p`, with
the keys equal so far (`Alongside`), and that the parts compared before are equal. A step by letters takes the walk one entry on (`LetterOrder`), a step by numbers two,
the 0 that ends the letters and the number (`NumberOrder`): without its leading zeros a longer number is the larger one, and of two of one length the first digit that differs decides,
by an induction over the digits read. So a step either finds the first entry that differs, with the sign the keys have there, or goes by equal ones (`StepOrder`). `Terminates` stays with TLC.

`MaterializeProofs` proves `MaterializeInvariance`, `FailuresExplained`, `CacheSharedSafely`, `DownloadsWhole`, `MaterializeLoops`, `NothingLeftOut` and `DownloadBounded`
for any number of processes, attempts,
packages and versions. An invariant of one call at a time: the answers to a call's attempts explain the status it holds and the error it returns (`CallOK`); what it will return is no
older than the time to live allows, because the clock stands still between the look at the cache and the read, and nobody writes an entry older than the
one it replaces (`TimeOK`, `CacheOK`); a download has no file while it is at work, and a whole one exactly when it returns without an error (`DestOK`). `materialize` is one more caller (`MatOK`),
whose two loops have an invariant of their own (`MatInv`): the estimate so far is the sum of the sizes that were answered, for the packages asked about, and the packages gone by are extracted or
missing as the definitions of both lists say, so that the budget test between the loops binds what the second one downloads. The liveness `CallsReturn` is checked by TLC only.

`HeaderIndexProofs` proves `IndexInvariance`, `CountersOfRecord` and `OneBodyDecides` for any number of keys, headers and units. `CountInv` balances the counters
with the headers still to do, and starts from `UnlistedInv`; `BodyInv` says that a definition kept has one of the bodies met for its key, so that where
there is one body there is one answer. The counts of the record are cardinalities of subsets of the common keys.

`StudyProofs` proves `StudyInvariance`, `SummaryIsOfTheDirectory`, `ReportsAreOfTheSummary`, `FiguresInvariance`, `FramingsAreNested` and `ReportAgreesAlways` for any set of records, any number of studies and of writes meanwhile.
`Walked` says that there is a set of names counted as errors, disjoint from the names of the transitions, whose sizes are the two counters, and that it is
decided by the record on disk for every name read that nobody wrote to; `LoadedOK` says that the header records loaded are those on disk, all of them once the walk is over. With `SavedOK`, no report
is newer than the summary. `FiguresOK` says that the summary on disk is the table of its own list of transitions and that report.html is made from the summary it is of; a study under way is newer
than both, so that a summary saved later is never taken for the one the report was made from. The rest is about the tables of any transitions: the kinds no mechanism absorbs are the two
of symbols, which every framing counts (`FramingKinds`), so the framings leave the same transitions unabsorbed (`RescuedOf`) and differ only in what is rescued (`Wider`);
what one mechanism alone rescues is apart from what another does, and what any of them is needed for covers all that is rescued (`RescueAddsUp`); and the transitions of some libraries are the sum over these (`BySource`), so that the list of report.html falls short of the
summary by just the libraries it cuts.

`Inductions` has what those proofs share. The induction theorems of the library take an operator as a parameter, which cannot be instantiated here, so induction is stated over a
set: a set of numbers that has 0 and all successors (`Induction`), a set that has a finite set as soon as it has all of its subsets with one element
less (`SetInduction`). From these it proves that the sums of the community module `Functions`, which fold in the order of `CHOOSE`, do not depend on it (`SumRemove`), and how they grow and split
(`SumAdd`, `SumUnion`), and that a family of finite sets has at most the sum of their sizes, and exactly it when they are apart (`CountTogether`).

## 5. What is not modelled

* A second parent running on the same directory at the same time, and a `resolve` that rewrites the plan during `diff`:
  nothing in the program expects them. Orphans of a dead parent *are* modelled.
* A `stat` that fails: `exists` answers the truth.
* A failing `poll`, and a child that closes both pipes and lives on (then `waitpid` has no deadline).
* Two stage commands on one directory at a time. The plan is constant, so a `resolve` between `diff` and `headers` is out as well.
* Concurrent builders of one index file are modelled, their bytes are not: both write the same release's index by rename.
* What the libraries find. libabigail's diff tree, its maps of symbols and what it reports are a value of `Compare`; libclang's diagnostics and
  cursors are a value of `HeaderIndex`. Whether they find the truth about a library is outside the program. A crash of libclang is
  `HeadersDie`; that it would recur at the same job in each run is not modelled. A failing `curl_easy_init` is left out of `get`.
* Waits without an effect on state: the throttle between requests, the backoff between attempts. What a process does on its own machine
  takes no time beside the six hours of `api_cache_ttl` (`Tick` waits for it); a process suspended between the look at a cache file
  and the end of the read may return an older one.
* `fetch_to_file` (popcon and the Packages file, the same test of the cache as `api`), the encoding of URLs, an archive that changes while it is read.
* The formats: popcon and Packages files, the matching of package names in `candidate` and `roles`, the conversion of records to JSON where it keeps every field,
  report.txt and report.html but for the figures `run_report` computes anew, medians, percentages and rankings.
* Package extraction (`deb/extract.cpp`): libarchive over a file system, without state of its own; its failure is an outcome of `Fetch` and of `Extract`.
* Error and contract helpers, and the earlier Python pipelines under `src/scripts` and `src/v2`, which the program does not use.

## 6. Plan

What is left, in the order of what the study's results rest on:

1. **Extraction**: the guard against absolute and `..` members, as a walk over the entries of an archive.
2. A `resolve` between the other stages, so that `Study` meets records of two plans made by the stages themselves.
