------------------------------- MODULE Resolve -------------------------------
(***************************************************************************)
(* The resolve stage, run_resolve, after the select stage on the same      *)
(* directory: for each library of selection.json the upstream releases     *)
(* that have its packages, newest first, and one job per adjacent pair.    *)
(* A failed request is skipped over: for the list of versions the library, *)
(* for the packages of a version that version.                             *)
(*                                                                         *)
(* A user runs one stage command at a time, either of them again whenever  *)
(* he likes.                                                               *)
(***************************************************************************)
EXTENDS Select

CONSTANTS
  Releases,     \* ResolveOptions::releases
  MaxScan       \* ResolveOptions::max_scan

ASSUME ResolveAssumption == Releases \in Nat /\ MaxScan \in Nat

VARIABLES
  lib,          \* entry of the selection the loop is at
  todo,         \* versions of per_upstream not looked at
  picked,       \* versions picked so far, newest first
  scanned,      \* versions looked at
  jobs,         \* plan.jobs so far
  lost,         \* history: row and version of each request that failed
  plan          \* plan.json, with its history and the rows it was made from

resolveVars == <<lib, todo, picked, scanned, jobs, lost>>
vars == <<archive, stage, commands, selectVars, selection, resolveVars, plan>>

Job == [row : Rows, v1 : Versions, v2 : Versions]
NoPlan == [saved |-> FALSE, rows |-> <<>>, jobs |-> <<>>, lost |-> {}]

ResolveTypeOK ==
  /\ SelectTypeOK
  /\ lib \in 1 .. Len(selection.rows) + 1
  /\ todo \subseteq Versions
  /\ picked \in Seq(Versions)
  /\ scanned \in Nat
  /\ jobs \in Seq(Job)
  /\ lost \subseteq Rows \X Versions
  /\ plan \in [saved : BOOLEAN, rows : Seq(Rows), jobs : Seq(Job),
               lost : SUBSET (Rows \X Versions)]

Init ==
  /\ SelectInit
  /\ lib = 1
  /\ todo = {} /\ picked = <<>> /\ scanned = 0
  /\ jobs = <<>> /\ lost = {}
  /\ plan = NoPlan
------------------------------------------------------------------------------
Library == selection.rows[lib]
UpstreamOf(s, v) == archive.upstream[s][v]

\* (Seeded fault: each revision is a release.)
PerRevision(s) ==
  {v \in archive.versions[s] : UpstreamOf(s, v) \notin archive.prerelease}

\* per_upstream: the newest revision of each upstream release.
PerUpstream(s) ==
  {v \in archive.versions[s] :
     /\ UpstreamOf(s, v) \notin archive.prerelease
     /\ \A w \in archive.versions[s] : w > v => UpstreamOf(s, w) # UpstreamOf(s, v)}

FreshResolve ==
  /\ lib' = 1
  /\ todo' = {} /\ picked' = <<>> /\ scanned' = 0
  /\ jobs' = <<>> /\ lost' = {}

KeepSelect == UNCHANGED <<archive, selectVars, selection>>

StartResolve ==
  /\ Command("versions") /\ selection.saved
  /\ FreshResolve
  /\ KeepSelect /\ UNCHANGED plan

AtLibrary == stage = "versions" /\ lib <= Len(selection.rows)

ListVersions ==
  /\ AtLibrary
  /\ todo' = PerUpstream(SourceOf(Library))
  /\ picked' = <<>> /\ scanned' = 0
  /\ stage' = "releases"
  /\ KeepSelect /\ UNCHANGED <<commands, lib, jobs, lost, plan>>

ListVersionsFails ==
  /\ AtLibrary
  /\ lib' = lib + 1
  /\ lost' = lost \cup {Library} \X Versions
  /\ KeepSelect /\ UNCHANGED <<stage, commands, todo, picked, scanned, jobs, plan>>

\* (Seeded fault: one release too many.)
PickingOneMore ==
  stage = "releases" /\ todo # {} /\ Len(picked) <= Releases /\ scanned < MaxScan

Picking ==
  stage = "releases" /\ todo # {} /\ Len(picked) < Releases /\ scanned < MaxScan

\* (Seeded fault: a version right before the one looked at is dropped with it.)
LookAtTwo(v) ==
  /\ Picking /\ \A w \in todo : w <= v
  /\ todo' = todo \ {v - 1, v}
  /\ scanned' = scanned + 1
  /\ KeepSelect /\ UNCHANGED <<stage, commands, lib, jobs, plan>>

LookAt(v) ==
  /\ Picking /\ \A w \in todo : w <= v
  /\ todo' = todo \ {v}
  /\ scanned' = scanned + 1
  /\ KeepSelect /\ UNCHANGED <<stage, commands, lib, jobs, plan>>

PackagesFail(v) ==
  /\ LookAt(v)
  /\ lost' = lost \cup {<<Library, v>>}
  /\ UNCHANGED picked

Incomplete(v) ==
  /\ LookAt(v) /\ v \notin archive.complete[Library]
  /\ UNCHANGED <<picked, lost>>

Pick(v) ==
  /\ LookAt(v) /\ v \in archive.complete[Library]
  /\ picked' = Append(picked, v)
  /\ UNCHANGED lost

\* (Seeded fault: each release is paired with the newest.)
PairsWithNewest(r, p) ==
  [i \in 1 .. Len(p) - 1 |-> [row |-> r, v1 |-> p[Len(p) - i + 1], v2 |-> p[1]]]

\* The pairs of a library, oldest first.
Pairs(r, p) ==
  [i \in 1 .. Len(p) - 1 |-> [row |-> r, v1 |-> p[Len(p) - i + 1], v2 |-> p[Len(p) - i]]]

PairUp ==
  /\ stage = "releases" /\ ~Picking
  /\ jobs' = jobs \o Pairs(Library, picked)
  /\ lib' = lib + 1
  /\ stage' = "versions"
  /\ todo' = {} /\ picked' = <<>> /\ scanned' = 0
  /\ KeepSelect /\ UNCHANGED <<commands, lost, plan>>

SavePlan ==
  /\ stage = "versions" /\ ~AtLibrary
  /\ plan' = [saved |-> TRUE, rows |-> selection.rows, jobs |-> jobs, lost |-> lost]
  /\ stage' = "idle"
  /\ FreshResolve
  /\ KeepSelect /\ UNCHANGED commands

\* The file cannot be written, or the process is killed.
ResolveAborts ==
  /\ stage \in {"versions", "releases"}
  /\ stage' = "idle"
  /\ FreshResolve
  /\ KeepSelect /\ UNCHANGED <<commands, plan>>

ResolveStep ==
  \/ StartResolve \/ ListVersions \/ ListVersionsFails
  \/ \E v \in todo : PackagesFail(v) \/ Incomplete(v) \/ Pick(v)
  \/ PairUp \/ SavePlan \/ ResolveAborts

\* No command is given.
Rest == stage = "idle" /\ UNCHANGED vars

Next ==
  \/ SelectStep /\ UNCHANGED <<resolveVars, plan>>
  \/ ResolveStep
  \/ Rest

Spec == Init /\ [][Next]_vars
------------------------------------------------------------------------------
(***************************************************************************)
(* What plan.json promises.                                                *)
(***************************************************************************)
Plan == plan.jobs
JobSource(j) == SourceOf(j.row)
JobId(j) == <<JobSource(j), UpstreamOf(JobSource(j), j.v1), UpstreamOf(JobSource(j), j.v2)>>

\* The pair files, one per job, have names of their own: PairJob::id names
\* the source and the upstream parts only, and these may return under another
\* epoch or revision (artifacts.cpp:15-17, resolve.cpp:107-115).
JobIdsDistinct == \A i, k \in DOMAIN Plan : JobId(Plan[i]) = JobId(Plan[k]) => i = k

\* "Pairs are (older, newer) by dpkg version order" (stages.hpp:82) and the
\* pairs of a source follow one another, each from the release the one
\* before led to (resolve.cpp:161-163).
ChainedOlderFirst ==
  /\ \A i \in DOMAIN Plan : Plan[i].v1 < Plan[i].v2
  /\ \A i, k \in DOMAIN Plan :
       i < k /\ JobSource(Plan[i]) = JobSource(Plan[k]) =>
         /\ JobSource(Plan[i + 1]) = JobSource(Plan[i])
         /\ Plan[i + 1].v1 = Plan[i].v2

Between(j, v) == j.v1 < v /\ v < j.v2 /\ v \in PerUpstream(JobSource(j))

\* "consecutive upstream releases": a release between those of a job lacks
\* the packages of the library, or the request for them failed
\* (resolve.cpp:122-133).
GapsExplained ==
  \A i \in DOMAIN Plan : \A v \in Versions :
    Between(Plan[i], v) =>
      v \notin archive.complete[Plan[i].row] \/ <<Plan[i].row, v>> \in plan.lost

\* A definition of the plan: the most recent Releases releases that have the
\* packages, among the most recent MaxScan.
RecentReleases(r) ==
  LET all == PerUpstream(SourceOf(r))
      Newer(v, S) == Cardinality({w \in S : w > v})
  IN {v \in all \cap archive.complete[r] :
        Newer(v, all \cap archive.complete[r]) < Releases /\ Newer(v, all) < MaxScan}

Consecutive(r) ==
  LET S == RecentReleases(r)
  IN {j \in [row : {r}, v1 : S, v2 : S] :
        j.v1 < j.v2 /\ ~\E v \in S : j.v1 < v /\ v < j.v2}

\* The jobs of a library for which no request failed are as defined.
JobsOf(js, r) == {js[i] : i \in {k \in DOMAIN js : js[k].row = r}}
Unhindered(r, failed) == \A v \in Versions : <<r, v>> \notin failed
AsDefined(js, r, failed) == Unhindered(r, failed) => JobsOf(js, r) = Consecutive(r)

\* A plan made without a failed request for a library has just the jobs of
\* its consecutive recent releases (METHODOLOGY.md:65-73, resolve.cpp:99-163).
PlanAsDefined == \A i \in DOMAIN plan.rows : AsDefined(Plan, plan.rows[i], plan.lost)

(***************************************************************************)
(* Why: while a library is looked at, what was picked is newer than what   *)
(* is left, and nothing in between was dropped without a reason; the jobs  *)
(* so far are of the libraries before, each of a source of its own.        *)
(***************************************************************************)
ReleasesInv ==
  LET all == PerUpstream(SourceOf(Library))
  IN /\ lib <= Len(selection.rows)
     /\ todo \subseteq all
     /\ \A i \in DOMAIN picked : picked[i] \in all /\ \A v \in todo : v < picked[i]
     /\ \A i, k \in DOMAIN picked : i < k => picked[k] < picked[i]
     /\ \A v \in all \ todo :
          \/ \E i \in DOMAIN picked : picked[i] = v
          \/ v \notin archive.complete[Library]
          \/ <<Library, v>> \in lost

JobsInv(js, failed) ==
  /\ \A i \in DOMAIN js :
       /\ js[i].v1 < js[i].v2
       /\ js[i].v1 \in PerUpstream(JobSource(js[i]))
       /\ js[i].v2 \in PerUpstream(JobSource(js[i]))
  /\ \A i, k \in DOMAIN js :
       i < k /\ JobSource(js[i]) = JobSource(js[k]) =>
         /\ js[i].v2 <= js[k].v1
         /\ JobSource(js[i + 1]) = JobSource(js[i])
         /\ js[i + 1].v1 = js[i].v2
  /\ \A i \in DOMAIN js : \A v \in Versions :
       Between(js[i], v) =>
         v \notin archive.complete[js[i].row] \/ <<js[i].row, v>> \in failed

JobsOfEarlier ==
  \A i \in DOMAIN jobs : \E x \in DOMAIN Entries : x < lib /\ jobs[i].row = Entries[x]

IInv ==
  /\ ResolveTypeOK
  /\ stage \in {"idle", "select"} => lib = 1 /\ jobs = <<>>
  /\ SelectInv
  /\ stage = "releases" => ReleasesInv
  /\ JobsInv(jobs, lost) /\ JobsOfEarlier
  /\ JobsInv(plan.jobs, plan.lost)

\* While a library is looked at: the versions looked at are the newest, no
\* more than the loop allows, and what was picked has the packages.
RecentInv ==
  LET all == PerUpstream(SourceOf(Library))
  IN /\ scanned = Cardinality(all \ todo) /\ scanned <= MaxScan
     /\ Len(picked) <= Releases
     /\ \A v \in todo, w \in all \ todo : v < w
     /\ \A i \in DOMAIN picked : picked[i] \in archive.complete[Library]

DefinedInv ==
  /\ stage = "releases" => RecentInv
  /\ \A x \in DOMAIN Entries : x < lib => AsDefined(jobs, Entries[x], lost)
  /\ PlanAsDefined
------------------------------------------------------------------------------
==============================================================================
