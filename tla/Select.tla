------------------------------- MODULE Select -------------------------------
(***************************************************************************)
(* The select stage, run_select: down the popcon ranking, row by row, to   *)
(* the libraries of the study, within a limit per language and a limit on  *)
(* the rows examined.  Each row asks the archive for the source of the     *)
(* binary package and for what the source ships; the first request ends    *)
(* the stage when it fails, the second only loses the row.                 *)
(*                                                                         *)
(* The archive is a value that nothing changes, chosen at the start from   *)
(* a set of archives.                                                      *)
(***************************************************************************)
EXTENDS Integers, Sequences, FiniteSets

CONSTANTS
  NumRows,      \* rows of the ranking, the most installed first
  NumVersions,  \* versions of a source package, in the order of dpkg
  Sources,      \* source packages
  NoSource,     \* the origin of a package the archive does not know
  Upstreams,    \* upstream parts of versions
  Archives,     \* the archives considered
  Scan,         \* SelectOptions::scan
  Limit,        \* SelectOptions::c_limit and cxx_limit, by language
  MaxCommands   \* bound: how many stage commands are given

Langs == {"c", "cxx"}
Rows == 1 .. NumRows
Versions == 1 .. NumVersions

\* What the ranking and the archive say.  A version is its place in the
\* order of dpkg, which holds no two equal ones of a source; its upstream
\* part may return under another epoch.  ships: the source ships, for its
\* newest version, the -dbgsym of the row's package and some -dev package.
\* complete: the versions in which roles() finds a runtime and a dev package
\* for the row's package.
Archive ==
  [candidate : SUBSET Rows,
   hint : [Rows -> Langs],
   origin : [Rows -> Sources \cup {NoSource}],
   ships : SUBSET Rows,
   versions : [Sources -> SUBSET Versions],
   upstream : [Sources -> [Versions -> Upstreams]],
   prerelease : SUBSET Upstreams,
   complete : [Rows -> SUBSET Versions]]

ASSUME SelectAssumption ==
  /\ NumRows \in Nat /\ NumVersions \in Nat /\ Scan \in Nat
  /\ Limit \in [Langs -> Nat]
  /\ MaxCommands \in Nat
  /\ NoSource \notin Sources
  /\ Archives \subseteq Archive

VARIABLES
  archive,      \* never changes
  stage,        \* what the one stage command at work is about
  commands,     \* stage commands given so far
  row,          \* row of the loop
  examined,     \* candidates it has examined
  n,            \* language |-> entries so far: n_c and n_cxx
  looked,       \* rows whose source was looked up: seen is the set of their sources
  selected,     \* rows selected so far, sel.libraries
  missed,       \* history: rows lost to a failed request
  selection     \* selection.json, with its history

selectVars == <<row, examined, n, looked, selected, missed>>

Stages == {"idle", "select", "versions", "releases"}
NoSelection == [saved |-> FALSE, rows |-> <<>>, missed |-> {}]

SelectTypeOK ==
  /\ archive \in Archives
  /\ stage \in Stages
  /\ commands \in Nat
  /\ row \in 1 .. NumRows + 1
  /\ examined \in Nat
  /\ n \in [Langs -> Nat]
  /\ looked \subseteq Rows
  /\ selected \in Seq(Rows)
  /\ missed \subseteq Rows
  /\ selection \in [saved : BOOLEAN, rows : Seq(Rows), missed : SUBSET Rows]

SelectInit ==
  /\ archive \in Archives
  /\ stage = "idle" /\ commands = 0
  /\ row = 1 /\ examined = 0
  /\ n = [l \in Langs |-> 0]
  /\ looked = {} /\ selected = <<>> /\ missed = {}
  /\ selection = NoSelection
------------------------------------------------------------------------------
\* (Seeded fault: a limit is noticed one entry late.)
FullLate(l) == n[l] > Limit[l]

Full(l) == n[l] >= Limit[l]

\* The loop goes on; otherwise it ends, at the end of the ranking or by its break.
Scanning ==
  stage = "select" /\ row \in Rows /\ examined < Scan /\ ~(Full("c") /\ Full("cxx"))

Lang == archive.hint[row]
Origin == archive.origin[row]

\* (Seeded fault: the packages already looked up, not their sources.)
SeenPackages == looked

Seen == {archive.origin[q] : q \in looked}

\* Locals of a process that starts, or is gone.
FreshLocals ==
  /\ row' = 1 /\ examined' = 0
  /\ n' = [l \in Langs |-> 0]
  /\ looked' = {} /\ selected' = <<>> /\ missed' = {}

\* One stage command is given at a time.
Command(s) ==
  /\ stage = "idle" /\ stage' = s
  /\ commands < MaxCommands /\ commands' = commands + 1

StartSelect ==
  /\ Command("select")
  /\ FreshLocals
  /\ UNCHANGED selection

Continue == row' = row + 1 /\ UNCHANGED <<stage, commands, selection>>

NotCandidate ==
  /\ Scanning /\ row \notin archive.candidate
  /\ Continue
  /\ UNCHANGED <<examined, n, looked, selected, missed>>

\* A candidate: counted as examined, whatever becomes of it.
Examine ==
  /\ Scanning /\ row \in archive.candidate
  /\ Continue
  /\ examined' = examined + 1

\* (Seeded fault: the source counts as seen before the limit is looked at.)
OverQuotaSeen ==
  /\ Examine /\ Full(Lang)
  /\ looked' = looked \cup {row}
  /\ UNCHANGED <<n, selected, missed>>

OverQuota ==
  /\ Examine /\ Full(Lang)
  /\ UNCHANGED <<n, looked, selected, missed>>

\* No source package, or one that was looked up for an earlier row.
SourceSeen ==
  /\ Examine /\ ~Full(Lang)
  /\ Origin \in Seen \cup {NoSource}
  /\ UNCHANGED <<n, looked, selected, missed>>

\* The source is marked as seen before anything is known about it.
LookUp ==
  /\ Examine /\ ~Full(Lang)
  /\ Origin \notin Seen \cup {NoSource}
  /\ looked' = looked \cup {row}

BinariesFail ==
  /\ LookUp
  /\ missed' = missed \cup {row}
  /\ UNCHANGED <<n, selected>>

Reject ==
  /\ LookUp /\ row \notin archive.ships
  /\ UNCHANGED <<n, selected, missed>>

Accept ==
  /\ LookUp /\ row \in archive.ships
  /\ selected' = Append(selected, row)
  /\ n' = [n EXCEPT ![Lang] = @ + 1]
  /\ UNCHANGED missed

\* The file is replaced as a whole.
SaveSelection ==
  /\ stage = "select" /\ ~Scanning
  /\ selection' = [saved |-> TRUE, rows |-> selected, missed |-> missed]
  /\ stage' = "idle" /\ UNCHANGED commands
  /\ FreshLocals

\* The request for a source fails, the file cannot be written, or the
\* process is killed: the file of an earlier run stays.
SelectAborts ==
  /\ stage = "select"
  /\ stage' = "idle"
  /\ FreshLocals
  /\ UNCHANGED <<commands, selection>>

SelectStep ==
  /\ \/ StartSelect \/ NotCandidate \/ OverQuota \/ SourceSeen
     \/ BinariesFail \/ Reject \/ Accept
     \/ SaveSelection \/ SelectAborts
  /\ UNCHANGED archive
------------------------------------------------------------------------------
(***************************************************************************)
(* What selection.json promises.                                           *)
(***************************************************************************)
SourceOf(r) == archive.origin[r]
Entries == selection.rows
SelectedSources == {SourceOf(Entries[i]) : i \in DOMAIN Entries}
EntriesIn(l) == {i \in DOMAIN Entries : archive.hint[Entries[i]] = l}

\* "One entry per source package" (METHODOLOGY.md:63), although many rows of
\* the ranking belong to one source (select.cpp:70-72).
OneEntryPerSource ==
  \A i, k \in DOMAIN Entries : SourceOf(Entries[i]) = SourceOf(Entries[k]) => i = k

\* "C and C++ are quota'd separately": neither language exceeds its limit,
\* wherever in the ranking its rows are (select.cpp:56-67, 97).
QuotaKept == \A l \in Langs : Cardinality(EntriesIn(l)) <= Limit[l]

\* A candidate that outranks an entry of its language, or that the scan
\* reached while the language was below its limit.
Considered(r) ==
  LET l == archive.hint[r]
  IN /\ r \in archive.candidate /\ SourceOf(r) # NoSource
     /\ \/ \E i \in EntriesIn(l) : Entries[i] > r
        \/ /\ Cardinality(EntriesIn(l)) < Limit[l]
           /\ Cardinality({q \in archive.candidate : q <= r}) <= Scan

\* The most installed libraries are taken: the source of a candidate that was
\* considered is in the corpus, unless the first row of the source to be
\* looked up was lost or lacks its packages (select.cpp:55-97).
NothingPassedOver ==
  \A r \in Rows :
    Considered(r) /\ selection.saved =>
      \/ SourceOf(r) \in SelectedSources
      \/ \E q \in archive.candidate :
           /\ q <= r /\ SourceOf(q) = SourceOf(r)
           /\ \/ q \notin archive.ships
              \/ q \in selection.missed

(***************************************************************************)
(* Why: no two rows looked up are of one source, what is selected was      *)
(* looked up, in the order of the ranking, and n counts it.                *)
(***************************************************************************)
EntriesKnown == \A i \in DOMAIN Entries : SourceOf(Entries[i]) \in Sources

SelectInv ==
  /\ \A q \in looked : q < row /\ SourceOf(q) # NoSource
  /\ \A p, q \in looked : SourceOf(p) = SourceOf(q) => p = q
  /\ \A i \in DOMAIN selected : selected[i] \in looked
  /\ \A i, k \in DOMAIN selected : i < k => selected[i] < selected[k]
  /\ \A l \in Langs :
       /\ n[l] = Cardinality({i \in DOMAIN selected : archive.hint[selected[i]] = l})
       /\ n[l] <= Limit[l]
  /\ OneEntryPerSource /\ QuotaKept /\ EntriesKnown

Ahead(r) == {q \in archive.candidate : q < r}
SelectedIn(l) == {i \in DOMAIN selected : archive.hint[selected[i]] = l}

\* What was looked up is in the file to be, or there is a reason.
Judged(q) ==
  \/ \E i \in DOMAIN selected : selected[i] = q
  \/ q \notin archive.ships
  \/ q \in missed

SourceLooked(r) == \E q \in looked : q <= r /\ SourceOf(q) = SourceOf(r)

TooLate(r) ==
  /\ Full(archive.hint[r])
  /\ \A i \in SelectedIn(archive.hint[r]) : selected[i] < r

\* Every candidate behind the loop came too late for its language, or its
\* source has been looked up.
PassedLocals ==
  /\ examined = Cardinality(Ahead(row))
  /\ looked \subseteq archive.candidate
  /\ \A q \in looked : Judged(q)
  /\ \A r \in archive.candidate :
       r < row /\ SourceOf(r) # NoSource => SourceLooked(r) \/ TooLate(r)

PassedInv == PassedLocals /\ NothingPassedOver
------------------------------------------------------------------------------
==============================================================================
