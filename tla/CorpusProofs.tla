---------------------------- MODULE CorpusProofs ----------------------------
(***************************************************************************)
(* Proofs about the two stages that decide what is studied.  A plan has    *)
(* jobs of distinct names because a source is selected once (the rows      *)
(* looked up are of distinct sources) and because the releases of a source *)
(* are picked from newer to older, one for each upstream part.             *)
(***************************************************************************)
EXTENDS Resolve, FiniteSetTheorems, TLAPS

Entry(q, h, l) == {i \in DOMAIN q : h[q[i]] = l}

\* One more entry counts for its own language only.
LEMMA CountAppend ==
  ASSUME NEW q \in Seq(Rows), NEW r \in Rows, NEW h, NEW l
  PROVE  /\ Cardinality(Entry(q, h, l)) \in Nat
         /\ h[r] = l => Cardinality(Entry(Append(q, r), h, l)) = Cardinality(Entry(q, h, l)) + 1
         /\ h[r] # l => Cardinality(Entry(Append(q, r), h, l)) = Cardinality(Entry(q, h, l))
<1> DEFINE E == Entry(q, h, l)
           F == Entry(Append(q, r), h, l)
<1>1. E \subseteq 1 .. Len(q) /\ Len(q) \in Nat
  BY DEF Entry
<1>2. IsFiniteSet(1 .. Len(q))
  BY <1>1, FS_Interval
<1>3. IsFiniteSet(E)
  BY <1>1, <1>2, FS_Subset
<1>4. Cardinality(E) \in Nat
  BY <1>3, FS_CardinalityType
<1>5. /\ DOMAIN Append(q, r) = 1 .. Len(q) + 1
      /\ \A i \in 1 .. Len(q) : Append(q, r)[i] = q[i]
      /\ Append(q, r)[Len(q) + 1] = r
      /\ DOMAIN q = 1 .. Len(q)
  OBVIOUS
<1>6. CASE h[r] = l
  <2>1. F = E \cup {Len(q) + 1}
    BY <1>1, <1>5, <1>6 DEF Entry
  <2>2. Len(q) + 1 \notin E
    BY <1>1
  <2>3. Cardinality(F) = Cardinality(E) + 1
    BY <2>1, <2>2, <1>3, FS_AddElement
  <2> QED
    BY <2>3, <1>4, <1>6
<1>7. CASE h[r] # l
  <2>1. F = E
    BY <1>1, <1>5, <1>7 DEF Entry
  <2> QED
    BY <2>1, <1>4, <1>7
<1> QED
  BY <1>6, <1>7

LEMMA CountEmpty ==
  ASSUME NEW h, NEW l
  PROVE  Cardinality(Entry(<<>>, h, l)) = 0
<1>1. Entry(<<>>, h, l) = {}
  BY DEF Entry
<1> QED
  BY <1>1, FS_EmptySet

(***************************************************************************)
(* The select stage.                                                       *)
(***************************************************************************)
Counted ==
  \A l \in Langs : n[l] = Cardinality(Entry(selected, archive.hint, l)) /\ n[l] <= Limit[l]

LEMMA ArchiveType ==
  ASSUME SelectTypeOK
  PROVE  /\ archive.hint \in [Rows -> Langs]
         /\ archive.origin \in [Rows -> Sources \cup {NoSource}]
         /\ archive.versions \in [Sources -> SUBSET Versions]
         /\ archive.complete \in [Rows -> SUBSET Versions]
BY SelectAssumption DEF SelectTypeOK, Archive

\* What an action of the loop keeps, and what its locals have to satisfy.
Scanned ==
  /\ \A q \in looked : q < row /\ SourceOf(q) # NoSource
  /\ \A p, q \in looked : SourceOf(p) = SourceOf(q) => p = q
  /\ \A i \in DOMAIN selected : selected[i] \in looked
  /\ \A i, k \in DOMAIN selected : i < k => selected[i] < selected[k]
  /\ Counted

LEMMA SelectInvParts == SelectInv <=> Scanned /\ OneEntryPerSource /\ QuotaKept /\ EntriesKnown
BY DEF SelectInv, Scanned, Counted, Entry

SelectLocalsType ==
  /\ row \in 1 .. NumRows + 1 /\ examined \in Nat /\ n \in [Langs -> Nat]
  /\ looked \subseteq Rows /\ selected \in Seq(Rows) /\ missed \subseteq Rows

LEMMA FreshScanned ==
  ASSUME FreshLocals
  PROVE  Scanned' /\ SelectLocalsType'
<1>1. /\ row' = 1 /\ examined' = 0 /\ n' = [l \in Langs |-> 0]
      /\ looked' = {} /\ selected' = <<>> /\ missed' = {}
  BY DEF FreshLocals
<1>2. Counted'
  <2> SUFFICES ASSUME NEW l \in Langs
      PROVE  n'[l] = Cardinality(Entry(selected', archive'.hint, l)) /\ n'[l] <= Limit[l]
    BY DEF Counted
  <2>1. Cardinality(Entry(<<>>, archive'.hint, l)) = 0
    BY CountEmpty
  <2>2. n'[l] = 0 /\ Limit[l] \in Nat
    BY <1>1, SelectAssumption
  <2>3. Cardinality(Entry(selected', archive'.hint, l)) = 0
    BY <2>1, <1>1
  <2> QED
    BY <2>2, <2>3
<1>3. SelectLocalsType'
  BY <1>1, SelectAssumption DEF SelectLocalsType
<1>4. DOMAIN selected' = {}
  BY <1>1
<1> QED
  BY <1>1, <1>2, <1>3, <1>4 DEF Scanned

LEMMA SourceKept ==
  ASSUME archive' = archive
  PROVE  \A r : SourceOf(r)' = SourceOf(r)
BY DEF SourceOf

\* A row examined without an entry: at most its source is marked as seen.
LEMMA ExaminedScanned ==
  ASSUME SelectTypeOK, Scanned, row \in Rows, archive' = archive,
         row' = row + 1, n' = n, selected' = selected,
         \/ looked' = looked
         \/ looked' = looked \cup {row} /\ Origin \notin Seen \cup {NoSource}
  PROVE  Scanned'
<1>1. row \in Nat /\ looked \subseteq Rows /\ Rows \subseteq Nat
  BY SelectAssumption DEF SelectTypeOK, Rows
<1>2. \A q \in looked : q < row /\ SourceOf(q) # NoSource
  BY DEF Scanned
<1>3. \A p, q \in looked : SourceOf(p) = SourceOf(q) => p = q
  BY DEF Scanned
<1>4. \A i \in DOMAIN selected : selected[i] \in looked
  BY DEF Scanned
<1>5. \A i, k \in DOMAIN selected : i < k => selected[i] < selected[k]
  BY DEF Scanned
<1>6. Counted'
  BY DEF Scanned, Counted
<1>7. (\A i \in DOMAIN selected : selected[i] \in looked)'
  BY <1>4
<1>8. (\A i, k \in DOMAIN selected : i < k => selected[i] < selected[k])'
  BY <1>5
<1>9. \A q \in looked' : q < row' /\ archive.origin[q] # NoSource
  <2>1. \A q \in looked : q < row + 1 /\ archive.origin[q] # NoSource
    <3> SUFFICES ASSUME NEW q \in looked PROVE q < row + 1 /\ archive.origin[q] # NoSource
      OBVIOUS
    <3>1. q \in Nat
      BY <1>1
    <3>2. q < row /\ SourceOf(q) # NoSource
      BY <1>2
    <3>3. q < row + 1
      BY <3>1, <3>2, <1>1
    <3> QED
      BY <3>2, <3>3 DEF SourceOf
  <2>2. row < row + 1
    BY <1>1
  <2>3. looked' # looked => archive.origin[row] # NoSource
    BY DEF Origin
  <2>4. looked' = looked \/ looked' = looked \cup {row}
    OBVIOUS
  <2> QED
    BY <2>1, <2>2, <2>3, <2>4
<1>10. \A p, q \in looked' : archive.origin[p] = archive.origin[q] => p = q
  <2>1. CASE looked' = looked
    BY <2>1, <1>3 DEF SourceOf
  <2>2. CASE looked' = looked \cup {row} /\ Origin \notin Seen \cup {NoSource}
    <3>1. \A q \in looked : archive.origin[q] # archive.origin[row]
      BY <2>2 DEF Seen, Origin
    <3> QED
      BY <3>1, <2>2, <1>3 DEF SourceOf
  <2> QED
    BY <2>1, <2>2
<1> QED
  BY <1>6, <1>7, <1>8, <1>9, <1>10 DEF Scanned, SourceOf

LEMMA AcceptedScanned ==
  ASSUME SelectTypeOK, Scanned, row \in Rows, archive' = archive,
         row' = row + 1, ~Full(Lang), n' = [n EXCEPT ![Lang] = @ + 1],
         selected' = Append(selected, row),
         looked' = looked \cup {row}, Origin \notin Seen \cup {NoSource}
  PROVE  Scanned' /\ n' \in [Langs -> Nat]
<1>1. /\ row \in Nat /\ looked \subseteq Rows /\ Rows \subseteq Nat /\ selected \in Seq(Rows)
      /\ n \in [Langs -> Nat] /\ Limit \in [Langs -> Nat] /\ Lang \in Langs
  <2>1. row \in Nat /\ looked \subseteq Rows /\ Rows \subseteq Nat /\ selected \in Seq(Rows)
    BY SelectAssumption DEF SelectTypeOK, Rows
  <2>2. n \in [Langs -> Nat] /\ Limit \in [Langs -> Nat]
    BY SelectAssumption DEF SelectTypeOK
  <2>3. Lang \in Langs
    BY ArchiveType DEF Lang
  <2> QED
    BY <2>1, <2>2, <2>3
<1>2. \A q \in looked : q < row /\ SourceOf(q) # NoSource
  BY DEF Scanned
<1>3. \A p, q \in looked : SourceOf(p) = SourceOf(q) => p = q
  BY DEF Scanned
<1>4. \A i \in DOMAIN selected : selected[i] \in looked
  BY DEF Scanned
<1>5. \A i, k \in DOMAIN selected : i < k => selected[i] < selected[k]
  BY DEF Scanned
<1>6. Counted'
  <2> SUFFICES ASSUME NEW l \in Langs
      PROVE  n'[l] = Cardinality(Entry(Append(selected, row), archive.hint, l)) /\ n'[l] <= Limit[l]
    BY DEF Counted
  <2>0. n[l] = Cardinality(Entry(selected, archive.hint, l)) /\ n[l] <= Limit[l]
    BY DEF Scanned, Counted
  <2>1. CASE l = Lang
    <3>1. Cardinality(Entry(Append(selected, row), archive.hint, l))
            = Cardinality(Entry(selected, archive.hint, l)) + 1
      BY <2>1, <1>1, CountAppend DEF Lang
    <3>2. n'[l] = n[l] + 1
      BY <2>1, <1>1
    <3>3. n[l] < Limit[l]
      BY <2>1, <1>1 DEF Full
    <3> QED
      BY <3>1, <3>2, <3>3, <2>0, <1>1
  <2>2. CASE l # Lang
    <3>1. Cardinality(Entry(Append(selected, row), archive.hint, l))
            = Cardinality(Entry(selected, archive.hint, l))
      BY <2>2, <1>1, CountAppend DEF Lang
    <3>2. n'[l] = n[l]
      BY <2>2, <1>1
    <3> QED
      BY <3>1, <3>2, <2>0
  <2> QED
    BY <2>1, <2>2
<1>7. /\ DOMAIN selected' = 1 .. Len(selected) + 1 /\ DOMAIN selected = 1 .. Len(selected)
      /\ \A i \in 1 .. Len(selected) : selected'[i] = selected[i]
      /\ selected'[Len(selected) + 1] = row /\ Len(selected) \in Nat
  BY <1>1
<1>8. \A i \in DOMAIN selected' : selected'[i] \in looked'
  BY <1>4, <1>7
<1>9. \A i, k \in DOMAIN selected' : i < k => selected'[i] < selected'[k]
  <2> SUFFICES ASSUME NEW i \in DOMAIN selected', NEW k \in DOMAIN selected', i < k
      PROVE  selected'[i] < selected'[k]
    OBVIOUS
  <2>1. i \in 1 .. Len(selected) /\ selected'[i] = selected[i] /\ selected[i] < row
    BY <1>7, <1>4, <1>2
  <2>2. CASE k = Len(selected) + 1
    BY <2>1, <2>2, <1>7
  <2>3. CASE k \in 1 .. Len(selected)
    BY <2>1, <2>3, <1>7, <1>5
  <2> QED
    BY <2>2, <2>3, <1>7
<1>10. \A q \in looked' : q < row' /\ archive.origin[q] # NoSource
  <2>1. \A q \in looked : q < row + 1 /\ archive.origin[q] # NoSource
    <3> SUFFICES ASSUME NEW q \in looked PROVE q < row + 1 /\ archive.origin[q] # NoSource
      OBVIOUS
    <3>1. q \in Nat
      BY <1>1
    <3>2. q < row /\ SourceOf(q) # NoSource
      BY <1>2
    <3>3. q < row + 1
      BY <3>1, <3>2, <1>1
    <3> QED
      BY <3>2, <3>3 DEF SourceOf
  <2>2. row < row + 1
    BY <1>1
  <2>3. looked' # looked => archive.origin[row] # NoSource
    BY DEF Origin
  <2>4. looked' = looked \/ looked' = looked \cup {row}
    OBVIOUS
  <2> QED
    BY <2>1, <2>2, <2>3, <2>4
<1>11. \A p, q \in looked' : archive.origin[p] = archive.origin[q] => p = q
  <2>1. \A q \in looked : archive.origin[q] # archive.origin[row]
    BY DEF Seen, Origin
  <2> QED
    BY <2>1, <1>3 DEF SourceOf
<1>12. n' \in [Langs -> Nat]
  BY <1>1
<1> QED
  BY <1>6, <1>8, <1>9, <1>10, <1>11, <1>12 DEF Scanned, SourceOf

\* What the locals promise when they are written to the file.
LEMMA ScannedSaves ==
  ASSUME SelectTypeOK, Scanned, archive' = archive, selection'.rows = selected
  PROVE  OneEntryPerSource' /\ QuotaKept' /\ EntriesKnown'
<1>1. selected \in Seq(Rows)
  BY DEF SelectTypeOK
<1>2. OneEntryPerSource'
  <2> SUFFICES ASSUME NEW i \in DOMAIN selected, NEW k \in DOMAIN selected,
                      archive.origin[selected[i]] = archive.origin[selected[k]]
      PROVE  i = k
    BY DEF OneEntryPerSource, Entries, SourceOf
  <2>1. selected[i] = selected[k]
    BY DEF Scanned, SourceOf
  <2>2. i \in Nat /\ k \in Nat /\ selected[i] \in Nat
    BY <1>1, SelectAssumption DEF Rows
  <2>3. ~(i < k) /\ ~(k < i)
    BY <2>1, <2>2 DEF Scanned
  <2> QED
    BY <2>2, <2>3
<1>3. QuotaKept'
  <2>1. \A l \in Langs : Cardinality(Entry(selected, archive.hint, l)) <= Limit[l]
    BY DEF Scanned, Counted
  <2> QED
    BY <2>1 DEF QuotaKept, EntriesIn, Entries, Entry
<1>4. EntriesKnown'
  <2> SUFFICES ASSUME NEW i \in DOMAIN selected
      PROVE  archive.origin[selected[i]] \in Sources
    BY DEF EntriesKnown, Entries, SourceOf
  <2>1. selected[i] \in looked /\ looked \subseteq Rows
    BY DEF Scanned, SelectTypeOK
  <2>2. archive.origin[selected[i]] # NoSource
    BY <2>1 DEF Scanned, SourceOf
  <2> QED
    BY <2>1, <2>2, ArchiveType
<1> QED
  BY <1>2, <1>3, <1>4

LEMMA FilePromisesKept ==
  ASSUME OneEntryPerSource, QuotaKept, EntriesKnown, archive' = archive, selection' = selection
  PROVE  OneEntryPerSource' /\ QuotaKept' /\ EntriesKnown'
BY DEF OneEntryPerSource, QuotaKept, EntriesKnown, EntriesIn, Entries, SourceOf

LEMMA SelectLocalsTyped == SelectTypeOK => SelectLocalsType
BY DEF SelectTypeOK, SelectLocalsType

\* What a step of the select stage does: to its own state, to the file, and
\* to nothing else the resolve stage looks at.
SelectEffect ==
  /\ archive' = archive /\ SelectTypeOK' /\ SelectInv'
  /\ stage \in {"idle", "select"} /\ stage' \in {"idle", "select"}

LEMMA SelectStepEffect ==
  ASSUME SelectTypeOK, SelectInv, SelectStep
  PROVE  SelectEffect
<1>0. archive' = archive /\ Scanned /\ OneEntryPerSource /\ QuotaKept /\ EntriesKnown /\ SelectLocalsType
  BY SelectInvParts, SelectLocalsTyped DEF SelectStep
<1>1. ASSUME SelectLocalsType', Scanned', OneEntryPerSource', QuotaKept', EntriesKnown',
             stage \in {"idle", "select"}, stage' \in {"idle", "select"},
             commands' \in Nat,
             selection' \in [saved : BOOLEAN, rows : Seq(Rows), missed : SUBSET Rows]
      PROVE  SelectEffect
  <2>1. SelectInv'
    BY <1>1 DEF SelectInv, Scanned, Counted, Entry
  <2>2. SelectTypeOK'
    BY <1>0, <1>1 DEF SelectTypeOK, SelectLocalsType, Stages
  <2> QED
    BY <1>0, <1>1, <2>1, <2>2 DEF SelectEffect
<1>2. CASE StartSelect
  <2>1. FreshLocals /\ selection' = selection
    BY <1>2 DEF StartSelect
  <2>2. stage = "idle" /\ stage' = "select" /\ commands' = commands + 1
    BY <1>2 DEF StartSelect, Command
  <2>3. OneEntryPerSource' /\ QuotaKept' /\ EntriesKnown'
    BY <1>0, <2>1, FilePromisesKept
  <2>4. commands' \in Nat /\ selection \in [saved : BOOLEAN, rows : Seq(Rows), missed : SUBSET Rows]
    BY <2>2 DEF SelectTypeOK
  <2> QED
    BY <1>1, <2>1, <2>2, <2>3, <2>4, FreshScanned
<1>3. CASE SaveSelection
  <2>1. /\ FreshLocals /\ stage = "select" /\ stage' = "idle" /\ commands' = commands
        /\ selection' = [saved |-> TRUE, rows |-> selected, missed |-> missed]
    BY <1>3 DEF SaveSelection
  <2>2. selection' \in [saved : BOOLEAN, rows : Seq(Rows), missed : SUBSET Rows]
    BY <2>1 DEF SelectTypeOK
  <2>3. OneEntryPerSource' /\ QuotaKept' /\ EntriesKnown'
    BY <1>0, <2>1, ScannedSaves
  <2>4. commands' \in Nat
    BY <2>1 DEF SelectTypeOK
  <2> QED
    BY <1>1, <2>1, <2>2, <2>3, <2>4, FreshScanned
<1>4. CASE SelectAborts
  <2>1. /\ FreshLocals /\ stage = "select" /\ stage' = "idle" /\ commands' = commands
        /\ selection' = selection
    BY <1>4 DEF SelectAborts
  <2>2. OneEntryPerSource' /\ QuotaKept' /\ EntriesKnown'
    BY <1>0, <2>1, FilePromisesKept
  <2>3. commands' \in Nat /\ selection' \in [saved : BOOLEAN, rows : Seq(Rows), missed : SUBSET Rows]
    BY <2>1 DEF SelectTypeOK
  <2> QED
    BY <1>1, <2>1, <2>2, <2>3, FreshScanned
<1>5. ASSUME Scanning, Continue, Scanned', n' \in [Langs -> Nat],
             examined' \in Nat, looked' \subseteq Rows, selected' \in Seq(Rows), missed' \subseteq Rows
      PROVE  SelectEffect
  <2>1. /\ stage = "select" /\ stage' = "select" /\ commands' = commands
        /\ selection' = selection /\ row' = row + 1 /\ row \in Rows
    BY <1>5 DEF Scanning, Continue
  <2>2. OneEntryPerSource' /\ QuotaKept' /\ EntriesKnown'
    BY <1>0, <2>1, FilePromisesKept
  <2>3. commands' \in Nat /\ selection' \in [saved : BOOLEAN, rows : Seq(Rows), missed : SUBSET Rows]
    BY <2>1 DEF SelectTypeOK
  <2>4. row' \in 1 .. NumRows + 1
    BY <2>1, SelectAssumption DEF Rows
  <2>5. SelectLocalsType'
    BY <1>5, <2>4 DEF SelectLocalsType
  <2> QED
    BY <1>1, <1>5, <2>1, <2>2, <2>3, <2>5
<1>6. CASE NotCandidate
  <2>1. /\ Scanning /\ Continue /\ examined' = examined /\ n' = n /\ looked' = looked
        /\ selected' = selected /\ missed' = missed
    BY <1>6 DEF NotCandidate
  <2>2. Scanned'
    BY <1>0, <2>1, ExaminedScanned DEF Scanning, Continue
  <2> QED
    BY <1>0, <1>5, <2>1, <2>2 DEF SelectLocalsType
<1>7. ASSUME Examine PROVE Scanning /\ Continue /\ examined' \in Nat /\ row \in Rows /\ row' = row + 1
  BY <1>7, <1>0 DEF Examine, SelectLocalsType, Scanning, Continue
<1>8. CASE OverQuota
  <2>1. Examine /\ n' = n /\ looked' = looked /\ selected' = selected /\ missed' = missed
    BY <1>8 DEF OverQuota
  <2>2. Scanned'
    BY <1>0, <1>7, <2>1, ExaminedScanned
  <2> QED
    BY <1>0, <1>5, <1>7, <2>1, <2>2 DEF SelectLocalsType
<1>9. CASE SourceSeen
  <2>1. Examine /\ n' = n /\ looked' = looked /\ selected' = selected /\ missed' = missed
    BY <1>9 DEF SourceSeen
  <2>2. Scanned'
    BY <1>0, <1>7, <2>1, ExaminedScanned
  <2> QED
    BY <1>0, <1>5, <1>7, <2>1, <2>2 DEF SelectLocalsType
<1>10. ASSUME LookUp
       PROVE  /\ Examine /\ ~Full(Lang) /\ looked' = looked \cup {row} /\ looked' \subseteq Rows
              /\ Origin \notin Seen \cup {NoSource}
  BY <1>10, <1>7, <1>0 DEF LookUp, SelectLocalsType
<1>11. CASE BinariesFail
  <2>1. LookUp /\ missed' = missed \cup {row} /\ n' = n /\ selected' = selected
    BY <1>11 DEF BinariesFail
  <2>2. Scanned'
    BY <1>0, <1>7, <1>10, <2>1, ExaminedScanned
  <2> QED
    BY <1>0, <1>5, <1>7, <1>10, <2>1, <2>2 DEF SelectLocalsType
<1>12. CASE Reject
  <2>1. LookUp /\ missed' = missed /\ n' = n /\ selected' = selected
    BY <1>12 DEF Reject
  <2>2. Scanned'
    BY <1>0, <1>7, <1>10, <2>1, ExaminedScanned
  <2> QED
    BY <1>0, <1>5, <1>7, <1>10, <2>1, <2>2 DEF SelectLocalsType
<1>13. CASE Accept
  <2>1. /\ LookUp /\ missed' = missed /\ n' = [n EXCEPT ![Lang] = @ + 1]
        /\ selected' = Append(selected, row)
    BY <1>13 DEF Accept
  <2>2. Scanned' /\ n' \in [Langs -> Nat]
    BY <1>0, <1>7, <1>10, <2>1, AcceptedScanned
  <2>3. selected' \in Seq(Rows)
    BY <2>1, <1>0, <1>7, <1>10 DEF SelectLocalsType
  <2> QED
    BY <1>0, <1>5, <1>7, <1>10, <2>1, <2>2, <2>3 DEF SelectLocalsType
<1> QED
  BY <1>2, <1>3, <1>4, <1>6, <1>8, <1>9, <1>11, <1>12, <1>13 DEF SelectStep

(***************************************************************************)
(* The resolve stage.  It changes nothing the select stage has written.    *)
(***************************************************************************)
LEMMA ResolveKeepsSelect ==
  ASSUME SelectTypeOK, SelectInv, KeepSelect, stage' \in Stages, commands' \in Nat
  PROVE  SelectTypeOK' /\ SelectInv'
<1>1. /\ archive' = archive /\ selection' = selection /\ row' = row /\ examined' = examined
      /\ n' = n /\ looked' = looked /\ selected' = selected /\ missed' = missed
  BY DEF KeepSelect, selectVars
<1>2. SelectTypeOK'
  BY <1>1 DEF SelectTypeOK
<1>3. OneEntryPerSource' /\ QuotaKept' /\ EntriesKnown'
  BY <1>1, FilePromisesKept DEF SelectInv
<1>4. SelectInv'
  BY <1>1, <1>3 DEF SelectInv, SourceOf
<1> QED
  BY <1>2, <1>4

LEMMA PerUpstreamType ==
  ASSUME SelectTypeOK, NEW r \in Rows, SourceOf(r) \in Sources
  PROVE  PerUpstream(SourceOf(r)) \subseteq Versions
BY ArchiveType DEF PerUpstream

JobsTyped == jobs \in Seq(Job) /\ plan.jobs \in Seq(Job)

\* The promises of a list of jobs depend on the archive and the list alone.
LEMMA ArchiveFixed ==
  ASSUME archive' = archive
  PROVE  /\ \A s : PerUpstream(s)' = PerUpstream(s)
         /\ \A j : JobSource(j)' = JobSource(j)
         /\ \A j, v : Between(j, v)' = Between(j, v)
BY DEF Between, PerUpstream, UpstreamOf, JobSource, SourceOf

LEMMA JobsKept ==
  ASSUME archive' = archive, jobs' = jobs, lost \subseteq lost', JobsInv(jobs, lost)
  PROVE  JobsInv(jobs, lost)'
<1>1. \A i \in DOMAIN jobs :
        /\ jobs[i].v1 < jobs[i].v2
        /\ jobs[i].v1 \in PerUpstream(JobSource(jobs[i]))'
        /\ jobs[i].v2 \in PerUpstream(JobSource(jobs[i]))'
  BY ArchiveFixed DEF JobsInv
<1>2. \A i, k \in DOMAIN jobs :
        i < k /\ JobSource(jobs[i])' = JobSource(jobs[k])' =>
          /\ jobs[i].v2 <= jobs[k].v1
          /\ JobSource(jobs[i + 1])' = JobSource(jobs[i])'
          /\ jobs[i + 1].v1 = jobs[i].v2
  BY ArchiveFixed DEF JobsInv
<1>3. \A i \in DOMAIN jobs : \A v \in Versions :
        Between(jobs[i], v)' =>
          v \notin archive.complete[jobs[i].row] \/ <<jobs[i].row, v>> \in lost'
  BY ArchiveFixed DEF JobsInv
<1> QED
  BY <1>1, <1>2, <1>3 DEF JobsInv

LEMMA PlanKept ==
  ASSUME archive' = archive, plan' = plan, JobsInv(plan.jobs, plan.lost)
  PROVE  JobsInv(plan.jobs, plan.lost)'
<1>1. \A i \in DOMAIN plan.jobs :
        /\ plan.jobs[i].v1 < plan.jobs[i].v2
        /\ plan.jobs[i].v1 \in PerUpstream(JobSource(plan.jobs[i]))'
        /\ plan.jobs[i].v2 \in PerUpstream(JobSource(plan.jobs[i]))'
  BY ArchiveFixed DEF JobsInv
<1>2. \A i, k \in DOMAIN plan.jobs :
        i < k /\ JobSource(plan.jobs[i])' = JobSource(plan.jobs[k])' =>
          /\ plan.jobs[i].v2 <= plan.jobs[k].v1
          /\ JobSource(plan.jobs[i + 1])' = JobSource(plan.jobs[i])'
          /\ plan.jobs[i + 1].v1 = plan.jobs[i].v2
  BY ArchiveFixed DEF JobsInv
<1>3. \A i \in DOMAIN plan.jobs : \A v \in Versions :
        Between(plan.jobs[i], v)' =>
          v \notin archive.complete[plan.jobs[i].row] \/ <<plan.jobs[i].row, v>> \in plan.lost'
  BY ArchiveFixed DEF JobsInv
<1> QED
  BY <1>1, <1>2, <1>3 DEF JobsInv

LEMMA PlanSaved ==
  ASSUME archive' = archive, plan'.jobs = jobs, plan'.lost = lost, JobsInv(jobs, lost)
  PROVE  JobsInv(plan.jobs, plan.lost)'
<1>1. \A i \in DOMAIN plan'.jobs :
        /\ plan'.jobs[i].v1 < plan'.jobs[i].v2
        /\ plan'.jobs[i].v1 \in PerUpstream(JobSource(plan.jobs[i]))'
        /\ plan'.jobs[i].v2 \in PerUpstream(JobSource(plan.jobs[i]))'
  BY ArchiveFixed DEF JobsInv
<1>2. \A i, k \in DOMAIN plan'.jobs :
        i < k /\ JobSource(plan.jobs[i])' = JobSource(plan.jobs[k])' =>
          /\ plan'.jobs[i].v2 <= plan'.jobs[k].v1
          /\ JobSource(plan.jobs[i + 1])' = JobSource(plan.jobs[i])'
          /\ plan'.jobs[i + 1].v1 = plan'.jobs[i].v2
  BY ArchiveFixed DEF JobsInv
<1>3. \A i \in DOMAIN plan'.jobs : \A v \in Versions :
        Between(plan.jobs[i], v)' =>
          \/ v \notin archive.complete[plan'.jobs[i].row]
          \/ <<plan'.jobs[i].row, v>> \in plan'.lost
  BY ArchiveFixed DEF JobsInv
<1> QED
  BY <1>1, <1>2, <1>3 DEF JobsInv

LEMMA NoJobs ==
  ASSUME jobs' = <<>>
  PROVE  JobsInv(jobs, lost)' /\ JobsOfEarlier'
<1>1. DOMAIN jobs' = {}
  OBVIOUS
<1> QED
  BY <1>1 DEF JobsInv, JobsOfEarlier

ResolveLocalsType ==
  /\ lib \in 1 .. Len(selection.rows) + 1 /\ todo \subseteq Versions
  /\ picked \in Seq(Versions) /\ scanned \in Nat
  /\ jobs \in Seq(Job) /\ lost \subseteq Rows \X Versions

PlanType ==
  plan \in [saved : BOOLEAN, rows : Seq(Rows), jobs : Seq(Job), lost : SUBSET (Rows \X Versions)]

LEMMA ResolveTypeParts == ResolveTypeOK <=> SelectTypeOK /\ ResolveLocalsType /\ PlanType
BY DEF ResolveTypeOK, ResolveLocalsType, PlanType

\* The pairs of one library, from what was picked.
LEMMA PairsInv ==
  ASSUME ResolveTypeOK, SelectInv, stage = "releases", ReleasesInv
  PROVE  LET P == Pairs(Library, picked)
             all == PerUpstream(SourceOf(Library))
         IN /\ P \in Seq(Job) /\ Library \in Rows /\ SourceOf(Library) \in Sources
            /\ \A i \in DOMAIN P :
                 /\ P[i].row = Library /\ P[i].v1 < P[i].v2
                 /\ P[i].v1 \in all /\ P[i].v2 \in all
            /\ \A i, k \in DOMAIN P : i < k =>
                 P[i].v2 <= P[k].v1 /\ P[i + 1].v1 = P[i].v2
            /\ \A i \in DOMAIN P : \A v \in all :
                 P[i].v1 < v /\ v < P[i].v2 =>
                   v \notin archive.complete[Library] \/ <<Library, v>> \in lost
<1> DEFINE P == Pairs(Library, picked)
           all == PerUpstream(SourceOf(Library))
           L == Len(picked)
           m == IF L = 0 THEN 0 ELSE L - 1
<1>1. picked \in Seq(Versions) /\ L \in Nat /\ Versions \subseteq Nat /\ todo \subseteq Versions
  BY SelectAssumption DEF ResolveTypeOK, Versions
<1>0. \A x \in 1 .. L : picked[x] \in Versions /\ picked[x] \in Nat
  <2>1. picked \in [1 .. L -> Versions]
    BY <1>1
  <2>2. \A x \in 1 .. L : picked[x] \in Versions
    BY <2>1
  <2> QED
    BY <2>2, <1>1
<1>2. lib \in DOMAIN selection.rows /\ selection.rows \in Seq(Rows)
  BY DEF ResolveTypeOK, SelectTypeOK, ReleasesInv
<1>3. Library \in Rows /\ SourceOf(Library) \in Sources
  BY <1>2 DEF Library, SelectInv, EntriesKnown, Entries
<1>4. all \subseteq Versions
  BY <1>3, PerUpstreamType DEF ResolveTypeOK
<1>5. m \in Nat /\ 1 .. L - 1 = 1 .. m
  BY <1>1
<1>6. P = [i \in 1 .. m |-> [row |-> Library, v1 |-> picked[L - i + 1], v2 |-> picked[L - i]]]
  BY <1>5 DEF Pairs
<1>7. \A i \in 1 .. m : L - i \in 1 .. L /\ L - i + 1 \in 1 .. L /\ i \in Nat
  BY <1>1, <1>5
<1>8. /\ \A x \in 1 .. L : picked[x] \in all /\ \A v \in todo : v < picked[x]
      /\ \A x, y \in 1 .. L : x < y => picked[y] < picked[x]
      /\ \A v \in all \ todo :
           \/ \E x \in 1 .. L : picked[x] = v
           \/ v \notin archive.complete[Library]
           \/ <<Library, v>> \in lost
  <2>1. DOMAIN picked = 1 .. L
    BY <1>1
  <2>2. \A x \in 1 .. L : picked[x] \in all /\ \A v \in todo : v < picked[x]
    BY <2>1, Zenon DEF ReleasesInv
  <2>3. \A x, y \in 1 .. L : x < y => picked[y] < picked[x]
    BY <2>1, Zenon DEF ReleasesInv
  <2>4. \A v \in all \ todo :
           \/ \E x \in 1 .. L : picked[x] = v
           \/ v \notin archive.complete[Library]
           \/ <<Library, v>> \in lost
    BY <2>1, Zenon DEF ReleasesInv
  <2> QED
    BY <2>2, <2>3, <2>4, Zenon
<1>9. /\ DOMAIN P = 1 .. m
      /\ \A i \in 1 .. m : P[i].row = Library /\ P[i].v1 = picked[L - i + 1] /\ P[i].v2 = picked[L - i]
  <2>1. DOMAIN P = 1 .. m
    BY <1>6, Zenon
  <2>2. ASSUME NEW i \in 1 .. m
        PROVE  P[i].row = Library /\ P[i].v1 = picked[L - i + 1] /\ P[i].v2 = picked[L - i]
    <3>1. P[i] = [row |-> Library, v1 |-> picked[L - i + 1], v2 |-> picked[L - i]]
      BY <1>6, Zenon
    <3> QED
      BY <3>1
  <2> QED
    BY <2>1, <2>2
<1>10. \A i \in 1 .. m : P[i].v1 \in all /\ P[i].v2 \in all /\ P[i].v1 < P[i].v2
  <2> SUFFICES ASSUME NEW i \in 1 .. m
      PROVE  P[i].v1 \in all /\ P[i].v2 \in all /\ P[i].v1 < P[i].v2
    OBVIOUS
  <2>1. L - i \in 1 .. L /\ L - i + 1 \in 1 .. L /\ L - i < L - i + 1
    BY <1>1, <1>7
  <2>2. picked[L - i + 1] < picked[L - i]
    BY <2>1, <1>8
  <2> QED
    BY <2>1, <2>2, <1>8, <1>9
<1>11. P \in Seq(Job)
  <2>1. \A i \in 1 .. m :
          [row |-> Library, v1 |-> picked[L - i + 1], v2 |-> picked[L - i]] \in Job
    BY <1>1, <1>3, <1>7 DEF Job
  <2>2. P \in [1 .. m -> Job]
    BY <2>1, <1>6
  <2> QED
    BY <2>2, <1>5
<1>12. \A i, k \in 1 .. m : i < k => P[i].v2 <= P[k].v1 /\ P[i + 1].v1 = P[i].v2
  <2> SUFFICES ASSUME NEW i \in 1 .. m, NEW k \in 1 .. m, i < k
      PROVE  P[i].v2 <= P[k].v1 /\ P[i + 1].v1 = P[i].v2
    OBVIOUS
  <2>1. i + 1 \in 1 .. m /\ L - (i + 1) + 1 = L - i
    BY <1>1, <1>5
  <2>2. P[i + 1].v1 = P[i].v2
    BY <2>1, <1>9
  <2>3. L - i \in 1 .. L /\ L - k + 1 \in 1 .. L /\ L - k + 1 <= L - i
    BY <1>1, <1>7
  <2>4. picked[L - i] \in Nat /\ picked[L - k + 1] \in Nat
    BY <2>3, <1>0
  <2>5. CASE L - k + 1 = L - i
    BY <2>5, <2>2, <2>4, <1>9
  <2>6. CASE L - k + 1 < L - i
    <3>1. picked[L - i] < picked[L - k + 1]
      BY <2>3, <2>6, <1>8
    <3> QED
      BY <3>1, <2>2, <2>4, <1>9
  <2> QED
    BY <2>3, <2>5, <2>6, <1>1
<1>13. ASSUME NEW i \in 1 .. m, NEW v \in all, P[i].v1 < v, v < P[i].v2
       PROVE  v \notin archive.complete[Library] \/ <<Library, v>> \in lost
  <2>1. picked[L - i + 1] < v /\ v < picked[L - i] /\ v \in Nat
    BY <1>13, <1>9, <1>4, <1>1
  <2>2. L - i \in 1 .. L /\ L - i + 1 \in 1 .. L
    BY <1>7
  <2>3. v \notin todo
    <3>1. v \in todo => v < picked[L - i + 1]
      BY <2>2, <1>8
    <3>2. picked[L - i + 1] \in Nat
      BY <2>2, <1>0
    <3> QED
      BY <3>1, <3>2, <2>1
  <2>4. ASSUME NEW x \in 1 .. L, picked[x] = v
        PROVE  FALSE
    <3>1. x <= L - i \/ x >= L - i + 1
      BY <1>1, <2>2
    <3>2. CASE x <= L - i
      <4>1. x < L - i => picked[L - i] < picked[x]
        BY <1>8, <2>2
      <4>2. picked[L - i] \in Nat /\ picked[x] \in Nat
        BY <2>2, <1>0
      <4> QED
        BY <4>1, <4>2, <3>2, <2>1, <2>4, <2>2
    <3>3. CASE x >= L - i + 1
      <4>1. L - i + 1 < x => picked[x] < picked[L - i + 1]
        BY <1>8, <2>2
      <4>2. picked[L - i + 1] \in Nat /\ picked[x] \in Nat
        BY <2>2, <1>0
      <4> QED
        BY <4>1, <4>2, <3>3, <2>1, <2>4, <2>2
    <3> QED
      BY <3>1, <3>2, <3>3
  <2> QED
    BY <2>3, <2>4, <1>8
<1> QED
  BY <1>3, <1>9, <1>10, <1>11, <1>12, <1>13

\* The jobs of a library go behind those of the libraries before, which are
\* of other sources.
LEMMA PairUpJobs ==
  ASSUME IInv, PairUp
  PROVE  jobs' \in Seq(Job) /\ JobsInv(jobs, lost)' /\ JobsOfEarlier'
<1> DEFINE P == Pairs(Library, picked)
           D == Len(jobs)
           J == jobs \o P
           all == PerUpstream(SourceOf(Library))
<1>0. /\ archive' = archive /\ selection' = selection /\ jobs' = J /\ lib' = lib + 1
      /\ lost' = lost /\ stage = "releases"
  BY DEF PairUp, KeepSelect
<1>1. /\ ResolveTypeOK /\ SelectInv /\ ReleasesInv /\ JobsInv(jobs, lost) /\ JobsOfEarlier
      /\ jobs \in Seq(Job)
  BY <1>0 DEF IInv, ResolveTypeOK
<1>2. P \in Seq(Job) /\ Library \in Rows /\ SourceOf(Library) \in Sources
  BY <1>0, <1>1, PairsInv
<1>3. \A i \in DOMAIN P :
        P[i].row = Library /\ P[i].v1 < P[i].v2 /\ P[i].v1 \in all /\ P[i].v2 \in all
  BY <1>0, <1>1, PairsInv
<1>4. \A i, k \in DOMAIN P : i < k => P[i].v2 <= P[k].v1 /\ P[i + 1].v1 = P[i].v2
  BY <1>0, <1>1, PairsInv
<1>5. \A i \in DOMAIN P : \A v \in all :
        P[i].v1 < v /\ v < P[i].v2 => v \notin archive.complete[Library] \/ <<Library, v>> \in lost
  BY <1>0, <1>1, PairsInv
<1>6. /\ J \in Seq(Job) /\ D \in Nat /\ Len(P) \in Nat
      /\ DOMAIN J = 1 .. D + Len(P) /\ DOMAIN jobs = 1 .. D /\ DOMAIN P = 1 .. Len(P)
  BY <1>1, <1>2
<1>7. /\ \A i \in 1 .. D : J[i] = jobs[i]
      /\ \A i \in DOMAIN J : i \notin 1 .. D => i - D \in DOMAIN P /\ J[i] = P[i - D]
  BY <1>1, <1>2, <1>6
<1>8. /\ lib \in Nat /\ lib <= Len(selection.rows) /\ selection.rows \in Seq(Rows)
      /\ lib \in DOMAIN Entries /\ Library = Entries[lib]
  BY <1>1 DEF ResolveTypeOK, SelectTypeOK, ReleasesInv, Library, Entries
<1>9. \A i \in 1 .. D : \E x \in DOMAIN Entries : x < lib /\ J[i].row = Entries[x]
  BY <1>1, <1>6, <1>7 DEF JobsOfEarlier
<1>10. \A i \in DOMAIN J \ 1 .. D : J[i].row = Library
  BY <1>3, <1>7
<1>11. \A i \in 1 .. D, k \in DOMAIN J \ 1 .. D : JobSource(J[i]) # JobSource(J[k])
  <2> SUFFICES ASSUME NEW i \in 1 .. D, NEW k \in DOMAIN J \ 1 .. D,
                      JobSource(J[i]) = JobSource(J[k])
      PROVE  FALSE
    OBVIOUS
  <2>1. PICK x \in DOMAIN Entries : x < lib /\ J[i].row = Entries[x]
    BY <1>9
  <2>2. SourceOf(Entries[x]) = SourceOf(Entries[lib])
    BY <2>1, <1>10, <1>8 DEF JobSource
  <2>3. x = lib
    BY <2>2, <1>1, <1>8 DEF SelectInv, OneEntryPerSource
  <2> QED
    BY <2>1, <2>3, <1>8
<1>12. JobsOfEarlier'
  <2> SUFFICES ASSUME NEW i \in DOMAIN J
      PROVE  \E x \in DOMAIN Entries : x < lib + 1 /\ J[i].row = Entries[x]
    BY <1>0 DEF JobsOfEarlier, Entries
  <2>1. CASE i \in 1 .. D
    <3>1. PICK x \in DOMAIN Entries : x < lib /\ J[i].row = Entries[x]
      BY <2>1, <1>9
    <3>2. x \in Nat
      BY <1>8 DEF Entries
    <3> QED
      BY <3>1, <3>2, <1>8
  <2>2. CASE i \notin 1 .. D
    BY <2>2, <1>8, <1>10
  <2> QED
    BY <2>1, <2>2
<1>13. \A i \in DOMAIN J :
         /\ J[i].v1 < J[i].v2
         /\ J[i].v1 \in PerUpstream(JobSource(J[i])) /\ J[i].v2 \in PerUpstream(JobSource(J[i]))
  <2> SUFFICES ASSUME NEW i \in DOMAIN J
      PROVE  /\ J[i].v1 < J[i].v2
             /\ J[i].v1 \in PerUpstream(JobSource(J[i]))
             /\ J[i].v2 \in PerUpstream(JobSource(J[i]))
    OBVIOUS
  <2>1. CASE i \in 1 .. D
    BY <2>1, <1>1, <1>6, <1>7 DEF JobsInv
  <2>2. CASE i \notin 1 .. D
    BY <2>2, <1>3, <1>7 DEF JobSource
  <2> QED
    BY <2>1, <2>2
<1>14. \A i, k \in DOMAIN J :
         i < k /\ JobSource(J[i]) = JobSource(J[k]) =>
           /\ J[i].v2 <= J[k].v1
           /\ JobSource(J[i + 1]) = JobSource(J[i])
           /\ J[i + 1].v1 = J[i].v2
  <2> SUFFICES ASSUME NEW i \in DOMAIN J, NEW k \in DOMAIN J,
                      i < k, JobSource(J[i]) = JobSource(J[k])
      PROVE  /\ J[i].v2 <= J[k].v1
             /\ JobSource(J[i + 1]) = JobSource(J[i])
             /\ J[i + 1].v1 = J[i].v2
    OBVIOUS
  <2>1. CASE k \in 1 .. D
    <3>1. i \in 1 .. D /\ i + 1 \in 1 .. D
      BY <2>1, <1>6
    <3>2. J[i] = jobs[i] /\ J[k] = jobs[k] /\ J[i + 1] = jobs[i + 1]
      BY <3>1, <2>1, <1>7
    <3>3. i \in DOMAIN jobs /\ k \in DOMAIN jobs /\ JobSource(jobs[i]) = JobSource(jobs[k])
      BY <3>1, <3>2, <2>1, <1>6
    <3>4. /\ jobs[i].v2 <= jobs[k].v1 /\ JobSource(jobs[i + 1]) = JobSource(jobs[i])
          /\ jobs[i + 1].v1 = jobs[i].v2
      BY <3>3, <1>1 DEF JobsInv
    <3> QED
      BY <3>2, <3>4
  <2>2. CASE k \notin 1 .. D
    <3>1. i \notin 1 .. D
      BY <2>2, <1>11
    <3>2. i + 1 \in DOMAIN J /\ i + 1 \notin 1 .. D
      BY <3>1, <1>6
    <3>3. /\ J[i] = P[i - D] /\ J[k] = P[k - D] /\ J[i + 1] = P[i + 1 - D]
          /\ i - D \in DOMAIN P /\ k - D \in DOMAIN P
      BY <3>1, <3>2, <2>2, <1>7
    <3>4. i - D < k - D /\ i + 1 - D = (i - D) + 1
      BY <1>6
    <3>5. P[i - D].v2 <= P[k - D].v1 /\ P[(i - D) + 1].v1 = P[i - D].v2
      BY <3>3, <3>4, <1>4
    <3>6. JobSource(J[i + 1]) = JobSource(J[i])
      BY <3>1, <3>2, <1>10 DEF JobSource
    <3> QED
      BY <3>3, <3>4, <3>5, <3>6
  <2> QED
    BY <2>1, <2>2
<1>15. \A i \in DOMAIN J : \A v \in Versions :
         Between(J[i], v) => v \notin archive.complete[J[i].row] \/ <<J[i].row, v>> \in lost
  <2> SUFFICES ASSUME NEW i \in DOMAIN J, NEW v \in Versions, Between(J[i], v)
      PROVE  v \notin archive.complete[J[i].row] \/ <<J[i].row, v>> \in lost
    OBVIOUS
  <2>1. CASE i \in 1 .. D
    <3>1. i \in DOMAIN jobs /\ J[i] = jobs[i]
      BY <2>1, <1>6, <1>7
    <3> QED
      BY <3>1, <1>1 DEF JobsInv
  <2>2. CASE i \notin 1 .. D
    <3>1. i - D \in DOMAIN P /\ J[i] = P[i - D] /\ J[i].row = Library
      BY <2>2, <1>7, <1>10
    <3>2. P[i - D].v1 < v /\ v < P[i - D].v2 /\ v \in all
      BY <3>1 DEF Between, JobSource
    <3> QED
      BY <3>1, <3>2, <1>5
  <2> QED
    BY <2>1, <2>2
<1>16. JobsInv(jobs, lost)'
  <2>1. \A i \in DOMAIN jobs' :
          /\ jobs'[i].v1 < jobs'[i].v2
          /\ jobs'[i].v1 \in PerUpstream(JobSource(jobs[i]))'
          /\ jobs'[i].v2 \in PerUpstream(JobSource(jobs[i]))'
    BY <1>0, <1>13, ArchiveFixed
  <2>2. \A i, k \in DOMAIN jobs' :
          i < k /\ JobSource(jobs[i])' = JobSource(jobs[k])' =>
            /\ jobs'[i].v2 <= jobs'[k].v1
            /\ JobSource(jobs[i + 1])' = JobSource(jobs[i])'
            /\ jobs'[i + 1].v1 = jobs'[i].v2
    <3>1. \A x : JobSource(jobs[x])' = JobSource(jobs'[x])
      BY <1>0, ArchiveFixed
    <3>2. \A i, k \in DOMAIN jobs' :
            i < k /\ JobSource(jobs'[i]) = JobSource(jobs'[k]) =>
              /\ jobs'[i].v2 <= jobs'[k].v1
              /\ JobSource(jobs'[i + 1]) = JobSource(jobs'[i])
              /\ jobs'[i + 1].v1 = jobs'[i].v2
      BY <1>0, <1>14
    <3> QED
      BY <3>1, <3>2
  <2>3. \A i \in DOMAIN jobs' : \A v \in Versions :
          Between(jobs[i], v)' =>
            v \notin archive'.complete[jobs'[i].row] \/ <<jobs'[i].row, v>> \in lost'
    <3> SUFFICES ASSUME NEW i \in DOMAIN jobs', NEW v \in Versions, Between(jobs[i], v)'
        PROVE  v \notin archive'.complete[jobs'[i].row] \/ <<jobs'[i].row, v>> \in lost'
      OBVIOUS
    <3>1. Between(jobs'[i], v)
      BY <1>0, ArchiveFixed
    <3> QED
      BY <3>1, <1>0, <1>15
  <2> QED
    BY <2>1, <2>2, <2>3 DEF JobsInv
<1> QED
  BY <1>0, <1>6, <1>12, <1>16

LEMMA LookReleases ==
  ASSUME IInv, NEW v \in todo, PackagesFail(v) \/ Incomplete(v) \/ Pick(v)
  PROVE  /\ ReleasesInv' /\ picked' \in Seq(Versions) /\ lost' \subseteq Rows \X Versions
         /\ LookAt(v) /\ lost \subseteq lost'
<1> DEFINE all == PerUpstream(SourceOf(Library))
<1>0. LookAt(v) /\ stage = "releases"
  BY DEF PackagesFail, Incomplete, Pick, LookAt, Picking
<1>1. /\ archive' = archive /\ selection' = selection /\ lib' = lib
      /\ todo' = todo \ {v} /\ \A w \in todo : w <= v
  BY <1>0 DEF LookAt, KeepSelect
<1>2. /\ ReleasesInv /\ picked \in Seq(Versions) /\ lost \subseteq Rows \X Versions
      /\ todo \subseteq Versions /\ Versions \subseteq Nat /\ SelectTypeOK /\ SelectInv
      /\ lib \in Nat /\ lib >= 1
  BY <1>0, SelectAssumption DEF IInv, ResolveTypeOK, Versions
<1>3. Library \in Rows
  <2>1. lib \in DOMAIN selection.rows /\ selection.rows \in Seq(Rows)
    BY <1>2 DEF ReleasesInv, SelectTypeOK
  <2> QED
    BY <2>1 DEF Library
<1>4. Library' = Library /\ PerUpstream(SourceOf(Library))' = all
  BY <1>1 DEF Library, PerUpstream, UpstreamOf, SourceOf
<1>5. /\ lib <= Len(selection.rows) /\ todo \subseteq all
      /\ \A i \in DOMAIN picked : picked[i] \in all /\ \A w \in todo : w < picked[i]
      /\ \A i, k \in DOMAIN picked : i < k => picked[k] < picked[i]
      /\ \A w \in all \ todo :
           \/ \E i \in DOMAIN picked : picked[i] = w
           \/ w \notin archive.complete[Library]
           \/ <<Library, w>> \in lost
  BY <1>2 DEF ReleasesInv
<1>6. CASE Pick(v)
  <2>1. picked' = Append(picked, v) /\ lost' = lost
    BY <1>6 DEF Pick
  <2>2. /\ DOMAIN picked = 1 .. Len(picked) /\ DOMAIN picked' = 1 .. Len(picked) + 1
        /\ \A i \in 1 .. Len(picked) : picked'[i] = picked[i]
        /\ picked'[Len(picked) + 1] = v /\ Len(picked) \in Nat
    BY <2>1, <1>2
  <2>3. \A i \in DOMAIN picked' : picked'[i] \in all
    BY <2>2, <1>5
  <2>4. \A i \in DOMAIN picked' : \A w \in todo' : w < picked'[i]
    <3> SUFFICES ASSUME NEW i \in DOMAIN picked', NEW w \in todo'
        PROVE  w < picked'[i]
      OBVIOUS
    <3>1. CASE i \in 1 .. Len(picked)
      BY <3>1, <2>2, <1>1, <1>5
    <3>2. CASE i = Len(picked) + 1
      <4>1. w \in todo /\ w # v /\ w <= v /\ w \in Nat /\ v \in Nat
        BY <1>1, <1>2
      <4> QED
        BY <4>1, <3>2, <2>2
    <3> QED
      BY <3>1, <3>2, <2>2
  <2>5. \A i, k \in DOMAIN picked' : i < k => picked'[k] < picked'[i]
    <3> SUFFICES ASSUME NEW i \in DOMAIN picked', NEW k \in DOMAIN picked', i < k
        PROVE  picked'[k] < picked'[i]
      OBVIOUS
    <3>1. i \in 1 .. Len(picked) /\ picked'[i] = picked[i]
      BY <2>2
    <3>2. CASE k \in 1 .. Len(picked)
      BY <3>1, <3>2, <2>2, <1>5
    <3>3. CASE k = Len(picked) + 1
      BY <3>1, <3>3, <2>2, <1>5
    <3> QED
      BY <3>2, <3>3, <2>2
  <2>6. \A w \in all \ todo' :
          \/ \E i \in DOMAIN picked' : picked'[i] = w
          \/ w \notin archive.complete[Library]
          \/ <<Library, w>> \in lost'
    <3> SUFFICES ASSUME NEW w \in all \ todo', w \in archive.complete[Library], <<Library, w>> \notin lost
        PROVE  \E i \in DOMAIN picked' : picked'[i] = w
      BY <2>1
    <3>1. CASE w = v
      BY <3>1, <2>2
    <3>2. CASE w # v
      <4>1. PICK i \in DOMAIN picked : picked[i] = w
        BY <3>2, <1>1, <1>5
      <4>2. i \in DOMAIN picked' /\ picked'[i] = w
        BY <4>1, <2>2
      <4> QED
        BY <4>2
    <3> QED
      BY <3>1, <3>2
  <2>7. ReleasesInv'
    BY <1>1, <1>4, <1>5, <2>3, <2>4, <2>5, <2>6 DEF ReleasesInv
  <2>8. picked' \in Seq(Versions)
    BY <2>1, <1>2
  <2> QED
    BY <2>7, <2>8, <2>1, <1>0, <1>2
<1>7. CASE PackagesFail(v) \/ Incomplete(v)
  <2>1. /\ picked' = picked /\ lost \subseteq lost' /\ lost' \subseteq lost \cup {<<Library, v>>}
        /\ v \notin archive.complete[Library] \/ <<Library, v>> \in lost'
    BY <1>7 DEF PackagesFail, Incomplete
  <2>2. \A w \in all \ todo' :
          \/ \E i \in DOMAIN picked' : picked'[i] = w
          \/ w \notin archive.complete[Library]
          \/ <<Library, w>> \in lost'
    BY <2>1, <1>1, <1>5
  <2>3. ReleasesInv'
    BY <1>1, <1>4, <1>5, <2>1, <2>2 DEF ReleasesInv
  <2>4. lost' \subseteq Rows \X Versions
    BY <2>1, <1>2, <1>3
  <2> QED
    BY <2>1, <2>3, <2>4, <1>0, <1>2
<1> QED
  BY <1>6, <1>7

(***************************************************************************)
(* The inductive invariant.                                                *)
(***************************************************************************)
LEMMA InitIInv == Init => IInv
<1> SUFFICES ASSUME Init PROVE IInv
  OBVIOUS
<1>1. /\ archive \in Archives /\ stage = "idle" /\ commands = 0
      /\ row = 1 /\ examined = 0 /\ n = [l \in Langs |-> 0]
      /\ looked = {} /\ selected = <<>> /\ missed = {}
      /\ selection = [saved |-> FALSE, rows |-> <<>>, missed |-> {}]
      /\ lib = 1 /\ todo = {} /\ picked = <<>> /\ scanned = 0 /\ jobs = <<>> /\ lost = {}
      /\ plan = [saved |-> FALSE, rows |-> <<>>, jobs |-> <<>>, lost |-> {}]
  BY DEF Init, SelectInit, NoSelection, NoPlan
<1>2. ResolveTypeOK
  BY <1>1, SelectAssumption DEF ResolveTypeOK, SelectTypeOK, Stages
<1>3. DOMAIN selected = {} /\ DOMAIN Entries = {} /\ DOMAIN jobs = {} /\ DOMAIN plan.jobs = {}
  BY <1>1 DEF Entries
<1>4. \A l \in Langs : /\ n[l] = Cardinality({i \in DOMAIN selected : archive.hint[selected[i]] = l})
                       /\ n[l] <= Limit[l]
  <2> SUFFICES ASSUME NEW l \in Langs
      PROVE  /\ n[l] = Cardinality({i \in DOMAIN selected : archive.hint[selected[i]] = l})
             /\ n[l] <= Limit[l]
    OBVIOUS
  <2>1. Cardinality(Entry(<<>>, archive.hint, l)) = 0
    BY CountEmpty
  <2>2. Cardinality({i \in DOMAIN selected : archive.hint[selected[i]] = l}) = 0
    BY <2>1, <1>1 DEF Entry
  <2>3. n[l] = 0 /\ Limit[l] \in Nat
    BY <1>1, SelectAssumption
  <2> QED
    BY <2>2, <2>3
<1>5. QuotaKept
  <2> SUFFICES ASSUME NEW l \in Langs PROVE Cardinality(EntriesIn(l)) <= Limit[l]
    BY DEF QuotaKept
  <2>1. EntriesIn(l) = {}
    BY <1>3 DEF EntriesIn
  <2>2. Limit[l] \in Nat
    BY SelectAssumption
  <2> QED
    BY <2>1, <2>2, FS_EmptySet
<1>6. SelectInv
  BY <1>1, <1>3, <1>4, <1>5 DEF SelectInv, OneEntryPerSource, EntriesKnown
<1>7. JobsInv(jobs, lost) /\ JobsOfEarlier /\ JobsInv(plan.jobs, plan.lost)
  BY <1>3 DEF JobsInv, JobsOfEarlier
<1> QED
  BY <1>1, <1>2, <1>6, <1>7 DEF IInv

LEMMA SelectStepInv ==
  ASSUME IInv, SelectStep, resolveVars' = resolveVars, plan' = plan
  PROVE  IInv'
<1>0. SelectTypeOK /\ SelectInv /\ JobsInv(plan.jobs, plan.lost) /\ PlanType
  BY DEF IInv, ResolveTypeOK, PlanType
<1>1. SelectEffect
  BY <1>0, SelectStepEffect
<1>2. /\ lib' = 1 /\ jobs' = <<>> /\ todo' = todo /\ picked' = picked /\ scanned' = scanned
      /\ lost' = lost /\ plan' = plan
  BY <1>1 DEF IInv, resolveVars, SelectEffect
<1>3. ResolveTypeOK'
  <2>1. selection'.rows \in Seq(Rows)
    BY <1>1 DEF SelectEffect, SelectTypeOK
  <2>2. lib' \in 1 .. Len(selection'.rows) + 1
    BY <2>1, <1>2
  <2> QED
    BY <1>0, <1>1, <1>2, <2>2 DEF IInv, ResolveTypeOK, SelectEffect, PlanType
<1>4. JobsInv(jobs, lost)' /\ JobsOfEarlier'
  BY <1>2, NoJobs
<1>5. JobsInv(plan.jobs, plan.lost)'
  BY <1>0, <1>1, <1>2, PlanKept DEF SelectEffect
<1> QED
  BY <1>1, <1>2, <1>3, <1>4, <1>5 DEF IInv, SelectEffect

LEMMA ResolveStepInv ==
  ASSUME IInv, ResolveStep
  PROVE  IInv'
<1>0. /\ SelectTypeOK /\ SelectInv /\ JobsInv(jobs, lost) /\ JobsInv(plan.jobs, plan.lost)
      /\ PlanType /\ ResolveLocalsType /\ JobsOfEarlier
  BY DEF IInv, ResolveTypeOK, PlanType, ResolveLocalsType
<1>1. ASSUME KeepSelect, stage' \in Stages, commands' \in Nat,
             PlanType', ResolveLocalsType',
             stage' \in {"idle", "select"} => lib' = 1 /\ jobs' = <<>>,
             stage' = "releases" => ReleasesInv',
             JobsInv(jobs, lost)', JobsOfEarlier', JobsInv(plan.jobs, plan.lost)'
      PROVE  IInv'
  <2>1. SelectTypeOK' /\ SelectInv'
    BY <1>0, <1>1, ResolveKeepsSelect
  <2>2. ResolveTypeOK'
    BY <1>1, <2>1 DEF ResolveTypeOK, PlanType, ResolveLocalsType
  <2> QED
    BY <1>1, <2>1, <2>2 DEF IInv
<1>2. ASSUME KeepSelect, plan' = plan, stage' \in Stages, commands' \in Nat
      PROVE  /\ PlanType' /\ JobsInv(plan.jobs, plan.lost)'
             /\ archive' = archive /\ selection' = selection
  BY <1>0, <1>2, PlanKept DEF PlanType, KeepSelect
<1>3. ASSUME FreshResolve, KeepSelect
      PROVE  /\ ResolveLocalsType' /\ lib' = 1 /\ jobs' = <<>>
             /\ JobsInv(jobs, lost)' /\ JobsOfEarlier'
  <2>1. /\ lib' = 1 /\ todo' = {} /\ picked' = <<>> /\ scanned' = 0 /\ jobs' = <<>> /\ lost' = {}
        /\ selection' = selection
    BY <1>3 DEF FreshResolve, KeepSelect
  <2>2. lib' \in 1 .. Len(selection'.rows) + 1
    <3>1. selection'.rows \in Seq(Rows)
      BY <2>1, <1>0 DEF SelectTypeOK
    <3> QED
      BY <2>1, <3>1
  <2>3. ResolveLocalsType'
    BY <2>1, <2>2 DEF ResolveLocalsType
  <2> QED
    BY <2>1, <2>3, NoJobs
<1>4. CASE StartResolve
  <2>1. /\ FreshResolve /\ KeepSelect /\ plan' = plan /\ stage' = "versions"
        /\ commands' = commands + 1
    BY <1>4 DEF StartResolve, Command
  <2>2. stage' \in Stages /\ commands' \in Nat
    BY <2>1, <1>0 DEF SelectTypeOK, Stages
  <2> QED
    BY <1>1, <1>2, <1>3, <2>1, <2>2
<1>5. CASE ListVersions
  <2>1. /\ AtLibrary /\ KeepSelect /\ plan' = plan /\ stage' = "releases" /\ commands' = commands
        /\ todo' = PerUpstream(SourceOf(Library)) /\ picked' = <<>> /\ scanned' = 0
        /\ lib' = lib /\ jobs' = jobs /\ lost' = lost
    BY <1>5 DEF ListVersions
  <2>2. stage' \in Stages /\ commands' \in Nat
    BY <2>1, <1>0 DEF SelectTypeOK, Stages
  <2>3. archive' = archive /\ selection' = selection
    BY <2>1 DEF KeepSelect
  <2>4. lib \in DOMAIN selection.rows /\ selection.rows \in Seq(Rows) /\ lib <= Len(selection.rows)
    BY <2>1, <1>0 DEF AtLibrary, ResolveLocalsType, SelectTypeOK
  <2>5. Library \in Rows /\ SourceOf(Library) \in Sources
    BY <2>4, <1>0 DEF Library, SelectInv, EntriesKnown, Entries
  <2>6. todo' \subseteq Versions
    BY <2>1, <2>5, <1>0, PerUpstreamType
  <2>7. ResolveLocalsType'
    BY <2>1, <2>3, <2>6, <1>0 DEF ResolveLocalsType
  <2>8. PerUpstream(SourceOf(Library))' = PerUpstream(SourceOf(Library))
    BY <2>1, <2>3 DEF PerUpstream, SourceOf, UpstreamOf, Library
  <2>9. DOMAIN picked' = {}
    BY <2>1
  <2>10. ReleasesInv'
    BY <2>1, <2>3, <2>4, <2>8, <2>9 DEF ReleasesInv
  <2>11. JobsInv(jobs, lost)'
    BY <2>1, <2>3, <1>0, JobsKept
  <2>12. JobsOfEarlier'
    BY <2>1, <2>3, <1>0 DEF JobsOfEarlier, Entries
  <2>13. stage' \notin {"idle", "select"}
    BY <2>1
  <2> QED
    BY <1>1, <1>2, <2>1, <2>2, <2>7, <2>10, <2>11, <2>12, <2>13
<1>6. CASE ListVersionsFails
  <2>1. /\ AtLibrary /\ KeepSelect /\ plan' = plan /\ stage' = stage /\ commands' = commands
        /\ todo' = todo /\ picked' = picked /\ scanned' = scanned
        /\ lib' = lib + 1 /\ jobs' = jobs /\ lost' = lost \cup {Library} \X Versions
        /\ stage = "versions"
    BY <1>6 DEF ListVersionsFails, AtLibrary
  <2>2. stage' \in Stages /\ commands' \in Nat
    BY <2>1, <1>0 DEF SelectTypeOK
  <2>3. archive' = archive /\ selection' = selection
    BY <2>1 DEF KeepSelect
  <2>4. /\ lib \in DOMAIN selection.rows /\ selection.rows \in Seq(Rows)
        /\ lib + 1 \in 1 .. Len(selection.rows) + 1 /\ lib \in Nat
    BY <2>1, <1>0 DEF AtLibrary, ResolveLocalsType, SelectTypeOK
  <2>5. Library \in Rows
    BY <2>4 DEF Library
  <2>6. lost' \subseteq Rows \X Versions
    BY <2>1, <2>5, <1>0 DEF ResolveLocalsType
  <2>7. ResolveLocalsType'
    BY <2>1, <2>3, <2>4, <2>6, <1>0 DEF ResolveLocalsType
  <2>8. JobsInv(jobs, lost)'
    BY <2>1, <2>3, <1>0, JobsKept
  <2>9. JobsOfEarlier'
    <3> SUFFICES ASSUME NEW i \in DOMAIN jobs
        PROVE  \E x \in DOMAIN Entries : x < lib + 1 /\ jobs[i].row = Entries[x]
      BY <2>1, <2>3 DEF JobsOfEarlier, Entries
    <3>1. PICK x \in DOMAIN Entries : x < lib /\ jobs[i].row = Entries[x]
      BY <1>0 DEF JobsOfEarlier
    <3>2. x \in Nat
      BY <2>4 DEF Entries
    <3> QED
      BY <3>1, <3>2, <2>4
  <2>10. stage' = "versions"
    BY <2>1
  <2> QED
    BY <1>1, <1>2, <2>1, <2>2, <2>7, <2>8, <2>9, <2>10
<1>7. ASSUME NEW v \in todo, PackagesFail(v) \/ Incomplete(v) \/ Pick(v)
      PROVE  IInv'
  <2>1. /\ ReleasesInv' /\ picked' \in Seq(Versions) /\ lost' \subseteq Rows \X Versions
        /\ LookAt(v) /\ lost \subseteq lost'
    BY <1>7, LookReleases
  <2>2. /\ KeepSelect /\ plan' = plan /\ stage' = stage /\ commands' = commands
        /\ todo' = todo \ {v} /\ scanned' = scanned + 1 /\ lib' = lib /\ jobs' = jobs
        /\ stage = "releases"
    BY <2>1 DEF LookAt, Picking
  <2>3. stage' \in Stages /\ commands' \in Nat
    BY <2>2, <1>0 DEF SelectTypeOK
  <2>4. archive' = archive /\ selection' = selection
    BY <2>2 DEF KeepSelect
  <2>5. ResolveLocalsType'
    BY <2>1, <2>2, <2>4, <1>0 DEF ResolveLocalsType
  <2>6. JobsInv(jobs, lost)'
    BY <2>1, <2>2, <2>4, <1>0, JobsKept
  <2>7. JobsOfEarlier'
    BY <2>2, <2>4, <1>0 DEF JobsOfEarlier, Entries
  <2>8. stage' = "releases"
    BY <2>2
  <2> QED
    BY <1>1, <1>2, <2>1, <2>2, <2>3, <2>5, <2>6, <2>7, <2>8
<1>8. CASE PairUp
  <2>1. /\ KeepSelect /\ plan' = plan /\ stage' = "versions" /\ commands' = commands
        /\ todo' = {} /\ picked' = <<>> /\ scanned' = 0 /\ lib' = lib + 1 /\ lost' = lost
        /\ stage = "releases"
    BY <1>8 DEF PairUp
  <2>2. stage' \in Stages /\ commands' \in Nat
    BY <2>1, <1>0 DEF SelectTypeOK, Stages
  <2>3. jobs' \in Seq(Job) /\ JobsInv(jobs, lost)' /\ JobsOfEarlier'
    BY <1>8, PairUpJobs
  <2>4. selection' = selection
    BY <2>1 DEF KeepSelect
  <2>5. lib + 1 \in 1 .. Len(selection.rows) + 1
    <3>1. lib <= Len(selection.rows) /\ selection.rows \in Seq(Rows)
      BY <2>1, <1>0 DEF IInv, ReleasesInv, SelectTypeOK
    <3> QED
      BY <3>1, <1>0 DEF ResolveLocalsType
  <2>6. ResolveLocalsType'
    BY <2>1, <2>3, <2>4, <2>5, <1>0 DEF ResolveLocalsType
  <2> QED
    BY <1>1, <1>2, <2>1, <2>2, <2>3, <2>6
<1>9. CASE SavePlan
  <2>1. /\ KeepSelect /\ FreshResolve /\ stage' = "idle" /\ commands' = commands
        /\ plan' = [saved |-> TRUE, rows |-> selection.rows, jobs |-> jobs, lost |-> lost]
    BY <1>9 DEF SavePlan
  <2>2. stage' \in Stages /\ commands' \in Nat
    BY <2>1, <1>0 DEF SelectTypeOK, Stages
  <2>3. archive' = archive
    BY <2>1 DEF KeepSelect
  <2>4. JobsInv(plan.jobs, plan.lost)'
    BY <2>1, <2>3, <1>0, PlanSaved
  <2>5. PlanType'
    BY <2>1, <1>0 DEF PlanType, ResolveLocalsType, SelectTypeOK
  <2> QED
    BY <1>1, <1>3, <2>1, <2>2, <2>4, <2>5
<1>10. CASE ResolveAborts
  <2>1. /\ KeepSelect /\ FreshResolve /\ stage' = "idle" /\ commands' = commands /\ plan' = plan
    BY <1>10 DEF ResolveAborts
  <2>2. stage' \in Stages /\ commands' \in Nat
    BY <2>1, <1>0 DEF SelectTypeOK, Stages
  <2> QED
    BY <1>1, <1>2, <1>3, <2>1, <2>2
<1> QED
  BY <1>4, <1>5, <1>6, <1>7, <1>8, <1>9, <1>10 DEF ResolveStep

LEMMA StutterInv ==
  ASSUME IInv, vars' = vars
  PROVE  IInv'
<1>0. JobsInv(jobs, lost) /\ JobsInv(plan.jobs, plan.lost) /\ SelectInv /\ ResolveTypeOK
  BY DEF IInv
<1>1. /\ archive' = archive /\ stage' = stage /\ commands' = commands /\ selectVars' = selectVars
      /\ selection' = selection /\ resolveVars' = resolveVars /\ plan' = plan
  BY DEF vars
<1>2. /\ lib' = lib /\ todo' = todo /\ picked' = picked /\ scanned' = scanned
      /\ jobs' = jobs /\ lost' = lost
  BY <1>1 DEF resolveVars
<1>3. KeepSelect /\ stage' \in Stages /\ commands' \in Nat
  BY <1>0, <1>1 DEF KeepSelect, ResolveTypeOK, SelectTypeOK
<1>4. SelectTypeOK' /\ SelectInv'
  BY <1>0, <1>3, ResolveKeepsSelect DEF ResolveTypeOK
<1>5. ResolveTypeOK'
  BY <1>0, <1>1, <1>2, <1>4 DEF ResolveTypeOK
<1>6. JobsInv(jobs, lost)' /\ JobsInv(plan.jobs, plan.lost)'
  BY <1>0, <1>1, <1>2, JobsKept, PlanKept
<1>7. JobsOfEarlier'
  BY <1>1, <1>2 DEF IInv, JobsOfEarlier, Entries
<1>8. stage' = "releases" => ReleasesInv'
  <2>1. PerUpstream(SourceOf(Library))' = PerUpstream(SourceOf(Library)) /\ Library' = Library
    BY <1>1, <1>2 DEF PerUpstream, SourceOf, UpstreamOf, Library
  <2> QED
    BY <2>1, <1>1, <1>2 DEF IInv, ReleasesInv
<1> QED
  BY <1>1, <1>2, <1>4, <1>5, <1>6, <1>7, <1>8 DEF IInv

\* The archive never changes, and all files and locals of both stages keep
\* the invariant, through any number of commands (select.cpp, resolve.cpp).
THEOREM CorpusInvariance == Spec => []IInv
<1>1. Init => IInv
  BY InitIInv
<1>2. IInv /\ [Next]_vars => IInv'
  <2> SUFFICES ASSUME IInv, [Next]_vars PROVE IInv'
    OBVIOUS
  <2>1. CASE SelectStep /\ UNCHANGED <<resolveVars, plan>>
    BY <2>1, SelectStepInv
  <2>2. CASE ResolveStep
    BY <2>2, ResolveStepInv
  <2>3. CASE Rest \/ vars' = vars
    BY <2>3, StutterInv DEF Rest
  <2> QED
    BY <2>1, <2>2, <2>3 DEF Next
<1> QED
  BY <1>1, <1>2, PTL DEF Spec

\* "One entry per source package" (METHODOLOGY.md:63), in every selection
\* that is ever saved (select.cpp:70-72).
THEOREM EntriesDistinct == Spec => []OneEntryPerSource
<1>1. IInv => OneEntryPerSource
  BY DEF IInv, SelectInv
<1> QED
  BY <1>1, CorpusInvariance, PTL

\* No selection has more entries of a language than its limit
\* (select.cpp:56, 64-67, 97).
THEOREM LimitsKept == Spec => []QuotaKept
<1>1. IInv => QuotaKept
  BY DEF IInv, SelectInv
<1> QED
  BY <1>1, CorpusInvariance, PTL

\* Every pair of every plan is older first, and the pairs of a source follow
\* one another in an unbroken chain (resolve.cpp:105, 161-163).
THEOREM ChainsOlderFirst == Spec => []ChainedOlderFirst
<1>1. IInv => ChainedOlderFirst
  BY DEF IInv, JobsInv, ChainedOlderFirst, Plan
<1> QED
  BY <1>1, CorpusInvariance, PTL

\* A release that a pair leaves out lacks the packages of the library, or the
\* request for them failed (resolve.cpp:122-133).
THEOREM OnlyExplainedGaps == Spec => []GapsExplained
<1>1. IInv => GapsExplained
  BY DEF IInv, JobsInv, GapsExplained, Plan
<1> QED
  BY <1>1, CorpusInvariance, PTL

\* Two releases of a source with the same upstream part are the same.
LEMMA UpstreamsDistinct ==
  ASSUME NEW s, NEW v \in PerUpstream(s), NEW w \in PerUpstream(s),
         v \in Nat, w \in Nat, UpstreamOf(s, v) = UpstreamOf(s, w)
  PROVE  v = w
<1>1. v \in archive.versions[s] /\ w \in archive.versions[s]
  BY DEF PerUpstream
<1>2. ~(v < w) /\ ~(w < v)
  BY <1>1 DEF PerUpstream
<1> QED
  BY <1>2

\* A later job of the same source has a later first release.
LEMMA LaterJobDiffers ==
  ASSUME IInv, NEW i \in DOMAIN Plan, NEW k \in DOMAIN Plan, i < k
  PROVE  JobId(Plan[i]) # JobId(Plan[k])
<1> SUFFICES ASSUME JobId(Plan[i]) = JobId(Plan[k]) PROVE FALSE
  OBVIOUS
<1> DEFINE s == JobSource(Plan[i])
<1>1. JobSource(Plan[k]) = s /\ UpstreamOf(s, Plan[i].v1) = UpstreamOf(s, Plan[k].v1)
  BY DEF JobId
<1>2. Plan[i] \in Job /\ Plan[k] \in Job
  BY DEF IInv, ResolveTypeOK, Plan
<1>3. Plan[i].v1 \in Nat /\ Plan[i].v2 \in Nat /\ Plan[k].v1 \in Nat
  BY <1>2, SelectAssumption DEF Job, Versions
<1>4. Plan[i].v1 < Plan[i].v2 /\ Plan[i].v2 <= Plan[k].v1
  BY <1>1 DEF IInv, JobsInv, Plan
<1>5. Plan[i].v1 \in PerUpstream(s) /\ Plan[k].v1 \in PerUpstream(s)
  BY <1>1 DEF IInv, JobsInv, Plan
<1>6. Plan[i].v1 = Plan[k].v1
  BY <1>1, <1>3, <1>5, UpstreamsDistinct
<1> QED
  BY <1>3, <1>4, <1>6

\* The jobs of every plan have names of their own, although the names leave
\* out epochs and revisions: one pair file per job (artifacts.cpp:15-17).
THEOREM DistinctJobIds == Spec => []JobIdsDistinct
<1>1. ASSUME IInv PROVE JobIdsDistinct
  <2> SUFFICES ASSUME NEW i \in DOMAIN Plan, NEW k \in DOMAIN Plan, JobId(Plan[i]) = JobId(Plan[k])
      PROVE  i = k
    BY DEF JobIdsDistinct
  <2>1. i \in Nat /\ k \in Nat
    BY <1>1 DEF IInv, ResolveTypeOK, Plan
  <2>2. ~(i < k) /\ ~(k < i)
    BY <1>1, LaterJobDiffers
  <2> QED
    BY <2>1, <2>2
<1> QED
  BY <1>1, CorpusInvariance, PTL

(***************************************************************************)
(* Nothing passed over: why the select stage takes the most installed.     *)
(***************************************************************************)
LEMMA CandidateType ==
  ASSUME SelectTypeOK
  PROVE  archive.candidate \subseteq Rows /\ IsFiniteSet(archive.candidate) /\ IsFiniteSet(Rows)
<1>1. archive.candidate \subseteq Rows
  BY SelectAssumption DEF SelectTypeOK, Archive
<1>2. IsFiniteSet(Rows)
  BY SelectAssumption, FS_Interval DEF Rows
<1> QED
  BY <1>1, <1>2, FS_Subset

\* A row more of which the loop is past.
LEMMA AheadStep ==
  ASSUME SelectTypeOK, NEW r \in Rows
  PROVE  /\ Cardinality(Ahead(r)) \in Nat
         /\ r \notin archive.candidate => Cardinality(Ahead(r + 1)) = Cardinality(Ahead(r))
         /\ r \in archive.candidate => Cardinality(Ahead(r + 1)) = Cardinality(Ahead(r)) + 1
<1>1. archive.candidate \subseteq Nat /\ r \in Nat
  BY CandidateType, SelectAssumption DEF Rows
<1>2. IsFiniteSet(Ahead(r))
  <2>1. Ahead(r) \subseteq archive.candidate
    BY DEF Ahead
  <2> QED
    BY <2>1, CandidateType, FS_Subset
<1>3. Cardinality(Ahead(r)) \in Nat
  BY <1>2, FS_CardinalityType
<1>4. r \notin archive.candidate => Ahead(r + 1) = Ahead(r)
  BY <1>1 DEF Ahead
<1>5. r \in archive.candidate => Ahead(r + 1) = Ahead(r) \cup {r} /\ r \notin Ahead(r)
  BY <1>1 DEF Ahead
<1> QED
  BY <1>2, <1>3, <1>4, <1>5, FS_AddElement

\* The promises of the file do not depend on the locals.
LEMMA PassedFileKept ==
  ASSUME archive' = archive, selection' = selection, NothingPassedOver
  PROVE  NothingPassedOver'
BY DEF NothingPassedOver, Considered, SelectedSources, EntriesIn, Entries, SourceOf

LEMMA FreshPassed ==
  ASSUME SelectTypeOK, FreshLocals, archive' = archive
  PROVE  PassedLocals'
<1>1. row' = 1 /\ examined' = 0 /\ looked' = {}
  BY DEF FreshLocals
<1>2. archive.candidate \subseteq Rows /\ Rows \subseteq Nat /\ \A r \in Rows : ~(r < 1)
  BY CandidateType, SelectAssumption DEF Rows
<1>3. Ahead(row)' = {}
  BY <1>1, <1>2 DEF Ahead
<1>4. examined' = Cardinality(Ahead(row)')
  BY <1>1, <1>3, FS_EmptySet
<1>5. \A r \in archive'.candidate : ~(r < row')
  BY <1>1, <1>2
<1> QED
  BY <1>1, <1>4, <1>5 DEF PassedLocals

\* What all steps of the loop have in common.
LoopStep ==
  /\ row \in Rows /\ row' = row + 1 /\ archive' = archive
  /\ examined' = IF row \in archive.candidate THEN examined + 1 ELSE examined
  /\ looked \subseteq looked' /\ looked' \subseteq looked \cup {row}
  /\ row \in looked' => row \in archive.candidate
  /\ missed \subseteq missed'
  /\ \/ selected' = selected /\ n' = n
     \/ /\ selected' = Append(selected, row) /\ ~Full(Lang)
        /\ n' = [n EXCEPT ![Lang] = @ + 1]

\* An entry more is of a language that was not full.
LEMMA TooLateKept ==
  ASSUME SelectTypeOK, LoopStep, NEW r \in Rows, TooLate(r)
  PROVE  TooLate(r)'
<1> DEFINE l == archive.hint[r]
<1>1. /\ selected \in Seq(Rows) /\ n \in [Langs -> Nat] /\ l \in Langs /\ archive' = archive
      /\ row \in Rows
  BY ArchiveType DEF SelectTypeOK, LoopStep
<1>2. n[l] >= Limit[l] /\ \A i \in DOMAIN selected : archive.hint[selected[i]] = l => selected[i] < r
  BY DEF TooLate, Full, SelectedIn
<1>3. CASE selected' = selected /\ n' = n
  BY <1>1, <1>2, <1>3 DEF TooLate, Full, SelectedIn
<1>4. CASE /\ selected' = Append(selected, row) /\ ~Full(Lang)
           /\ n' = [n EXCEPT ![Lang] = @ + 1]
  <2>1. Lang # l
    BY <1>2, <1>4 DEF Full
  <2>2. n'[l] = n[l]
    BY <2>1, <1>1, <1>4
  <2>3. ASSUME NEW i \in DOMAIN selected', archive.hint[selected'[i]] = l
        PROVE  selected'[i] < r
    <3>1. i \in DOMAIN selected /\ selected'[i] = selected[i]
      BY <2>3, <2>1, <1>1, <1>4 DEF Lang
    <3> QED
      BY <3>1, <2>3, <1>2
  <2> QED
    BY <1>1, <1>2, <2>2, <2>3 DEF TooLate, Full, SelectedIn
<1> QED
  BY <1>3, <1>4 DEF LoopStep

LEMMA LoopPassed ==
  ASSUME SelectTypeOK, Scanned, PassedLocals, LoopStep,
         NEW x \in Rows, x = row,
         x \in looked' => Judged(x)',
         x \in archive.candidate /\ archive.origin[x] # NoSource => SourceLooked(x)' \/ TooLate(x)
  PROVE  PassedLocals'
<1>1. /\ row \in Rows /\ row' = row + 1 /\ archive' = archive /\ looked \subseteq looked'
      /\ looked' \subseteq looked \cup {row} /\ missed \subseteq missed'
      /\ archive.candidate \subseteq Rows /\ Rows \subseteq Nat /\ selected \in Seq(Rows)
  BY CandidateType, SelectAssumption DEF LoopStep, Rows, SelectTypeOK
<1>2. examined' = Cardinality(Ahead(row)')
  <2>1. Ahead(row)' = Ahead(row + 1)
    BY <1>1 DEF Ahead
  <2>2. examined = Cardinality(Ahead(row))
    BY DEF PassedLocals
  <2> QED
    BY <1>1, <2>1, <2>2, AheadStep DEF LoopStep
<1>3. looked' \subseteq archive'.candidate
  BY <1>1 DEF PassedLocals, LoopStep
<1>4. ASSUME NEW q \in looked' PROVE Judged(q)'
  <2>1. CASE q \in looked
    <3>1. Judged(q)
      BY <2>1 DEF PassedLocals
    <3>2. selected' = selected \/ selected' = Append(selected, row)
      BY DEF LoopStep
    <3>3. ASSUME NEW i \in DOMAIN selected PROVE i \in DOMAIN selected' /\ selected'[i] = selected[i]
      BY <1>1, <3>2
    <3>4. CASE \E i \in DOMAIN selected : selected[i] = q
      BY <3>3, <3>4 DEF Judged
    <3>5. CASE q \notin archive.ships \/ q \in missed
      BY <3>5, <1>1 DEF Judged
    <3> QED
      BY <3>1, <3>4, <3>5 DEF Judged
  <2>2. CASE q = x
    BY <2>2, <1>4
  <2> QED
    BY <2>1, <2>2, <1>1
<1>5. ASSUME NEW r \in archive.candidate, r < row + 1, archive.origin[r] # NoSource
      PROVE  SourceLooked(r)' \/ TooLate(r)'
  <2>1. r \in Rows /\ (r < row \/ r = row)
    <3>1. r \in Rows /\ r \in Nat /\ row \in Nat
      BY <1>1
    <3> QED
      BY <3>1, <1>5
  <2>2. SourceLooked(r) => SourceLooked(r)'
    BY <1>1 DEF SourceLooked, SourceOf
  <2>3. TooLate(r) => TooLate(r)'
    BY <2>1, TooLateKept
  <2>4. CASE r < row
    BY <2>2, <2>3, <2>4, <1>5 DEF PassedLocals, SourceOf
  <2>5. CASE r = x
    BY <2>3, <2>5, <1>5
  <2> QED
    BY <2>1, <2>4, <2>5
<1>6. \A r \in archive'.candidate :
        r < row' /\ SourceOf(r)' # NoSource => SourceLooked(r)' \/ TooLate(r)'
  BY <1>1, <1>5 DEF SourceOf
<1> QED
  BY <1>2, <1>3, <1>4, <1>6 DEF PassedLocals

\* The loop is over: what a candidate was passed over for, the file shows.
LEMMA SavePassed ==
  ASSUME SelectTypeOK, Scanned, PassedLocals, SaveSelection, archive' = archive
  PROVE  NothingPassedOver'
<1>0. /\ selection' = [saved |-> TRUE, rows |-> selected, missed |-> missed]
      /\ stage = "select" /\ ~Scanning
  BY DEF SaveSelection
<1>1. /\ row \in 1 .. NumRows + 1 /\ examined \in Nat /\ selected \in Seq(Rows)
      /\ n \in [Langs -> Nat] /\ looked \subseteq Rows
      /\ archive.candidate \subseteq Rows /\ Rows \subseteq Nat /\ IsFiniteSet(archive.candidate)
      /\ row \in Nat
  BY CandidateType, SelectAssumption DEF Rows, SelectTypeOK
<1>10. \A i \in DOMAIN selected : selected[i] \in Nat
  <2>1. \A i \in DOMAIN selected : selected[i] \in Rows
    BY <1>1
  <2> QED
    BY <2>1, <1>1
<1> DEFINE Of(l) == Entry(selected, archive.hint, l)
<1>2. SUFFICES ASSUME NEW r \in archive.candidate, archive.origin[r] # NoSource,
               \/ \E i \in Of(archive.hint[r]) : selected[i] > r
               \/ /\ Cardinality(Of(archive.hint[r])) < Limit[archive.hint[r]]
                  /\ Cardinality({q \in archive.candidate : q <= r}) <= Scan
      PROVE  \/ \E i \in DOMAIN selected : archive.origin[selected[i]] = archive.origin[r]
             \/ \E q \in archive.candidate :
                  /\ q <= r /\ archive.origin[q] = archive.origin[r]
                  /\ q \notin archive.ships \/ q \in missed
  <2>1. Entries' = selected /\ selection'.missed = missed
    BY <1>0 DEF Entries
  <2> SUFFICES ASSUME NEW r \in Rows, Considered(r)'
      PROVE  \/ SourceOf(r)' \in SelectedSources'
             \/ \E q \in archive.candidate :
                  /\ q <= r /\ archive.origin[q] = archive.origin[r]
                  /\ q \notin archive.ships \/ q \in missed
    BY <2>1 DEF NothingPassedOver, SourceOf
  <2>2. /\ r \in archive.candidate /\ archive.origin[r] # NoSource
        /\ \/ \E i \in Of(archive.hint[r]) : selected[i] > r
           \/ /\ Cardinality(Of(archive.hint[r])) < Limit[archive.hint[r]]
              /\ Cardinality({q \in archive.candidate : q <= r}) <= Scan
    BY <2>1 DEF Considered, EntriesIn, SourceOf, Entry
  <2>3. (\E i \in DOMAIN selected : archive.origin[selected[i]] = archive.origin[r])
           => SourceOf(r)' \in SelectedSources'
    BY <2>1 DEF SelectedSources, SourceOf
  <2> QED
    BY <2>2, <2>3, <1>2
<1> DEFINE l == archive.hint[r]
<1>3. l \in Langs /\ n[l] = Cardinality(Of(l)) /\ Limit[l] \in Nat /\ n[l] \in Nat
  BY <1>1, ArchiveType, SelectAssumption DEF Scanned, Counted
<1>4. ~TooLate(r)
  <2>1. CASE \E i \in Of(l) : selected[i] > r
    <3>1. PICK i \in Of(l) : selected[i] > r
      BY <2>1
    <3>2. i \in SelectedIn(l)
      BY <3>1 DEF Entry, SelectedIn
    <3>3. selected[i] \in Nat /\ r \in Nat
      BY <1>1, <1>2, <1>10, <3>2 DEF SelectedIn
    <3> QED
      BY <3>1, <3>2, <3>3 DEF TooLate
  <2>2. CASE Cardinality(Of(l)) < Limit[l]
    BY <2>2, <1>3 DEF TooLate, Full
  <2> QED
    BY <2>1, <2>2, <1>2
<1>5. r < row
  <2>1. CASE \E i \in Of(l) : selected[i] > r
    <3>1. PICK i \in Of(l) : selected[i] > r
      BY <2>1
    <3>2. i \in DOMAIN selected /\ selected[i] \in looked
      BY <3>1 DEF Entry, Scanned
    <3>3. selected[i] < row
      BY <3>2 DEF Scanned
    <3>4. selected[i] \in Nat /\ r \in Nat /\ row \in Nat
      BY <1>1, <1>10, <3>2
    <3> QED
      BY <3>1, <3>3, <3>4
  <2>2. CASE /\ Cardinality(Of(l)) < Limit[l]
             /\ Cardinality({q \in archive.candidate : q <= r}) <= Scan
    <3>1. ~Full(l)
      BY <2>2, <1>3 DEF Full
    <3>2. ~(Full("c") /\ Full("cxx"))
      BY <3>1, <1>3 DEF Langs
    <3>3. row \notin Rows \/ examined >= Scan
      BY <3>2, <1>0, <1>1, SelectAssumption DEF Scanning
    <3>4. CASE row \notin Rows
      BY <3>4, <1>1, SelectAssumption DEF Rows
    <3>5. CASE examined >= Scan
      <4>0. r \in Nat /\ row \in Nat
        BY <1>1
      <4> SUFFICES ASSUME row <= r PROVE FALSE
        BY <4>0
      <4>1. r \in Nat /\ row \in Nat /\ row <= r
        BY <4>0
      <4> DEFINE B == {q \in archive.candidate : q <= r}
      <4>2. Ahead(row) \subseteq B \ {r} /\ r \in B
        <5>1. ASSUME NEW q \in archive.candidate, q < row PROVE q <= r /\ q # r
          <6>1. q \in Nat
            BY <1>1
          <6> QED
            BY <6>1, <5>1, <4>1
        <5>2. r <= r
          BY <4>1
        <5> QED
          BY <5>1, <5>2, <1>2 DEF Ahead
      <4>3. IsFiniteSet(B)
        BY <1>1, FS_Subset
      <4>4. Cardinality(B) \in Nat /\ Cardinality(B \ {r}) = Cardinality(B) - 1 /\ IsFiniteSet(B \ {r})
        BY <4>2, <4>3, FS_RemoveElement, FS_CardinalityType
      <4>5. Cardinality(Ahead(row)) <= Cardinality(B \ {r})
        BY <4>2, <4>4, FS_Subset
      <4>6. examined <= Cardinality(B) - 1
        BY <4>4, <4>5 DEF PassedLocals
      <4> QED
        BY <4>4, <4>6, <3>5, <2>2, <1>1, SelectAssumption
    <3> QED
      BY <3>3, <3>4, <3>5
  <2> QED
    BY <2>1, <2>2, <1>2
<1>6. SourceLooked(r)
  BY <1>2, <1>4, <1>5 DEF PassedLocals, SourceOf
<1>7. PICK q \in looked : q <= r /\ archive.origin[q] = archive.origin[r]
  BY <1>6 DEF SourceLooked, SourceOf
<1>8. q \in archive.candidate /\ Judged(q)
  BY <1>7 DEF PassedLocals
<1> QED
  BY <1>7, <1>8 DEF Judged

LEMMA SelectStepPassed ==
  ASSUME SelectTypeOK, SelectInv, PassedInv, SelectStep
  PROVE  PassedInv'
<1>0. archive' = archive /\ Scanned /\ PassedLocals /\ NothingPassedOver
  BY SelectInvParts DEF SelectStep, PassedInv
<1>1. ASSUME FreshLocals, selection' = selection PROVE PassedInv'
  BY <1>0, <1>1, FreshPassed, PassedFileKept DEF PassedInv
<1>2. CASE StartSelect \/ SelectAborts
  BY <1>1, <1>2 DEF StartSelect, SelectAborts
<1>3. CASE SaveSelection
  BY <1>0, <1>3, FreshPassed, SavePassed DEF PassedInv, SaveSelection
<1>4. ASSUME LoopStep, selection' = selection, NEW x \in Rows, x = row, x \in looked' => Judged(x)',
             x \in archive.candidate /\ archive.origin[x] # NoSource => SourceLooked(x)' \/ TooLate(x)
      PROVE  PassedInv'
  BY <1>0, <1>4, LoopPassed, PassedFileKept DEF PassedInv
<1>5. row \notin looked /\ looked \subseteq Rows /\ Rows \subseteq Nat /\ row \in Nat
  <2>1. row \in Nat /\ looked \subseteq Rows /\ Rows \subseteq Nat
    BY SelectAssumption DEF SelectTypeOK, Rows
  <2>2. row \in looked => row < row
    BY <1>0 DEF Scanned
  <2> QED
    BY <2>1, <2>2
<1>6. CASE NotCandidate
  <2>1. LoopStep /\ selection' = selection /\ looked' = looked /\ row \notin archive.candidate
    <3>1. /\ row \in Rows /\ row' = row + 1 /\ selection' = selection
          /\ row \notin archive.candidate /\ examined' = examined /\ n' = n
          /\ looked' = looked /\ selected' = selected /\ missed' = missed
      BY <1>6 DEF NotCandidate, Scanning, Continue
    <3> QED
      BY <3>1, <1>0, <1>5 DEF LoopStep
  <2>2. PICK x \in Rows : x = row
    BY <2>1 DEF LoopStep
  <2> QED
    BY <1>4, <1>5, <2>1, <2>2
<1>7. ASSUME Examine
      PROVE  /\ row \in Rows /\ row' = row + 1 /\ selection' = selection
             /\ row \in archive.candidate /\ examined' = examined + 1
  BY <1>7 DEF Examine, Scanning, Continue
<1>8. CASE OverQuota
  <2>1. LoopStep /\ selection' = selection /\ looked' = looked /\ Full(archive.hint[row])
    BY <1>0, <1>7, <1>8 DEF OverQuota, LoopStep, Lang
  <2>2. PICK x \in Rows : x = row
    BY <2>1 DEF LoopStep
  <2>3. TooLate(x)
    <3>1. \A i \in DOMAIN selected : selected[i] < row
      BY <1>0 DEF Scanned
    <3> QED
      BY <2>1, <2>2, <3>1 DEF TooLate, SelectedIn
  <2> QED
    BY <1>4, <1>5, <2>1, <2>2, <2>3
<1>9. CASE SourceSeen
  <2>1. LoopStep /\ selection' = selection /\ looked' = looked /\ Origin \in Seen \cup {NoSource}
    BY <1>0, <1>7, <1>9 DEF SourceSeen, LoopStep
  <2>2. PICK x \in Rows : x = row
    BY <2>1 DEF LoopStep
  <2>3. archive.origin[x] # NoSource => SourceLooked(x)'
    <3> SUFFICES ASSUME archive.origin[x] # NoSource PROVE SourceLooked(x)'
      OBVIOUS
    <3>1. PICK q \in looked : archive.origin[q] = archive.origin[x]
      BY <2>1, <2>2 DEF Seen, Origin
    <3>2. q < row /\ q \in Nat /\ row \in Nat
      BY <1>0, <1>5 DEF Scanned
    <3>3. q <= x
      BY <2>2, <3>2
    <3> QED
      BY <1>0, <2>1, <3>1, <3>3 DEF SourceLooked, SourceOf
  <2> QED
    BY <1>4, <1>5, <2>1, <2>2, <2>3
<1>10. ASSUME LookUp PROVE Examine /\ ~Full(Lang) /\ looked' = looked \cup {row}
  BY <1>10 DEF LookUp
<1>11. ASSUME LookUp, LoopStep, NEW x \in Rows, x = row, Judged(x)' PROVE PassedInv'
  <2>1. x <= x /\ x \in looked'
    BY <1>5, <1>10, <1>11
  <2>2. SourceLooked(x)'
    BY <2>1, <1>0 DEF SourceLooked, SourceOf
  <2> QED
    BY <1>4, <1>7, <1>10, <1>11, <2>2
<1>15. ASSUME LookUp PROVE \E x \in Rows : x = row
  BY <1>7, <1>10, <1>15
<1>12. CASE BinariesFail
  <2>1. LookUp /\ LoopStep /\ row \in missed'
    BY <1>0, <1>7, <1>10, <1>12 DEF BinariesFail, LoopStep
  <2>2. PICK x \in Rows : x = row
    BY <2>1, <1>15
  <2>3. Judged(x)'
    BY <2>1, <2>2 DEF Judged
  <2> QED
    BY <1>11, <2>1, <2>2, <2>3
<1>13. CASE Reject
  <2>1. LookUp /\ LoopStep /\ row \notin archive'.ships
    BY <1>0, <1>7, <1>10, <1>13 DEF Reject, LoopStep
  <2>2. PICK x \in Rows : x = row
    BY <2>1, <1>15
  <2>3. Judged(x)'
    BY <2>1, <2>2 DEF Judged
  <2> QED
    BY <1>11, <2>1, <2>2, <2>3
<1>14. CASE Accept
  <2>1. LookUp /\ LoopStep /\ selected' = Append(selected, row)
    BY <1>0, <1>7, <1>10, <1>14 DEF Accept, LoopStep
  <2>2. Len(selected) + 1 \in DOMAIN selected' /\ selected'[Len(selected) + 1] = row
    BY <2>1 DEF SelectTypeOK
  <2>3. PICK x \in Rows : x = row
    BY <2>1, <1>15
  <2>4. Judged(x)'
    BY <2>2, <2>3 DEF Judged
  <2> QED
    BY <1>11, <2>1, <2>3, <2>4
<1> QED
  BY <1>2, <1>3, <1>6, <1>8, <1>9, <1>12, <1>13, <1>14 DEF SelectStep

LEMMA KeptPassed ==
  ASSUME PassedInv, archive' = archive, selectVars' = selectVars, selection' = selection
  PROVE  PassedInv'
<1>1. /\ row' = row /\ examined' = examined /\ n' = n /\ looked' = looked
      /\ selected' = selected /\ missed' = missed
  BY DEF selectVars
<1>2. PassedLocals'
  BY <1>1 DEF PassedInv, PassedLocals, Ahead, Judged, SourceLooked, TooLate, SelectedIn, Full, SourceOf
<1> QED
  BY <1>2, PassedFileKept DEF PassedInv

LEMMA InitPassed == Init => PassedInv
<1> SUFFICES ASSUME Init PROVE PassedInv
  OBVIOUS
<1>1. /\ archive \in Archives /\ row = 1 /\ examined = 0 /\ looked = {} /\ selection.saved = FALSE
  BY DEF Init, SelectInit, NoSelection
<1>2. SelectTypeOK
  BY InitIInv DEF IInv, ResolveTypeOK
<1>3. archive.candidate \subseteq Rows /\ \A r \in Rows : ~(r < 1)
  BY <1>2, CandidateType, SelectAssumption DEF Rows
<1>4. Ahead(row) = {}
  BY <1>1, <1>3 DEF Ahead
<1>5. PassedLocals
  BY <1>1, <1>3, <1>4, FS_EmptySet DEF PassedLocals
<1> QED
  BY <1>1, <1>5 DEF PassedInv, NothingPassedOver

\* The libraries are the most installed ones, for any ranking and archive: a
\* candidate that outranks one of the corpus, or that the scan reached while
\* its language had room, has its source in the corpus, unless the row that
\* was to bring it in was lost or lacks its packages (select.cpp:55-97).
THEOREM MostInstalledTaken == Spec => []NothingPassedOver
<1>1. Init => PassedInv
  BY InitPassed
<1>2. IInv /\ PassedInv /\ [Next]_vars => PassedInv'
  <2> SUFFICES ASSUME IInv, PassedInv, [Next]_vars PROVE PassedInv'
    OBVIOUS
  <2>1. SelectTypeOK /\ SelectInv
    BY DEF IInv, ResolveTypeOK
  <2>2. CASE SelectStep
    BY <2>1, <2>2, SelectStepPassed
  <2>3. CASE KeepSelect
    BY <2>3, KeptPassed DEF KeepSelect
  <2>4. CASE vars' = vars
    BY <2>4, KeptPassed DEF vars
  <2>5. ResolveStep => KeepSelect
    BY DEF ResolveStep, StartResolve, ListVersions, ListVersionsFails, PackagesFail, Incomplete, Pick,
           LookAt, PairUp, SavePlan, ResolveAborts
  <2> QED
    BY <2>2, <2>3, <2>4, <2>5 DEF Next, Rest
<1>3. PassedInv => NothingPassedOver
  BY DEF PassedInv
<1> QED
  BY <1>1, <1>2, <1>3, CorpusInvariance, PTL DEF Spec

(***************************************************************************)
(* The plan as defined: the loop over versions, newest first, stops at the *)
(* same release as the definition by counting.                             *)
(***************************************************************************)
Falling(p) == \A i, k \in DOMAIN p : i < k => p[k] < p[i]
Chosen(p) == {p[i] : i \in DOMAIN p}

Adjacent(r, S) ==
  {j \in [row : {r}, v1 : S, v2 : S] : j.v1 < j.v2 /\ ~\E v \in S : j.v1 < v /\ v < j.v2}

LEMMA ConsecutiveAdjacent == \A r : Consecutive(r) = Adjacent(r, RecentReleases(r))
BY DEF Consecutive, Adjacent

\* As many versions as places.
LEMMA ChosenCount ==
  ASSUME NEW p \in Seq(Versions), Falling(p)
  PROVE  /\ Chosen(p) \subseteq Versions /\ IsFiniteSet(Chosen(p))
         /\ Cardinality(Chosen(p)) = Len(p)
<1> DEFINE L == Len(p)
<1>1. p \in [1 .. L -> Versions] /\ L \in Nat /\ DOMAIN p = 1 .. L
  OBVIOUS
<1>2. \A i \in 1 .. L : p[i] \in Nat
  <2>1. \A i \in 1 .. L : p[i] \in Versions
    BY <1>1
  <2> QED
    BY <2>1, SelectAssumption DEF Versions
<1>3. ASSUME NEW i \in 1 .. L, NEW k \in 1 .. L, p[i] = p[k] PROVE i = k
  <2>1. ~(i < k) /\ ~(k < i)
    BY <1>1, <1>2, <1>3 DEF Falling
  <2> QED
    BY <2>1
<1>4. p \in [1 .. L -> Chosen(p)] /\ Chosen(p) \subseteq Versions
  BY <1>1 DEF Chosen
<1>5. PICK D, T : D = 1 .. L /\ T = Chosen(p)
  OBVIOUS
<1>6. p \in Injection(D, T)
  BY <1>3, <1>4, <1>5 DEF Injection, IsInjective
<1>7. p \in Surjection(D, T)
  <2>1. \A t \in Chosen(p) : \E i \in 1 .. L : p[i] = t
    BY <1>1 DEF Chosen
  <2>2. p \in [D -> T] /\ \A t \in T : \E i \in D : p[i] = t
    BY <2>1, <1>4, <1>5
  <2> QED
    BY <2>2 DEF Surjection
<1>8. IsFiniteSet(D) /\ Cardinality(D) = L
  <2>1. \A k \in Nat : IsFiniteSet(1 .. k) /\ Cardinality(1 .. k) = k
    BY FS_Interval
  <2> QED
    BY <2>1, <1>1, <1>5
<1>9. IsFiniteSet(T) /\ Cardinality(T) = L
  BY <1>6, <1>7, <1>8, FS_Surjection
<1> QED
  BY <1>4, <1>5, <1>9

\* The pairs of a falling sequence are the adjacent ones of its values.
LEMMA PairsAdjacent ==
  ASSUME NEW r, NEW p \in Seq(Versions), Falling(p)
  PROVE  {Pairs(r, p)[i] : i \in DOMAIN Pairs(r, p)} = Adjacent(r, Chosen(p))
<1> DEFINE L == Len(p)
           P == Pairs(r, p)
           S == Chosen(p)
<1>1. L \in Nat /\ DOMAIN p = 1 .. L /\ DOMAIN P = 1 .. L - 1
  BY DEF Pairs
<1>2. \A i \in 1 .. L : p[i] \in Nat /\ p[i] \in S
  <2>1. \A i \in 1 .. L : p[i] \in Versions
    BY <1>1
  <2>2. Versions \subseteq Nat
    BY SelectAssumption DEF Versions
  <2>3. \A i \in 1 .. L : p[i] \in S
    BY <1>1 DEF Chosen
  <2> QED
    BY <2>1, <2>2, <2>3
<1>3. ASSUME NEW i \in 1 .. L - 1
      PROVE  /\ P[i] = [row |-> r, v1 |-> p[L - i + 1], v2 |-> p[L - i]]
             /\ L - i \in 1 .. L /\ L - i + 1 \in 1 .. L /\ i \in Nat
  BY <1>1 DEF Pairs
<1>4. ASSUME NEW i \in 1 .. L, NEW k \in 1 .. L PROVE p[k] < p[i] <=> i < k
  <2>1. i < k => p[k] < p[i]
    BY <1>1 DEF Falling
  <2>2. k < i => p[i] < p[k]
    BY <1>1 DEF Falling
  <2>3. p[i] \in Nat /\ p[k] \in Nat /\ i \in Nat /\ k \in Nat
    BY <1>2
  <2>4. CASE i < k
    BY <2>1, <2>4
  <2>5. CASE k < i
    <3>1. p[i] < p[k] /\ ~(i < k)
      BY <2>2, <2>3, <2>5
    <3>2. ~(p[k] < p[i])
      BY <3>1, <2>3
    <3> QED
      BY <3>1, <3>2
  <2>6. CASE i = k
    BY <2>3, <2>6
  <2> QED
    BY <2>3, <2>4, <2>5, <2>6
<1>5. ASSUME NEW i \in 1 .. L - 1 PROVE P[i] \in Adjacent(r, S)
  <2>1. P[i] \in [row : {r}, v1 : S, v2 : S]
    <3>1. p[L - i + 1] \in S /\ p[L - i] \in S
      BY <1>2, <1>3
    <3>2. [row |-> r, v1 |-> p[L - i + 1], v2 |-> p[L - i]] \in [row : {r}, v1 : S, v2 : S]
      BY <3>1
    <3> QED
      BY <3>2, <1>3
  <2>2. P[i].v1 = p[L - i + 1] /\ P[i].v2 = p[L - i]
    <3>1. P[i] = [row |-> r, v1 |-> p[L - i + 1], v2 |-> p[L - i]]
      BY <1>3
    <3> HIDE DEF P
    <3> QED
      BY <3>1
  <2>3. L - i < L - i + 1
    BY <1>1
  <2>4. P[i].v1 < P[i].v2
    BY <2>2, <2>3, <1>3, <1>4
  <2>5. ASSUME NEW v \in S, P[i].v1 < v, v < P[i].v2 PROVE FALSE
    <3>1. PICK k \in 1 .. L : v = p[k]
      BY <1>1 DEF Chosen
    <3>2. k < L - i + 1 /\ L - i < k
      BY <2>2, <2>5, <3>1, <1>3, <1>4
    <3> QED
      BY <3>2, <1>1
  <2> QED
    BY <2>1, <2>4, <2>5 DEF Adjacent
<1>6. ASSUME NEW j \in Adjacent(r, S) PROVE \E i \in 1 .. L - 1 : P[i] = j
  <2>1. /\ j \in [row : {r}, v1 : S, v2 : S] /\ j.v1 < j.v2
        /\ ~\E v \in S : j.v1 < v /\ v < j.v2
    BY DEF Adjacent
  <2>2. PICK a \in 1 .. L : j.v1 = p[a]
    BY <2>1, <1>1 DEF Chosen
  <2>3. PICK b \in 1 .. L : j.v2 = p[b]
    BY <2>1, <1>1 DEF Chosen
  <2>4. b < a
    BY <2>1, <2>2, <2>3, <1>4
  <2>5. b + 1 = a
    <3> SUFFICES ASSUME b + 1 < a PROVE FALSE
      BY <2>4, <1>1
    <3>1. b + 1 \in 1 .. L /\ b < b + 1
      BY <1>1
    <3>2. p[a] < p[b + 1] /\ p[b + 1] < p[b] /\ p[b + 1] \in S
      BY <3>1, <1>2, <1>4
    <3> QED
      BY <3>2, <2>1, <2>2, <2>3
  <2>6. L - a + 1 \in 1 .. L - 1 /\ L - (L - a + 1) + 1 = a /\ L - (L - a + 1) = b
    BY <2>5, <1>1
  <2>7. P[L - a + 1] = [row |-> r, v1 |-> p[a], v2 |-> p[b]]
    BY <2>6, <1>3
  <2>8. j = [row |-> r, v1 |-> p[a], v2 |-> p[b]]
    BY <2>1, <2>2, <2>3
  <2> QED
    BY <2>6, <2>7, <2>8
<1> QED
  BY <1>1, <1>5, <1>6

\* When the loop over versions ends, it has picked the releases of the
\* definition, unless a request failed.
LEMMA PickedRecent ==
  ASSUME IInv, stage = "releases", RecentInv, ~Picking, Unhindered(Library, lost)
  PROVE  /\ RecentReleases(Library) = Chosen(picked)
         /\ picked \in Seq(Versions) /\ Falling(picked)
<1> DEFINE all == PerUpstream(SourceOf(Library))
           C == all \cap archive.complete[Library]
           S == Chosen(picked)
           NewerIn(v, T) == {w \in T : w > v}
<1>1. /\ ReleasesInv /\ picked \in Seq(Versions) /\ todo \subseteq Versions /\ todo \subseteq all
      /\ scanned \in Nat
  BY DEF IInv, ResolveTypeOK, ReleasesInv
<1>2. all \subseteq Versions /\ Versions \subseteq Nat /\ IsFiniteSet(all)
  <2>1. Library \in Rows /\ SourceOf(Library) \in Sources
    BY <1>1, PairsInv DEF IInv
  <2>2. all \subseteq Versions
    BY <2>1, PerUpstreamType DEF IInv, ResolveTypeOK
  <2>3. IsFiniteSet(Versions) /\ Versions \subseteq Nat
    BY SelectAssumption, FS_Interval DEF Versions
  <2> QED
    BY <2>2, <2>3, FS_Subset
<1>3. Falling(picked)
  BY <1>1 DEF ReleasesInv, Falling
<1>4. /\ \A v \in S : v \in C /\ v \notin todo
      /\ \A v \in C \ todo : v \in S
      /\ \A w \in todo, v \in S : w < v
  <2>1. \A i \in DOMAIN picked : picked[i] \in all /\ picked[i] \in archive.complete[Library]
    BY <1>1 DEF ReleasesInv, RecentInv
  <2>2. \A i \in DOMAIN picked : \A w \in todo : w < picked[i]
    BY <1>1 DEF ReleasesInv
  <2>3. \A v \in C \ todo : \E i \in DOMAIN picked : picked[i] = v
    <3> SUFFICES ASSUME NEW v \in C \ todo PROVE \E i \in DOMAIN picked : picked[i] = v
      OBVIOUS
    <3>1. <<Library, v>> \notin lost
      BY <1>2 DEF Unhindered
    <3> QED
      BY <3>1, <1>1 DEF ReleasesInv
  <2>4. \A w \in todo, v \in S : w < v
    BY <2>2 DEF Chosen
  <2>5. \A v \in S : v \in C
    BY <2>1 DEF Chosen
  <2>6. ASSUME NEW v \in S, v \in todo PROVE FALSE
    <3>1. v < v /\ v \in Nat
      BY <2>4, <2>6, <1>1, <1>2
    <3> QED
      BY <3>1
  <2>7. \A v \in C \ todo : v \in S
    BY <2>3 DEF Chosen
  <2> QED
    BY <2>4, <2>5, <2>6, <2>7
<1>5. S \subseteq Versions /\ IsFiniteSet(S) /\ Cardinality(S) = Len(picked) /\ Len(picked) \in Nat
  BY <1>1, <1>3, ChosenCount
<1>6. /\ scanned = Cardinality(all \ todo) /\ scanned <= MaxScan /\ Len(picked) <= Releases
      /\ \A v \in todo, w \in all \ todo : v < w
  BY DEF RecentInv
<1>7. IsFiniteSet(all \ todo) /\ IsFiniteSet(C) /\ MaxScan \in Nat /\ Releases \in Nat
  <2>1. all \ todo \subseteq all /\ C \subseteq all
    OBVIOUS
  <2> QED
    BY <2>1, <1>2, FS_Subset, ResolveAssumption
<1>8. ASSUME NEW v \in S
      PROVE  Cardinality(NewerIn(v, C)) < Releases /\ Cardinality(NewerIn(v, all)) < MaxScan
  <2>1. v \in all \ todo /\ v \in Nat /\ v \in C
    BY <1>2, <1>4
  <2>2. ASSUME NEW w \in all, w > v PROVE w \in (all \ todo) \ {v}
    <3>1. w \in Nat
      BY <1>2
    <3>2. w \in todo => w < v
      BY <1>4
    <3> QED
      BY <2>2, <2>1, <3>1, <3>2
  <2>3. NewerIn(v, all) \subseteq (all \ todo) \ {v}
    BY <2>2
  <2>4. NewerIn(v, C) \subseteq S \ {v}
    BY <2>2, <1>4
  <2>5. IsFiniteSet((all \ todo) \ {v}) /\ Cardinality((all \ todo) \ {v}) = scanned - 1
    BY <2>1, <1>6, <1>7, FS_RemoveElement
  <2>6. IsFiniteSet(S \ {v}) /\ Cardinality(S \ {v}) = Len(picked) - 1
    BY <1>5, FS_RemoveElement
  <2>7. Cardinality(NewerIn(v, all)) <= scanned - 1 /\ IsFiniteSet(NewerIn(v, all))
    BY <2>3, <2>5, FS_Subset
  <2>8. Cardinality(NewerIn(v, C)) <= Len(picked) - 1 /\ IsFiniteSet(NewerIn(v, C))
    BY <2>4, <2>6, FS_Subset
  <2>9. Cardinality(NewerIn(v, all)) \in Nat /\ Cardinality(NewerIn(v, C)) \in Nat
    BY <2>7, <2>8, FS_CardinalityType
  <2>10. Cardinality(NewerIn(v, all)) < MaxScan
    BY <2>7, <2>9, <1>1, <1>6, <1>7
  <2>11. Cardinality(NewerIn(v, C)) < Releases
    BY <2>8, <2>9, <1>5, <1>6, <1>7
  <2> QED
    BY <2>10, <2>11
<1>9. ASSUME NEW v \in C, Cardinality(NewerIn(v, C)) < Releases, Cardinality(NewerIn(v, all)) < MaxScan
      PROVE  v \in S
  <2> SUFFICES ASSUME v \in todo PROVE FALSE
    BY <1>4
  <2>1. Len(picked) >= Releases \/ scanned >= MaxScan
    BY <1>1, <1>5, <1>7 DEF Picking
  <2>2. v \in Nat
    BY <1>2
  <2>3. all \ todo \subseteq NewerIn(v, all)
    <3>1. ASSUME NEW w \in all \ todo PROVE w > v
      <4>1. v < w /\ w \in Nat
        BY <1>6, <1>2
      <4> QED
        BY <4>1, <2>2
    <3> QED
      BY <3>1
  <2>4. S \subseteq NewerIn(v, C)
    <3>1. ASSUME NEW w \in S PROVE w > v /\ w \in C
      <4>1. v < w /\ w \in Nat /\ w \in C
        BY <1>4, <1>5, <1>2
      <4> QED
        BY <4>1, <2>2
    <3> QED
      BY <3>1
  <2>5. NewerIn(v, all) \subseteq all /\ NewerIn(v, C) \subseteq C
    OBVIOUS
  <2>6. IsFiniteSet(NewerIn(v, all)) /\ IsFiniteSet(NewerIn(v, C))
    BY <2>5, <1>2, <1>7, FS_Subset
  <2>7. Cardinality(NewerIn(v, all)) \in Nat /\ Cardinality(NewerIn(v, C)) \in Nat
    BY <2>6, FS_CardinalityType
  <2>8. scanned <= Cardinality(NewerIn(v, all))
    BY <2>3, <2>6, <1>6, FS_Subset
  <2>9. Len(picked) <= Cardinality(NewerIn(v, C))
    BY <2>4, <2>6, <1>5, FS_Subset
  <2>10. ~(scanned >= MaxScan)
    BY <2>7, <2>8, <1>1, <1>7, <1>9
  <2>11. ~(Len(picked) >= Releases)
    BY <2>7, <2>9, <1>5, <1>7, <1>9
  <2> QED
    BY <2>1, <2>10, <2>11
<1>10. RecentReleases(Library) =
         {v \in C : Cardinality(NewerIn(v, C)) < Releases /\ Cardinality(NewerIn(v, all)) < MaxScan}
  BY DEF RecentReleases
<1>11. RecentReleases(Library) = S
  BY <1>4, <1>8, <1>9, <1>10
<1> QED
  BY <1>1, <1>3, <1>11

LEMMA DefinedKept ==
  ASSUME archive' = archive, NEW js, NEW failed, NEW failed2, failed \subseteq failed2,
         NEW r, AsDefined(js, r, failed)
  PROVE  AsDefined(js, r, failed2)'
<1>1. Consecutive(r)' = Consecutive(r)
  BY DEF Consecutive, RecentReleases, PerUpstream, UpstreamOf, SourceOf
<1>2. Unhindered(r, failed2) => Unhindered(r, failed)
  BY DEF Unhindered
<1> QED
  BY <1>1, <1>2 DEF AsDefined, Unhindered, JobsOf

\* The jobs so far are of other rows than the library the loop is at.
LEMMA RowsBehind ==
  ASSUME IInv, NEW i \in DOMAIN jobs, lib \in DOMAIN Entries
  PROVE  jobs[i].row # Library
<1>1. PICK x \in DOMAIN Entries : x < lib /\ jobs[i].row = Entries[x]
  BY DEF IInv, JobsOfEarlier
<1>2. Entries[x] = Entries[lib] => x = lib
  BY DEF IInv, SelectInv, OneEntryPerSource
<1>3. lib \in Nat
  BY DEF IInv, ResolveTypeOK
<1> QED
  BY <1>1, <1>2, <1>3 DEF Library, Entries

\* Rows of the entries differ.
LEMMA EntriesDiffer ==
  ASSUME IInv, NEW x \in DOMAIN Entries, NEW y \in DOMAIN Entries, x # y
  PROVE  Entries[x] # Entries[y]
BY DEF IInv, SelectInv, OneEntryPerSource

LEMMA PairUpDefined ==
  ASSUME IInv, DefinedInv, PairUp, NEW x \in DOMAIN Entries, x < lib + 1
  PROVE  AsDefined(jobs \o Pairs(Library, picked), Entries[x], lost)
<1> DEFINE P == Pairs(Library, picked)
           D == Len(jobs)
           J == jobs \o P
<1>0. stage = "releases" /\ ~Picking /\ RecentInv
  BY DEF PairUp, DefinedInv
<1>1. /\ ResolveTypeOK /\ SelectInv /\ ReleasesInv /\ jobs \in Seq(Job)
      /\ lib \in Nat /\ lib <= Len(Entries) /\ Entries \in Seq(Rows) /\ lib >= 1
  BY <1>0 DEF IInv, ResolveTypeOK, SelectTypeOK, ReleasesInv, Entries
<1>2. P \in Seq(Job) /\ \A i \in DOMAIN P : P[i].row = Library
  BY <1>0, <1>1, PairsInv
<1>3. /\ D \in Nat /\ Len(P) \in Nat /\ DOMAIN J = 1 .. D + Len(P)
      /\ DOMAIN jobs = 1 .. D /\ DOMAIN P = 1 .. Len(P)
  BY <1>1, <1>2
<1>4. /\ \A i \in 1 .. D : J[i] = jobs[i]
      /\ \A i \in DOMAIN J : i \notin 1 .. D => i - D \in DOMAIN P /\ J[i] = P[i - D]
      /\ \A i \in DOMAIN P : i + D \in DOMAIN J /\ J[i + D] = P[i]
  BY <1>1, <1>2, <1>3
<1>5. lib \in DOMAIN Entries /\ Library = Entries[lib] /\ x \in Nat
  BY <1>1 DEF Library, Entries
<1>6. CASE x < lib
  <2>1. AsDefined(jobs, Entries[x], lost)
    BY <1>6 DEF DefinedInv
  <2>2. Entries[x] # Library
    BY <1>5, <1>6, EntriesDiffer
  <2>3. JobsOf(J, Entries[x]) = JobsOf(jobs, Entries[x])
    <3>1. ASSUME NEW i \in DOMAIN J, J[i].row = Entries[x] PROVE i \in DOMAIN jobs /\ J[i] = jobs[i]
      BY <3>1, <2>2, <1>2, <1>3, <1>4
    <3>2. \A i \in DOMAIN jobs : i \in DOMAIN J /\ J[i] = jobs[i]
      BY <1>3, <1>4
    <3> QED
      BY <3>1, <3>2 DEF JobsOf
  <2> QED
    BY <2>1, <2>3 DEF AsDefined
<1>7. CASE x = lib
  <2> SUFFICES ASSUME Unhindered(Library, lost) PROVE JobsOf(J, Library) = Consecutive(Library)
    BY <1>5, <1>7 DEF AsDefined
  <2>1. /\ RecentReleases(Library) = Chosen(picked)
        /\ picked \in Seq(Versions) /\ Falling(picked)
    BY <1>0, PickedRecent
  <2>2. {P[i] : i \in DOMAIN P} = Consecutive(Library)
    BY <2>1, PairsAdjacent, ConsecutiveAdjacent
  <2>3. JobsOf(J, Library) = {P[i] : i \in DOMAIN P}
    <3>1. ASSUME NEW i \in DOMAIN J, J[i].row = Library PROVE i - D \in DOMAIN P /\ J[i] = P[i - D]
      BY <3>1, <1>3, <1>4, <1>5, RowsBehind
    <3>2. \A i \in DOMAIN P : i + D \in DOMAIN J /\ J[i + D] = P[i] /\ J[i + D].row = Library
      BY <1>2, <1>4
    <3> HIDE DEF J, P, D
    <3>3. JobsOf(J, Library) \subseteq {P[i] : i \in DOMAIN P}
      <4> SUFFICES ASSUME NEW i \in DOMAIN J, J[i].row = Library PROVE J[i] \in {P[k] : k \in DOMAIN P}
        BY DEF JobsOf
      <4>1. i - D \in DOMAIN P /\ J[i] = P[i - D]
        BY <3>1
      <4> QED
        BY <4>1
    <3>4. ASSUME NEW i \in DOMAIN P PROVE P[i] \in JobsOf(J, Library)
      BY <3>2 DEF JobsOf
    <3> QED
      BY <3>3, <3>4
  <2> QED
    BY <2>2, <2>3
<1> QED
  BY <1>1, <1>5, <1>6, <1>7

LEMMA LookRecent ==
  ASSUME IInv, DefinedInv, NEW v \in todo, PackagesFail(v) \/ Incomplete(v) \/ Pick(v)
  PROVE  RecentInv'
<1> DEFINE all == PerUpstream(SourceOf(Library))
<1>0. LookAt(v) /\ Picking /\ stage = "releases"
  BY DEF PackagesFail, Incomplete, Pick, LookAt, Picking
<1>1. /\ archive' = archive /\ selection' = selection /\ lib' = lib
      /\ todo' = todo \ {v} /\ scanned' = scanned + 1 /\ \A w \in todo : w <= v
  BY <1>0 DEF LookAt, KeepSelect
<1>2. /\ ReleasesInv /\ RecentInv /\ picked \in Seq(Versions) /\ todo \subseteq Versions
      /\ Versions \subseteq Nat /\ scanned \in Nat /\ todo \subseteq all
      /\ SelectTypeOK /\ SelectInv /\ ResolveTypeOK
  BY <1>0, SelectAssumption DEF IInv, DefinedInv, ResolveTypeOK, Versions, ReleasesInv
<1>3. IsFiniteSet(all) /\ all \subseteq Versions
  <2>1. Library \in Rows /\ SourceOf(Library) \in Sources
    BY <1>0, <1>2, PairsInv
  <2>2. all \subseteq Versions
    BY <2>1, <1>2, PerUpstreamType
  <2>3. IsFiniteSet(Versions)
    BY SelectAssumption, FS_Interval DEF Versions
  <2> QED
    BY <2>2, <2>3, FS_Subset
<1>4. Library' = Library /\ PerUpstream(SourceOf(Library))' = all
  BY <1>1 DEF Library, PerUpstream, UpstreamOf, SourceOf
<1>5. /\ scanned = Cardinality(all \ todo) /\ scanned < MaxScan /\ Len(picked) < Releases
      /\ \A w \in todo, u \in all \ todo : w < u
      /\ \A i \in DOMAIN picked : picked[i] \in archive.complete[Library]
  BY <1>0, <1>2 DEF RecentInv, Picking
<1>6. scanned' = Cardinality(all \ todo')
  <2>1. all \ todo' = (all \ todo) \cup {v} /\ v \notin all \ todo
    BY <1>1, <1>2
  <2>2. IsFiniteSet(all \ todo)
    BY <1>3, FS_Difference
  <2> QED
    BY <2>1, <2>2, <1>1, <1>5, FS_AddElement
<1>7. \A w \in todo', u \in all \ todo' : w < u
  <2> SUFFICES ASSUME NEW w \in todo', NEW u \in all \ todo' PROVE w < u
    OBVIOUS
  <2>1. w \in todo /\ w # v /\ w <= v /\ w \in Nat /\ v \in Nat
    BY <1>1, <1>2
  <2> QED
    BY <2>1, <1>1, <1>5
<1>8. picked' = picked \/ (picked' = Append(picked, v) /\ v \in archive.complete[Library])
  BY DEF PackagesFail, Incomplete, Pick
<1>9. /\ Len(picked') <= Releases
      /\ \A i \in DOMAIN picked' : picked'[i] \in archive.complete[Library]
  <2>1. CASE picked' = picked
    BY <2>1, <1>2, <1>5, ResolveAssumption
  <2>2. CASE picked' = Append(picked, v) /\ v \in archive.complete[Library]
    BY <2>2, <1>2, <1>5, ResolveAssumption
  <2> QED
    BY <2>1, <2>2, <1>8
<1>10. scanned' <= MaxScan
  BY <1>1, <1>2, <1>5, ResolveAssumption
<1> QED
  BY <1>1, <1>4, <1>6, <1>7, <1>9, <1>10 DEF RecentInv

LEMMA PlanDefinedKept ==
  ASSUME archive' = archive, plan' = plan, PlanAsDefined
  PROVE  PlanAsDefined'
<1> SUFFICES ASSUME NEW i \in DOMAIN plan.rows PROVE AsDefined(plan.jobs, plan.rows[i], plan.lost)'
  BY DEF PlanAsDefined, Plan
<1>1. PICK js, failed, r : js = plan.jobs /\ failed = plan.lost /\ r = plan.rows[i]
  OBVIOUS
<1>2. AsDefined(js, r, failed)
  BY <1>1 DEF PlanAsDefined, Plan
<1>3. AsDefined(js, r, failed)'
  BY <1>2, DefinedKept
<1> QED
  BY <1>1, <1>3 DEF AsDefined, Unhindered, JobsOf

LEMMA LibrariesDefined ==
  ASSUME archive' = archive, selection' = selection,
         \A x \in DOMAIN Entries : x < lib' => AsDefined(jobs', Entries[x], lost')
  PROVE  (\A x \in DOMAIN Entries : x < lib => AsDefined(jobs, Entries[x], lost))'
<1>1. Entries' = Entries
  BY DEF Entries
<1> SUFFICES ASSUME NEW x \in DOMAIN Entries, x < lib' PROVE AsDefined(jobs, Entries[x], lost)'
  BY <1>1
<1>2. PICK js, failed, r : js = jobs' /\ failed = lost' /\ r = Entries[x]
  OBVIOUS
<1>3. AsDefined(js, r, failed)
  BY <1>2
<1>4. AsDefined(js, r, failed)'
  BY <1>3, DefinedKept
<1> QED
  BY <1>1, <1>2, <1>4 DEF AsDefined, Unhindered, JobsOf

LEMMA MoreLost ==
  ASSUME NEW js, NEW r, NEW failed, NEW failed2, failed \subseteq failed2, AsDefined(js, r, failed)
  PROVE  AsDefined(js, r, failed2)
BY DEF AsDefined, Unhindered

LEMMA FailedDefined ==
  ASSUME IInv, DefinedInv, ListVersionsFails, NEW x \in DOMAIN Entries, x < lib + 1
  PROVE  AsDefined(jobs, Entries[x], lost')
<1>1. /\ lost' = lost \cup {Library} \X Versions /\ lib \in DOMAIN Entries /\ Library = Entries[lib]
      /\ lib \in Nat /\ x \in Nat /\ SelectTypeOK
  BY DEF ListVersionsFails, AtLibrary, IInv, ResolveTypeOK, SelectTypeOK, Entries, Library
<1>2. CASE x < lib
  <2>1. AsDefined(jobs, Entries[x], lost) /\ lost \subseteq lost'
    BY <1>1, <1>2 DEF DefinedInv
  <2> QED
    BY <2>1, MoreLost
<1>3. CASE x = lib
  <2> SUFFICES ASSUME Unhindered(Library, lost') PROVE JobsOf(jobs, Library) = Consecutive(Library)
    BY <1>1, <1>3 DEF AsDefined
  <2>1. Versions = {}
    BY <1>1 DEF Unhindered
  <2>2. JobsOf(jobs, Library) = {}
    BY <1>1, RowsBehind DEF JobsOf
  <2>3. Library \in Rows /\ SourceOf(Library) \in Sources
    BY <1>1 DEF IInv, SelectTypeOK, SelectInv, EntriesKnown, Entries
  <2>4. RecentReleases(Library) = {}
    BY <1>1, <2>1, <2>3, PerUpstreamType DEF RecentReleases
  <2>5. Adjacent(Library, {}) = {}
    BY DEF Adjacent
  <2> QED
    BY <2>2, <2>4, <2>5, ConsecutiveAdjacent
<1> QED
  BY <1>1, <1>2, <1>3

LEMMA ResolveStepDefined ==
  ASSUME IInv, DefinedInv, ResolveStep
  PROVE  DefinedInv'
<1>0. /\ Entries \in Seq(Rows) /\ lib \in Nat /\ \A x \in DOMAIN Entries : x \in Nat
      /\ \A x \in DOMAIN Entries : x < lib => AsDefined(jobs, Entries[x], lost)
      /\ PlanAsDefined
  <2>1. Entries \in Seq(Rows)
    BY DEF IInv, ResolveTypeOK, SelectTypeOK, Entries
  <2>2. \A x \in DOMAIN Entries : x \in Nat
    BY <2>1
  <2> QED
    BY <2>1, <2>2 DEF IInv, ResolveTypeOK, DefinedInv
<1>1. ASSUME KeepSelect, FreshResolve, PlanAsDefined', stage' \in {"idle", "versions"}
      PROVE  DefinedInv'
  <2>1. Entries' = Entries /\ lib' = 1 /\ stage' # "releases"
    BY <1>1 DEF KeepSelect, FreshResolve, Entries
  <2>2. \A x \in DOMAIN Entries' : ~(x < lib')
    BY <2>1, <1>0
  <2> QED
    BY <1>1, <2>1, <2>2 DEF DefinedInv
<1>2. ASSUME KeepSelect, plan' = plan PROVE PlanAsDefined'
  BY <1>0, <1>2, PlanDefinedKept DEF KeepSelect
<1>3. ASSUME KeepSelect, plan' = plan,
             \A x \in DOMAIN Entries : x < lib' => AsDefined(jobs', Entries[x], lost'),
             stage' = "releases" => RecentInv'
      PROVE  DefinedInv'
  BY <1>2, <1>3, LibrariesDefined DEF DefinedInv, KeepSelect
<1>4. CASE StartResolve \/ ResolveAborts
  BY <1>1, <1>2, <1>4 DEF StartResolve, Command, ResolveAborts
<1>5. CASE SavePlan
  <2>1. /\ KeepSelect /\ FreshResolve /\ stage' = "idle" /\ archive' = archive
        /\ plan' = [saved |-> TRUE, rows |-> selection.rows, jobs |-> jobs, lost |-> lost]
        /\ ~(lib <= Len(Entries))
    BY <1>5 DEF SavePlan, KeepSelect, AtLibrary, Entries
  <2>2. PlanAsDefined'
    <3> SUFFICES ASSUME NEW x \in DOMAIN plan'.rows PROVE AsDefined(plan.jobs, plan.rows[x], plan.lost)'
      BY DEF PlanAsDefined, Plan
    <3>1. x \in DOMAIN Entries /\ plan'.rows = Entries /\ plan'.jobs = jobs /\ plan'.lost = lost
      BY <2>1 DEF Entries
    <3>2. x < lib
      BY <3>1, <2>1, <1>0
    <3>3. PICK js, failed, r : js = jobs /\ failed = lost /\ r = Entries[x]
      OBVIOUS
    <3>4. AsDefined(js, r, failed)
      BY <3>1, <3>2, <3>3, <1>0
    <3>5. AsDefined(js, r, failed)'
      BY <3>4, <2>1, DefinedKept
    <3> QED
      BY <3>1, <3>3, <3>5 DEF AsDefined, Unhindered, JobsOf
  <2> QED
    BY <1>1, <2>1, <2>2
<1>6. CASE ListVersions
  <2>1. /\ KeepSelect /\ plan' = plan /\ jobs' = jobs /\ lost' = lost /\ lib' = lib
        /\ todo' = PerUpstream(SourceOf(Library)) /\ picked' = <<>> /\ scanned' = 0
    BY <1>6 DEF ListVersions
  <2>2. PerUpstream(SourceOf(Library))' = PerUpstream(SourceOf(Library))
    BY <2>1 DEF PerUpstream, SourceOf, UpstreamOf, Library, KeepSelect
  <2>3. PerUpstream(SourceOf(Library))' \ todo' = {}
    BY <2>1, <2>2
  <2>4. Len(picked') = 0 /\ DOMAIN picked' = {} /\ 0 <= Releases /\ 0 <= MaxScan
    BY <2>1, ResolveAssumption
  <2>5. RecentInv'
    BY <2>1, <2>3, <2>4, FS_EmptySet DEF RecentInv
  <2> QED
    BY <1>0, <1>3, <2>1, <2>5
<1>7. CASE ListVersionsFails
  <2>1. /\ KeepSelect /\ plan' = plan /\ jobs' = jobs /\ lib' = lib + 1 /\ stage' # "releases"
    BY <1>7 DEF ListVersionsFails, AtLibrary
  <2>2. \A x \in DOMAIN Entries : x < lib' => AsDefined(jobs', Entries[x], lost')
    BY <1>7, <2>1, FailedDefined
  <2> QED
    BY <1>3, <2>1, <2>2
<1>8. ASSUME NEW v \in todo, PackagesFail(v) \/ Incomplete(v) \/ Pick(v) PROVE DefinedInv'
  <2>1. KeepSelect /\ plan' = plan /\ jobs' = jobs /\ lib' = lib /\ lost \subseteq lost'
    BY <1>8 DEF PackagesFail, Incomplete, Pick, LookAt
  <2>2. RecentInv'
    BY <1>8, LookRecent
  <2>3. \A x \in DOMAIN Entries : x < lib' => AsDefined(jobs', Entries[x], lost')
    BY <1>0, <2>1, MoreLost
  <2> QED
    BY <1>3, <2>1, <2>2, <2>3
<1>9. CASE PairUp
  <2>1. /\ KeepSelect /\ plan' = plan /\ lost' = lost /\ lib' = lib + 1 /\ stage' # "releases"
        /\ jobs' = jobs \o Pairs(Library, picked)
    BY <1>9 DEF PairUp
  <2>2. \A x \in DOMAIN Entries : x < lib' => AsDefined(jobs', Entries[x], lost')
    BY <1>9, <2>1, PairUpDefined
  <2> QED
    BY <1>3, <2>1, <2>2
<1> QED
  BY <1>4, <1>5, <1>6, <1>7, <1>8, <1>9 DEF ResolveStep

LEMMA KeptDefined ==
  ASSUME DefinedInv, IInv, archive' = archive, resolveVars' = resolveVars, plan' = plan,
         selection' = selection, stage' = stage
  PROVE  DefinedInv'
<1>1. /\ lib' = lib /\ todo' = todo /\ picked' = picked /\ scanned' = scanned
      /\ jobs' = jobs /\ lost' = lost
  BY DEF resolveVars
<1>2. stage' = "releases" => RecentInv'
  <2>1. PerUpstream(SourceOf(Library))' = PerUpstream(SourceOf(Library)) /\ Library' = Library
    BY <1>1 DEF PerUpstream, SourceOf, UpstreamOf, Library
  <2> QED
    BY <2>1, <1>1 DEF DefinedInv, RecentInv
<1>3. PlanAsDefined'
  BY PlanDefinedKept DEF DefinedInv
<1>4. (\A x \in DOMAIN Entries : x < lib => AsDefined(jobs, Entries[x], lost))'
  BY <1>1, LibrariesDefined DEF DefinedInv
<1> QED
  BY <1>2, <1>3, <1>4 DEF DefinedInv

LEMMA SelectStepDefined ==
  ASSUME IInv, DefinedInv, SelectStep, resolveVars' = resolveVars, plan' = plan
  PROVE  DefinedInv'
<1>1. SelectEffect
  BY SelectStepEffect DEF IInv, ResolveTypeOK
<1>2. lib' = 1 /\ archive' = archive /\ stage' # "releases"
  BY <1>1 DEF IInv, resolveVars, SelectEffect
<1>3. \A x \in DOMAIN Entries' : ~(x < lib')
  <2>1. Entries' \in Seq(Rows)
    BY <1>1 DEF SelectEffect, SelectTypeOK, Entries
  <2> QED
    BY <2>1, <1>2
<1>4. PlanAsDefined'
  BY <1>2, PlanDefinedKept DEF DefinedInv
<1> QED
  BY <1>2, <1>3, <1>4 DEF DefinedInv

\* A plan has exactly the jobs of its definition by counting: for every
\* library without a failed request, the pairs of releases that are adjacent
\* among the Releases newest complete ones of the MaxScan newest, for any
\* history and any bounds (METHODOLOGY.md:65-73, resolve.cpp:99-163).
THEOREM PlanMatchesDefinition == Spec => []PlanAsDefined
<1>1. Init => DefinedInv
  <2> SUFFICES ASSUME Init PROVE DefinedInv
    OBVIOUS
  <2>1. stage # "releases" /\ DOMAIN Entries = {} /\ DOMAIN plan.rows = {}
    BY DEF Init, SelectInit, NoSelection, NoPlan, Entries
  <2> QED
    BY <2>1 DEF DefinedInv, PlanAsDefined
<1>2. IInv /\ DefinedInv /\ [Next]_vars => DefinedInv'
  <2> SUFFICES ASSUME IInv, DefinedInv, [Next]_vars PROVE DefinedInv'
    OBVIOUS
  <2>1. CASE SelectStep /\ UNCHANGED <<resolveVars, plan>>
    BY <2>1, SelectStepDefined
  <2>2. CASE ResolveStep
    BY <2>2, ResolveStepDefined
  <2>3. CASE vars' = vars
    BY <2>3, KeptDefined DEF vars
  <2> QED
    BY <2>1, <2>2, <2>3 DEF Next, Rest
<1>3. DefinedInv => PlanAsDefined
  BY DEF DefinedInv
<1> QED
  BY <1>1, <1>2, <1>3, CorpusInvariance, PTL DEF Spec
=============================================================================
