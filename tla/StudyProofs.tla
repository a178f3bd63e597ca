----------------------------- MODULE StudyProofs -----------------------------
(***************************************************************************)
(* Proofs about run_analyze and run_report for any directory of records:   *)
(* what the summary counts, and that the reports follow it.                *)
(***************************************************************************)
EXTENDS Study, Inductions, FiniteSetTheorems, TLAPS

Steps == {"idle", "headers", "pairs", "summary", "report"}

TypeOK ==
  /\ pairs \in [Ids -> Pairs] /\ headers \in [Ids -> HeaderData]
  /\ pc \in Steps /\ left \subseteq Ids /\ disturbed \subseteq Ids
  /\ errored \in Nat /\ studies \in Nat

\* Which reports there are.
SavedOK ==
  /\ summary.of \in 0 .. studies /\ report \in 0 .. summary.of /\ html.of \in 0 .. summary.of
  /\ pc = "report" => summary.of = studies

\* The header records with the names that are read.
LoadedOK ==
  /\ pc = "idle" => loaded = None /\ all = None /\ errored = 0
  /\ DOMAIN loaded \subseteq Ids
  /\ \A id \in DOMAIN loaded : headers[id].file = "header" /\ loaded[id] = headers[id]
  /\ pc = "headers" =>
       /\ all = None /\ errored = 0 /\ left \subseteq Ids \ DOMAIN loaded
       /\ listed => \A id \in Ids \ left : headers[id].file = "header" => id \in DOMAIN loaded
  /\ pc \in {"pairs", "summary", "report"} /\ listed =>
       \A id \in Ids : headers[id].file = "header" => id \in DOMAIN loaded

Loads(p) == p.file = "pair"
\* The pair records of the names that are read: those of E count as errors and those of a's domain
\* as transitions.
Walked(E, a, n, names, ps, late, complete) ==
  /\ E \subseteq Ids /\ DOMAIN a \subseteq Ids /\ E \cap DOMAIN a = {}
  /\ names \cap (E \cup DOMAIN a) = {} /\ Cardinality(E) = n
  /\ \A id \in E \cup DOMAIN a \cup names : ps[id] # NoFile
  /\ \A id \in Ids \ (late \cup names) :
       /\ id \in E => Loads(ps[id]) /\ Failed(ps[id])
       /\ id \in DOMAIN a => Loads(ps[id]) /\ ~Failed(ps[id])
       /\ complete /\ Loads(ps[id]) => id \in E \cup DOMAIN a

WithHeaders(a, ls) == \A id \in DOMAIN a : a[id].headers # {} <=> id \in DOMAIN ls /\ ls[id].diff

CountedOK ==
  /\ pc \in {"pairs", "summary", "report"} =>
       /\ \E E \in SUBSET Ids : Walked(E, all, errored, left, pairs, disturbed, listed)
       /\ WithHeaders(all, loaded)
  /\ pc \in {"summary", "report"} => left = {}
  /\ pc = "report" =>
       /\ summary.list = all /\ summary.errored = errored
       /\ summary.transitions = Cardinality(Good(all))
       /\ summary.mass_rename_excluded = Cardinality(DOMAIN all \ Good(all))

IInv == TypeOK /\ SavedOK /\ LoadedOK /\ CountedOK

(***************************************************************************)
(* A walk of the directory of pair records.                                *)
(***************************************************************************)
LEMMA AddOne ==
  ASSUME NEW f, NEW id, NEW v, id \notin DOMAIN f
  PROVE  /\ DOMAIN Insert(f, id, v) = DOMAIN f \cup {id}
         /\ Insert(f, id, v)[id] = v
         /\ \A x \in DOMAIN f : Insert(f, id, v)[x] = f[x]
BY DEF Insert

LEMMA Nothing == DOMAIN None = {} /\ NoFile.file = "none"
BY DEF None, NoFile

LEMMA WalkStarts ==
  ASSUME NEW ps, NEW late, NEW names, NEW complete,
         \/ names = {id \in Ids : ps[id] # NoFile}
         \/ names = {} /\ complete = FALSE
  PROVE  Walked({}, None, 0, names, ps, late, complete)
<1>1. Cardinality({}) = 0
  BY FS_EmptySet
<1>2. DOMAIN None = {}
  BY Nothing
<1>3. \A id \in Ids : Loads(ps[id]) => ps[id] # NoFile
  BY Nothing DEF Loads
<1> QED
  BY <1>1, <1>2, <1>3 DEF Walked

LEMMA WalkReads ==
  ASSUME NEW E, NEW a, NEW n \in Nat, NEW names, NEW ps, NEW late, NEW complete,
         Walked(E, a, n, names, ps, late, complete), names \subseteq Ids,
         NEW id \in names, NEW v
  PROVE  /\ ~Loads(ps[id]) => Walked(E, a, n, names \ {id}, ps, late, complete)
         /\ Loads(ps[id]) /\ Failed(ps[id]) =>
              Walked(E \cup {id}, a, n + 1, names \ {id}, ps, late, complete)
         /\ Loads(ps[id]) /\ ~Failed(ps[id]) =>
              Walked(E, Insert(a, id, v), n, names \ {id}, ps, late, complete)
<1>1. /\ E \subseteq Ids /\ DOMAIN a \subseteq Ids /\ E \cap DOMAIN a = {}
      /\ id \in Ids /\ id \notin E /\ id \notin DOMAIN a
      /\ names \cap (E \cup DOMAIN a) = {} /\ Cardinality(E) = n
      /\ \A x \in E \cup DOMAIN a \cup names : ps[x] # NoFile
      /\ \A x \in Ids \ (late \cup names) :
           /\ x \in E => Loads(ps[x]) /\ Failed(ps[x])
           /\ x \in DOMAIN a => Loads(ps[x]) /\ ~Failed(ps[x])
           /\ complete /\ Loads(ps[x]) => x \in E \cup DOMAIN a
  BY DEF Walked
<1>2. IsFiniteSet(E)
  BY <1>1, FS_Subset, StudyAssumption
<1>3. CASE ~Loads(ps[id])
  BY <1>1, <1>3 DEF Walked
<1>4. CASE Loads(ps[id]) /\ Failed(ps[id])
  <2>1. Cardinality(E \cup {id}) = n + 1
    BY <1>1, <1>2, FS_AddElement
  <2> QED
    BY <1>1, <1>4, <2>1 DEF Walked
<1>5. CASE Loads(ps[id]) /\ ~Failed(ps[id])
  <2>1. DOMAIN Insert(a, id, v) = DOMAIN a \cup {id}
    BY <1>1, AddOne
  <2>2. PICK b : b = Insert(a, id, v)
    OBVIOUS
  <2>3. DOMAIN b = DOMAIN a \cup {id}
    BY <2>1, <2>2
  <2>4. Walked(E, b, n, names \ {id}, ps, late, complete)
    BY <1>1, <1>5, <2>3 DEF Walked
  <2> QED
    BY <1>5, <2>2, <2>4
<1> QED
  BY <1>3, <1>4, <1>5

LEMMA WalkDisturbed ==
  ASSUME NEW E, NEW a, NEW n, NEW names, NEW ps \in [Ids -> Pairs], NEW late, NEW complete,
         Walked(E, a, n, names, ps, late, complete),
         NEW id \in Ids, NEW c \in Pairs \ {NoFile}, NEW more,
         more = names \/ (ps[id] = NoFile /\ more = names \cup {id})
  PROVE  Walked(E, a, n, more, [ps EXCEPT ![id] = c], late \cup {id}, complete)
<1>1. PICK qs : qs = [ps EXCEPT ![id] = c]
  OBVIOUS
<1>2. /\ qs[id] = c /\ c # NoFile
      /\ \A x \in Ids : x # id => qs[x] = ps[x]
  BY <1>1
<1>3. /\ E \subseteq Ids /\ DOMAIN a \subseteq Ids /\ E \cap DOMAIN a = {}
      /\ names \cap (E \cup DOMAIN a) = {} /\ Cardinality(E) = n
      /\ \A x \in E \cup DOMAIN a \cup names : ps[x] # NoFile
      /\ \A x \in Ids \ (late \cup names) :
           /\ x \in E => Loads(ps[x]) /\ Failed(ps[x])
           /\ x \in DOMAIN a => Loads(ps[x]) /\ ~Failed(ps[x])
           /\ complete /\ Loads(ps[x]) => x \in E \cup DOMAIN a
  BY DEF Walked
<1>4. more \cap (E \cup DOMAIN a) = {}
  BY <1>3
<1>5. \A x \in E \cup DOMAIN a \cup more : qs[x] # NoFile
  <2> SUFFICES ASSUME NEW x \in E \cup DOMAIN a \cup more, x # id PROVE qs[x] # NoFile
    BY <1>2
  <2>1. x \in E \cup DOMAIN a \cup names
    OBVIOUS
  <2>2. CASE x \in Ids
    BY <1>2, <1>3, <2>1, <2>2
  <2>3. CASE x \notin Ids
    <3>1. qs[x] = ps[x]
      BY <1>1, <2>3
    <3> QED
      BY <1>3, <2>1, <3>1
  <2> QED
    BY <2>2, <2>3
<1>6. \A x \in Ids \ ((late \cup {id}) \cup more) : qs[x] = ps[x] /\ x \in Ids \ (late \cup names)
  BY <1>2
<1>7. Walked(E, a, n, more, qs, late \cup {id}, complete)
  BY <1>3, <1>4, <1>5, <1>6 DEF Walked
<1> QED
  BY <1>1, <1>7

Records(ps, late) == {id \in Ids \ late : Loads(ps[id])}

\* What a walk that has ended amounts to.
LEMMA WalkEnded ==
  ASSUME NEW E, NEW a, NEW n, n \in Nat, NEW ps, NEW late, late \subseteq Ids,
         NEW names, names = {}, NEW complete, complete = TRUE,
         Walked(E, a, n, names, ps, late, complete)
  PROVE  /\ Cardinality(Records(ps, late)) <= Cardinality(DOMAIN a) + n
         /\ Cardinality(DOMAIN a) + n <= Cardinality(Records(ps, late)) + Cardinality(late)
         /\ \A id \in Ids \ late : id \in DOMAIN a <=> id \in Records(ps, late) /\ ~Failed(ps[id])
<1>0. PICK records : records = Records(ps, late)
  OBVIOUS
<1>1. /\ E \subseteq Ids /\ DOMAIN a \subseteq Ids /\ E \cap DOMAIN a = {} /\ Cardinality(E) = n
      /\ \A x \in Ids \ late :
           /\ x \in E => Loads(ps[x]) /\ Failed(ps[x])
           /\ x \in DOMAIN a => Loads(ps[x]) /\ ~Failed(ps[x])
           /\ Loads(ps[x]) => x \in E \cup DOMAIN a
  BY DEF Walked
<1>2. PICK D : D = DOMAIN a
  OBVIOUS
<1>3. IsFiniteSet(E) /\ IsFiniteSet(D) /\ IsFiniteSet(late) /\ IsFiniteSet(Ids)
  BY <1>1, <1>2, FS_Subset, StudyAssumption
<1>4. IsFiniteSet(records)
  BY <1>0, <1>3, FS_Subset DEF Records
<1>5. records \subseteq D \cup E /\ D \cup E \subseteq records \cup late
  BY <1>0, <1>1, <1>2 DEF Records
<1>6. Cardinality(D \cup E) = Cardinality(D) + n /\ IsFiniteSet(D \cup E)
  <2>1. /\ IsFiniteSet(D \cup E)
        /\ Cardinality(D \cup E) = Cardinality(D) + Cardinality(E) - Cardinality(D \cap E)
    BY <1>3, FS_Union
  <2>2. D \cap E = {} /\ Cardinality(D \cap E) = 0
    BY <1>1, <1>2, FS_EmptySet
  <2>3. Cardinality(D) \in Nat
    BY <1>3, FS_CardinalityType
  <2> QED
    BY <1>1, <2>1, <2>2, <2>3
<1>7. Cardinality(records) <= Cardinality(D) + n
  BY <1>5, <1>6, FS_Subset
<1>8. Cardinality(D) + n <= Cardinality(records) + Cardinality(late)
  <2>1. /\ IsFiniteSet(records \cup late)
        /\ Cardinality(records \cup late) =
             Cardinality(records) + Cardinality(late) - Cardinality(records \cap late)
    BY <1>3, <1>4, FS_Union
  <2>2. IsFiniteSet(records \cap late)
    BY <1>3, FS_Subset
  <2>3. /\ Cardinality(records \cap late) \in Nat /\ Cardinality(records) \in Nat
        /\ Cardinality(late) \in Nat /\ Cardinality(D) \in Nat
    BY <1>3, <1>4, <2>2, FS_CardinalityType
  <2>4. Cardinality(D \cup E) <= Cardinality(records \cup late)
    BY <1>5, <2>1, FS_Subset
  <2> QED
    BY <1>6, <2>1, <2>3, <2>4
<1>9. \A id \in Ids \ late : id \in D <=> id \in records /\ ~Failed(ps[id])
  BY <1>0, <1>1, <1>2 DEF Records
<1> QED
  BY <1>0, <1>2, <1>7, <1>8, <1>9

(***************************************************************************)
(* The inductive invariant, action by action.                              *)
(***************************************************************************)
LEMMA InitInv == Init => IInv
<1> SUFFICES ASSUME Init PROVE IInv
  OBVIOUS
<1>1. TypeOK
  BY DEF Init, TypeOK, Steps
<1>2. SavedOK
  <2>1. summary.of = 0 /\ html.of = 0 /\ report = 0 /\ studies = 0 /\ pc = "idle"
    BY DEF Init, NoOutput
  <2> QED
    BY <2>1 DEF SavedOK
<1>3. LoadedOK
  <2>1. loaded = None /\ all = None /\ errored = 0 /\ pc = "idle" /\ DOMAIN loaded = {}
    BY Nothing DEF Init
  <2> QED
    BY <2>1 DEF LoadedOK
<1>4. CountedOK
  BY DEF Init, CountedOK
<1> QED
  BY <1>1, <1>2, <1>3, <1>4 DEF IInv

LEMMA StartInv == ASSUME IInv, Start PROVE IInv'
<1>1. /\ pc = "idle" /\ pc' = "headers" /\ studies' = studies + 1
      /\ pairs' = pairs /\ headers' = headers /\ loaded' = loaded /\ all' = all /\ errored' = errored
      /\ summary' = summary /\ report' = report /\ html' = html /\ disturbed' = disturbed
      /\ \/ left' = Names(headers) /\ listed' = TRUE
         \/ left' = {} /\ listed' = FALSE
  BY DEF Start, Open, files, outputs
<1>2. TypeOK'
  <2>1. Names(headers) \subseteq Ids
    BY DEF Names
  <2> QED
    BY <1>1, <2>1 DEF IInv, TypeOK, Steps
<1>3. SavedOK'
  BY <1>1 DEF IInv, TypeOK, SavedOK
<1>4. LoadedOK'
  <2>1. loaded = None /\ all = None /\ errored = 0 /\ DOMAIN loaded = {}
    BY <1>1, Nothing DEF IInv, LoadedOK
  <2>2. \A id \in Ids \ Names(headers) : headers[id].file # "header"
    BY Nothing DEF Names
  <2>3. left' \subseteq Ids
    BY <1>2 DEF TypeOK
  <2>4. listed' => \A id \in Ids \ left' : headers[id].file # "header"
    BY <1>1, <2>2
  <2> QED
    BY <1>1, <2>1, <2>3, <2>4 DEF LoadedOK
<1>5. CountedOK'
  BY <1>1 DEF CountedOK
<1> QED
  BY <1>2, <1>3, <1>4, <1>5 DEF IInv

LEMMA ReadHeaderInv == ASSUME IInv, ReadHeader PROVE IInv'
<1>1. PICK id \in left :
        /\ left' = left \ {id}
        /\ loaded' = IF headers[id].file = "header" THEN Insert(loaded, id, headers[id]) ELSE loaded
  BY DEF ReadHeader
<1>2. /\ pc = "headers" /\ pc' = pc /\ studies' = studies /\ listed' = listed
      /\ pairs' = pairs /\ headers' = headers /\ all' = all /\ errored' = errored
      /\ summary' = summary /\ report' = report /\ html' = html /\ disturbed' = disturbed
  BY DEF ReadHeader, files, outputs, counters
<1>3. TypeOK'
  BY <1>1, <1>2 DEF IInv, TypeOK
<1>4. SavedOK'
  BY <1>2 DEF IInv, SavedOK
<1>5. LoadedOK'
  <2>1. /\ DOMAIN loaded \subseteq Ids /\ id \in Ids /\ id \notin DOMAIN loaded
        /\ \A x \in DOMAIN loaded : headers[x].file = "header" /\ loaded[x] = headers[x]
        /\ all = None /\ errored = 0 /\ left \subseteq Ids \ DOMAIN loaded
        /\ listed => \A x \in Ids \ left : headers[x].file = "header" => x \in DOMAIN loaded
    BY <1>1, <1>2 DEF IInv, LoadedOK
  <2>2. PICK ls : ls = loaded'
    OBVIOUS
  <2>3. CASE headers[id].file = "header"
    <3>1. ls = Insert(loaded, id, headers[id])
      BY <1>1, <2>2, <2>3
    <3>2. /\ DOMAIN ls = DOMAIN loaded \cup {id} /\ ls[id] = headers[id]
          /\ \A x \in DOMAIN loaded : ls[x] = loaded[x]
      BY <2>1, <3>1 DEF Insert
    <3>3. \A x \in DOMAIN ls : headers[x].file = "header" /\ ls[x] = headers[x]
      BY <2>1, <2>3, <3>2
    <3> QED
      BY <1>1, <1>2, <2>1, <2>2, <3>2, <3>3 DEF LoadedOK
  <2>4. CASE headers[id].file # "header"
    <3>1. loaded' = loaded
      BY <1>1, <2>4
    <3> QED
      BY <1>1, <1>2, <2>1, <2>4, <3>1 DEF LoadedOK
  <2> QED
    BY <2>3, <2>4
<1>6. CountedOK'
  BY <1>2 DEF CountedOK
<1> QED
  BY <1>3, <1>4, <1>5, <1>6 DEF IInv

LEMMA OpenPairsInv == ASSUME IInv, OpenPairs PROVE IInv'
<1>1. /\ pc = "headers" /\ left = {} /\ pc' = "pairs" /\ studies' = studies
      /\ pairs' = pairs /\ headers' = headers /\ loaded' = loaded /\ all' = all /\ errored' = errored
      /\ summary' = summary /\ report' = report /\ html' = html /\ disturbed' = disturbed
      /\ \/ left' = Names(pairs) /\ listed' = listed
         \/ left' = {} /\ listed' = FALSE
  BY DEF OpenPairs, Open, files, outputs, counters
<1>2. TypeOK'
  <2>1. Names(pairs) \subseteq Ids
    BY DEF Names
  <2> QED
    BY <1>1, <2>1 DEF IInv, TypeOK, Steps
<1>3. SavedOK'
  BY <1>1 DEF IInv, SavedOK
<1>4. LoadedOK'
  BY <1>1 DEF IInv, LoadedOK
<1>5. CountedOK'
  <2>1. all = None /\ errored = 0
    BY <1>1 DEF IInv, LoadedOK
  <2>2. PICK names, ok : names = left' /\ ok = listed'
    OBVIOUS
  <2>3. \/ names = {id \in Ids : pairs[id] # NoFile}
        \/ names = {} /\ ok = FALSE
    BY <1>1, <2>2 DEF Names
  <2>4. Walked({}, None, 0, names, pairs, disturbed, TRUE) \/ ok = FALSE
    <3>1. CASE names = {id \in Ids : pairs[id] # NoFile}
      BY <3>1, WalkStarts
    <3> QED
      BY <2>3, <3>1
  <2>5. Walked({}, None, 0, names, pairs, disturbed, ok)
    <3>1. CASE names = {id \in Ids : pairs[id] # NoFile}
      BY <3>1, WalkStarts
    <3>2. CASE names = {} /\ ok = FALSE
      BY <3>2, WalkStarts
    <3> QED
      BY <2>3, <3>1, <3>2
  <2>6. (Walked({}, all, errored, left, pairs, disturbed, listed))'
    BY <1>1, <2>1, <2>2, <2>5
  <2>7. WithHeaders(all, loaded)'
    BY <1>1, <2>1, Nothing DEF WithHeaders
  <2> QED
    BY <1>1, <2>6, <2>7 DEF CountedOK
<1> QED
  BY <1>2, <1>3, <1>4, <1>5 DEF IInv

\* Whether a record counts among those with header data.
LEMMA RollupHeaders ==
  ASSUME NEW id, NEW p
  PROVE  Rollup(id, p).headers # {} <=> id \in DOMAIN loaded /\ loaded[id].diff
<1>1. Rollup(id, p).headers = IF HasDiff(id) THEN {loaded[id].changes} ELSE {}
  BY DEF Rollup
<1> QED
  BY <1>1 DEF HasDiff

LEMMA ReadPairInv == ASSUME IInv, ReadPair PROVE IInv'
<1>1. PICK id \in left :
        /\ left' = left \ {id}
        /\ errored' = IF Loads(pairs[id]) /\ Failed(pairs[id]) THEN errored + 1 ELSE errored
        /\ all' = IF Loads(pairs[id]) /\ ~Failed(pairs[id]) THEN Insert(all, id, Rollup(id, pairs[id]))
                                                            ELSE all
  BY DEF ReadPair, Loads
<1>2. /\ pc = "pairs" /\ pc' = pc /\ studies' = studies /\ listed' = listed
      /\ pairs' = pairs /\ headers' = headers /\ loaded' = loaded
      /\ summary' = summary /\ report' = report /\ html' = html /\ disturbed' = disturbed
  BY DEF ReadPair, files, outputs, counters
<1>3. TypeOK'
  BY <1>1, <1>2 DEF IInv, TypeOK
<1>4. SavedOK'
  BY <1>2 DEF IInv, SavedOK
<1>5. LoadedOK'
  BY <1>2 DEF IInv, LoadedOK
<1>6. CountedOK'
  <2>1. WithHeaders(all, loaded) /\ errored \in Nat /\ left \subseteq Ids
    BY <1>2 DEF IInv, CountedOK, TypeOK
  <2>2. PICK E \in SUBSET Ids : Walked(E, all, errored, left, pairs, disturbed, listed)
    BY <1>2 DEF IInv, CountedOK
  <2>3. PICK v : v = Rollup(id, pairs[id])
    OBVIOUS
  <2>4. v.headers # {} <=> id \in DOMAIN loaded /\ loaded[id].diff
    BY <2>3, RollupHeaders
  <2>5. /\ ~Loads(pairs[id]) => Walked(E, all, errored, left \ {id}, pairs, disturbed, listed)
        /\ Loads(pairs[id]) /\ Failed(pairs[id]) =>
             Walked(E \cup {id}, all, errored + 1, left \ {id}, pairs, disturbed, listed)
        /\ Loads(pairs[id]) /\ ~Failed(pairs[id]) =>
             Walked(E, Insert(all, id, v), errored, left \ {id}, pairs, disturbed, listed)
    BY <1>1, <2>1, <2>2, WalkReads
  <2>6. CASE ~Loads(pairs[id])
    <3>1. all' = all /\ errored' = errored
      BY <1>1, <2>6
    <3>2. (Walked(E, all, errored, left, pairs, disturbed, listed))'
      BY <1>1, <1>2, <2>5, <2>6, <3>1
    <3>3. WithHeaders(all, loaded)'
      BY <1>2, <2>1, <3>1
    <3> QED
      BY <1>2, <3>2, <3>3 DEF CountedOK
  <2>7. CASE Loads(pairs[id]) /\ Failed(pairs[id])
    <3>1. all' = all /\ errored' = errored + 1
      BY <1>1, <2>7
    <3>2. PICK F \in SUBSET Ids : F = E \cup {id}
      BY <1>1, <2>1
    <3>3. (Walked(F, all, errored, left, pairs, disturbed, listed))'
      BY <1>1, <1>2, <2>5, <2>7, <3>1, <3>2
    <3>4. WithHeaders(all, loaded)'
      BY <1>2, <2>1, <3>1
    <3> QED
      BY <1>2, <3>3, <3>4 DEF CountedOK
  <2>8. CASE Loads(pairs[id]) /\ ~Failed(pairs[id])
    <3>1. all' = Insert(all, id, v) /\ errored' = errored
      BY <1>1, <2>3, <2>8
    <3>2. (Walked(E, all, errored, left, pairs, disturbed, listed))'
      BY <1>1, <1>2, <2>5, <2>8, <3>1
    <3>3. id \notin DOMAIN all
      BY <1>1, <2>2 DEF Walked
    <3>4. PICK b : b = Insert(all, id, v)
      OBVIOUS
    <3>5. /\ DOMAIN b = DOMAIN all \cup {id} /\ b[id] = v
          /\ \A x \in DOMAIN all : b[x] = all[x]
      BY <3>3, <3>4 DEF Insert
    <3>6. WithHeaders(b, loaded)
      BY <2>1, <2>4, <3>5 DEF WithHeaders
    <3>7. WithHeaders(all, loaded)'
      BY <1>2, <3>1, <3>4, <3>6
    <3> QED
      BY <1>2, <3>2, <3>7 DEF CountedOK
  <2> QED
    BY <2>6, <2>7, <2>8
<1> QED
  BY <1>3, <1>4, <1>5, <1>6 DEF IInv

LEMMA TabulateInv == ASSUME IInv, Tabulate PROVE IInv'
<1>1. /\ pc = "pairs" /\ left = {} /\ pc' = "summary" /\ left' = left /\ studies' = studies
      /\ listed' = listed /\ pairs' = pairs /\ headers' = headers /\ loaded' = loaded
      /\ all' = all /\ errored' = errored
      /\ summary' = summary /\ report' = report /\ html' = html /\ disturbed' = disturbed
  BY DEF Tabulate, files, outputs, counters
<1>2. TypeOK'
  BY <1>1 DEF IInv, TypeOK, Steps
<1>3. SavedOK'
  BY <1>1 DEF IInv, SavedOK
<1>4. LoadedOK'
  BY <1>1 DEF IInv, LoadedOK
<1>5. CountedOK'
  <2>1. PICK E \in SUBSET Ids : Walked(E, all, errored, left, pairs, disturbed, listed)
    BY <1>1 DEF IInv, CountedOK
  <2>2. (Walked(E, all, errored, left, pairs, disturbed, listed))'
    BY <1>1, <2>1
  <2>3. WithHeaders(all, loaded)'
    BY <1>1 DEF IInv, CountedOK
  <2> QED
    BY <1>1, <2>2, <2>3 DEF CountedOK
<1> QED
  BY <1>2, <1>3, <1>4, <1>5 DEF IInv

LEMMA SaveSummaryInv == ASSUME IInv, SaveSummary PROVE IInv'
<1>1. /\ pc = "summary" /\ pc' = "report" /\ left' = left /\ studies' = studies
      /\ listed' = listed /\ pairs' = pairs /\ headers' = headers /\ loaded' = loaded
      /\ all' = all /\ errored' = errored
      /\ report' = report /\ html' = html /\ disturbed' = disturbed
  BY DEF SaveSummary, files, counters
<1>2. /\ summary'.of = studies /\ summary'.list = all /\ summary'.errored = errored
      /\ summary'.transitions = Cardinality(Good(all))
      /\ summary'.mass_rename_excluded = Cardinality(DOMAIN all \ Good(all))
  <2>1. summary' = Summary(all)
    BY DEF SaveSummary
  <2> QED
    BY <2>1 DEF Summary
<1>3. TypeOK'
  BY <1>1 DEF IInv, TypeOK, Steps
<1>4. SavedOK'
  BY <1>1, <1>2 DEF IInv, SavedOK, TypeOK
<1>5. LoadedOK'
  BY <1>1 DEF IInv, LoadedOK
<1>6. CountedOK'
  <2>1. PICK E \in SUBSET Ids : Walked(E, all, errored, left, pairs, disturbed, listed)
    BY <1>1 DEF IInv, CountedOK
  <2>2. (Walked(E, all, errored, left, pairs, disturbed, listed))'
    BY <1>1, <2>1
  <2>3. WithHeaders(all, loaded)' /\ left' = {}
    BY <1>1 DEF IInv, CountedOK
  <2>4. Good(all)' = Good(all)
    BY <1>1 DEF Good
  <2> QED
    BY <1>1, <1>2, <2>2, <2>3, <2>4 DEF CountedOK
<1> QED
  BY <1>3, <1>4, <1>5, <1>6 DEF IInv

\* Where a study ends, whatever it has saved.
LEMMA EndInv ==
  ASSUME IInv, End, SavedOK', pairs' = pairs, headers' = headers, studies' = studies
  PROVE  IInv'
<1>1. pc' = "idle" /\ left' = {} /\ loaded' = None /\ all' = None /\ errored' = 0 /\ disturbed' = {}
  BY DEF End
<1>2. TypeOK'
  BY <1>1 DEF IInv, TypeOK, Steps
<1>3. DOMAIN loaded' = {}
  BY <1>1, Nothing
<1>4. LoadedOK'
  BY <1>1, <1>3 DEF LoadedOK
<1>5. CountedOK'
  BY <1>1 DEF CountedOK
<1> QED
  BY <1>2, <1>4, <1>5 DEF IInv

LEMMA SaveReportInv == ASSUME IInv, SaveReport PROVE IInv'
<1>1. /\ pc = "report" /\ End /\ report' = studies /\ pairs' = pairs /\ headers' = headers
      /\ summary' = summary /\ html' = html /\ studies' = studies /\ pc' = "idle"
  BY DEF SaveReport, files, End
<1>2. SavedOK'
  BY <1>1 DEF IInv, SavedOK, TypeOK
<1> QED
  BY <1>1, <1>2, EndInv

LEMMA StopInv == ASSUME IInv, Stop PROVE IInv'
<1>1. /\ End /\ report' = report /\ pairs' = pairs /\ headers' = headers
      /\ summary' = summary /\ html' = html /\ studies' = studies /\ pc' = "idle"
  BY DEF Stop, files, outputs, End
<1>2. SavedOK'
  BY <1>1 DEF IInv, SavedOK
<1> QED
  BY <1>1, <1>2, EndInv

LEMMA RenderReportInv == ASSUME IInv, RenderReport PROVE IInv'
<1>1. /\ pc = "idle" /\ pc' = pc /\ left' = left /\ studies' = studies
      /\ listed' = listed /\ pairs' = pairs /\ headers' = headers /\ loaded' = loaded
      /\ all' = all /\ errored' = errored
      /\ summary' = summary /\ report' = report /\ disturbed' = disturbed
  BY DEF RenderReport, files, counters
<1>2. html'.of = summary.of
  <2>1. \E L \in Unstable(summary) : html' = Html(summary, L)
    BY DEF RenderReport
  <2> QED
    BY <2>1 DEF Html
<1>3. TypeOK'
  BY <1>1 DEF IInv, TypeOK
<1>4. SavedOK'
  BY <1>1, <1>2 DEF IInv, SavedOK, TypeOK
<1>5. LoadedOK'
  BY <1>1 DEF IInv, LoadedOK
<1>6. CountedOK'
  BY <1>1 DEF CountedOK
<1> QED
  BY <1>3, <1>4, <1>5, <1>6 DEF IInv

LEMMA SavePairInv == ASSUME IInv, SavePair PROVE IInv'
<1>1. PICK id \in Ids, c \in Pairs \ {NoFile} :
        /\ pairs' = [pairs EXCEPT ![id] = c]
        /\ IF pc = "pairs" /\ pairs[id] = NoFile THEN left' \in {left, left \cup {id}} ELSE left' = left
        /\ disturbed' = IF pc = "idle" THEN {} ELSE disturbed \cup {id}
  BY DEF SavePair, SeenBy
<1>2. /\ pc' = pc /\ studies' = studies /\ listed' = listed
      /\ headers' = headers /\ loaded' = loaded /\ all' = all /\ errored' = errored
      /\ summary' = summary /\ report' = report /\ html' = html
  BY DEF SavePair, outputs
<1>3. TypeOK'
  BY <1>1, <1>2 DEF IInv, TypeOK
<1>4. SavedOK'
  BY <1>2 DEF IInv, SavedOK
<1>5. LoadedOK'
  <2>1. CASE pc = "headers"
    <3>1. left' = left
      BY <1>1, <2>1
    <3> QED
      BY <1>2, <3>1 DEF IInv, LoadedOK
  <2>2. CASE pc # "headers"
    BY <1>2, <2>2 DEF IInv, LoadedOK
  <2> QED
    BY <2>1, <2>2
<1>6. CountedOK'
  <2>1. CASE pc \in {"pairs", "summary", "report"}
    <3>1. PICK E \in SUBSET Ids : Walked(E, all, errored, left, pairs, disturbed, listed)
      BY <2>1 DEF IInv, CountedOK
    <3>2. PICK more : more = left'
      OBVIOUS
    <3>3. more = left \/ (pairs[id] = NoFile /\ more = left \cup {id})
      BY <1>1, <3>2
    <3>4. pairs \in [Ids -> Pairs]
      BY DEF IInv, TypeOK
    <3>5. Walked(E, all, errored, more, [pairs EXCEPT ![id] = c], disturbed \cup {id}, listed)
      BY <1>1, <3>1, <3>3, <3>4, WalkDisturbed
    <3>6. disturbed' = disturbed \cup {id}
      BY <1>1, <2>1
    <3>7. (Walked(E, all, errored, left, pairs, disturbed, listed))'
      BY <1>1, <1>2, <3>2, <3>5, <3>6
    <3>8. WithHeaders(all, loaded)'
      BY <1>2, <2>1 DEF IInv, CountedOK
    <3>9. pc \in {"summary", "report"} => left' = {}
      BY <1>1 DEF IInv, CountedOK
    <3>10. Good(all)' = Good(all)
      BY <1>2 DEF Good
    <3> QED
      BY <1>2, <2>1, <3>7, <3>8, <3>9, <3>10 DEF IInv, CountedOK
  <2>2. CASE pc \notin {"pairs", "summary", "report"}
    BY <1>2, <2>2 DEF CountedOK
  <2> QED
    BY <2>1, <2>2
<1> QED
  BY <1>3, <1>4, <1>5, <1>6 DEF IInv

LEMMA SaveHeaderInv == ASSUME IInv, SaveHeader PROVE IInv'
<1>1. PICK id \in Ids, h \in HeaderData \ {NoFile} : headers' = [headers EXCEPT ![id] = h]
  BY DEF SaveHeader
<1>2. /\ pc = "idle" /\ pc' = pc /\ left' = left /\ studies' = studies
      /\ pairs' = pairs /\ loaded' = loaded /\ all' = all /\ errored' = errored
      /\ summary' = summary /\ report' = report /\ html' = html /\ disturbed' = disturbed
  BY DEF SaveHeader, outputs
<1>3. TypeOK'
  BY <1>1, <1>2 DEF IInv, TypeOK
<1>4. SavedOK'
  BY <1>2 DEF IInv, SavedOK
<1>5. loaded = None /\ all = None /\ errored = 0 /\ DOMAIN loaded = {}
  BY <1>2, Nothing DEF IInv, LoadedOK
<1>6. LoadedOK'
  BY <1>2, <1>5 DEF LoadedOK
<1>7. CountedOK'
  BY <1>2 DEF CountedOK
<1> QED
  BY <1>3, <1>4, <1>6, <1>7 DEF IInv

LEMMA StutterInv == ASSUME IInv, UNCHANGED vars PROVE IInv'
<1>1. /\ pc' = pc /\ left' = left /\ studies' = studies /\ listed' = listed
      /\ headers' = headers /\ pairs' = pairs /\ loaded' = loaded /\ all' = all /\ errored' = errored
      /\ summary' = summary /\ report' = report /\ html' = html /\ disturbed' = disturbed
  BY DEF vars
<1>2. TypeOK' /\ SavedOK' /\ LoadedOK'
  BY <1>1 DEF IInv, TypeOK, SavedOK, LoadedOK
<1>3. Good(all)' = Good(all)
  BY <1>1 DEF Good
<1>4. CountedOK'
  BY <1>1, <1>3 DEF IInv, CountedOK
<1> QED
  BY <1>2, <1>4 DEF IInv

\* What has been read and counted, at every point of a study, whoever writes meanwhile
\* (analyze.cpp:242-276, 507-508).
THEOREM StudyInvariance == Spec => []IInv
<1>1. Init => IInv
  BY InitInv
<1>2. IInv /\ [Next]_vars => IInv'
  <2> SUFFICES ASSUME IInv, [Next]_vars PROVE IInv'
    OBVIOUS
  <2>1. CASE Start
    BY <2>1, StartInv
  <2>2. CASE ReadHeader
    BY <2>2, ReadHeaderInv
  <2>3. CASE OpenPairs
    BY <2>3, OpenPairsInv
  <2>4. CASE ReadPair
    BY <2>4, ReadPairInv
  <2>5. CASE Tabulate
    BY <2>5, TabulateInv
  <2>6. CASE SaveSummary
    BY <2>6, SaveSummaryInv
  <2>7. CASE SaveReport
    BY <2>7, SaveReportInv
  <2>8. CASE Stop
    BY <2>8, StopInv
  <2>9. CASE RenderReport
    BY <2>9, RenderReportInv
  <2>10. CASE SavePair
    BY <2>10, SavePairInv
  <2>11. CASE SaveHeader
    BY <2>11, SaveHeaderInv
  <2>12. CASE UNCHANGED vars
    BY <2>12, StutterInv
  <2> QED
    BY <2>1, <2>2, <2>3, <2>4, <2>5, <2>6, <2>7, <2>8, <2>9, <2>10, <2>11, <2>12 DEF Next
<1> QED
  BY <1>1, <1>2, PTL DEF Spec

\* The summary counts each record of the directory once, for any number of records and of writers
\* (analyze.cpp:242-276).
THEOREM SummaryIsOfTheDirectory == Spec => []StudyOfTheDirectory
<1>1. IInv => StudyOfTheDirectory
  <2> SUFFICES ASSUME IInv, pc = "report", listed PROVE StudyOfTheDirectory
    BY DEF StudyOfTheDirectory
  <2>1. PICK E \in SUBSET Ids : Walked(E, all, errored, {}, pairs, disturbed, TRUE)
    BY DEF IInv, CountedOK, TypeOK
  <2>2. /\ summary.list = all /\ summary.errored = errored
        /\ summary.transitions = Cardinality(Good(all))
        /\ summary.mass_rename_excluded = Cardinality(DOMAIN all \ Good(all))
        /\ WithHeaders(all, loaded) /\ errored \in Nat
        /\ pairs \in [Ids -> Pairs] /\ headers \in [Ids -> HeaderData] /\ disturbed \in SUBSET Ids
    BY DEF IInv, CountedOK, TypeOK
  <2>3. /\ \A id \in DOMAIN loaded : headers[id].file = "header" /\ loaded[id] = headers[id]
        /\ \A id \in Ids : headers[id].file = "header" => id \in DOMAIN loaded
    BY DEF IInv, LoadedOK
  <2>r. PICK records : records = Records(pairs, disturbed)
    OBVIOUS
  <2>4. /\ Cardinality(records) <= Cardinality(DOMAIN all) + errored
        /\ Cardinality(DOMAIN all) + errored <= Cardinality(records) + Cardinality(disturbed)
        /\ \A id \in Ids \ disturbed : id \in DOMAIN all <=> id \in records /\ ~Failed(pairs[id])
    <3>1. PICK names, complete : names = {} /\ complete = TRUE
      OBVIOUS
    <3>2. Walked(E, all, errored, names, pairs, disturbed, complete)
      BY <2>1, <3>1
    <3>3. disturbed \subseteq Ids /\ errored \in Nat
      BY <2>2
    <3> QED
      BY <2>r, <3>1, <3>2, <3>3, WalkEnded
  <2>5. summary.transitions + summary.mass_rename_excluded = Cardinality(DOMAIN all)
    <3>1. PICK D, G : D = DOMAIN all /\ G = Good(all)
      OBVIOUS
    <3>2. G \subseteq D /\ IsFiniteSet(D)
      <4>1. D \subseteq Ids
        BY <2>1, <3>1 DEF Walked
      <4> QED
        BY <3>1, <4>1, FS_Subset, StudyAssumption DEF Good
    <3>3. IsFiniteSet(G) /\ IsFiniteSet(D \ G) /\ G \cup (D \ G) = D /\ G \cap (D \ G) = {}
      BY <3>2, FS_Subset
    <3>4. Cardinality(D) = Cardinality(G) + Cardinality(D \ G) - 0
      <4>1. Cardinality(G \cup (D \ G)) =
              Cardinality(G) + Cardinality(D \ G) - Cardinality(G \cap (D \ G))
        BY <3>3, FS_Union
      <4> QED
        BY <3>3, <4>1, FS_EmptySet
    <3>5. Cardinality(G) \in Nat /\ Cardinality(D \ G) \in Nat
      BY <3>3, FS_CardinalityType
    <3> QED
      BY <2>2, <3>1, <3>4, <3>5
  <2>6. ASSUME NEW id \in Ids, Loads(pairs[id])
        PROVE  Failed(pairs[id]) <=> ~(~pairs[id].error /\ Len(pairs[id].objects) > 0)
    <3>1. PICK p \in Pairs : p = pairs[id]
      BY <2>2
    <3>2. p.file = "pair" /\ p # NoFile /\ p # Unreadable
      BY <2>6, <3>1 DEF Loads, NoFile, Unreadable
    <3>3. p.objects \in Seq(SharedObject)
      BY <3>1, <3>2, StudyAssumption DEF PairFile
    <3>4. p.objects = <<>> <=> ~(Len(p.objects) > 0)
      BY <3>3
    <3> QED
      BY <3>1, <3>4 DEF Failed
  <2>7. \A id \in Ids \ disturbed :
          id \in DOMAIN all <=> id \in records /\ ~pairs[id].error /\ Len(pairs[id].objects) > 0
    BY <2>4, <2>6, <2>r DEF Records
  <2>8. \A id \in DOMAIN all \cap Ids :
          all[id].headers # {} <=> headers[id].file = "header" /\ headers[id].diff
    BY <2>2, <2>3 DEF WithHeaders
  <2>9. records = {id \in Ids \ disturbed : pairs[id].file = "pair"}
    BY <2>r DEF Records, Loads
  <2> QED
    BY <2>2, <2>4, <2>5, <2>7, <2>8, <2>9 DEF StudyOfTheDirectory
<1> QED
  BY <1>1, StudyInvariance, PTL

\* report.txt and report.html are never ahead of the summary (analyze.cpp:507-508, report.cpp:212).
THEOREM ReportsAreOfTheSummary == Spec => []ReportsFollowSummary
<1>1. IInv => ReportsFollowSummary
  BY DEF IInv, SavedOK, TypeOK, ReportsFollowSummary
<1> QED
  BY <1>1, StudyInvariance, PTL

(***************************************************************************)
(* The framings over any transitions a.                                    *)
(***************************************************************************)
\* What no mechanism absorbs, of all that any framing takes for a break.
Unabsorbable == {"symbol_removed", "function_signature_changed"}

LEMMA FramingKinds ==
  /\ BinaryBreaking \subseteq EvolutionRelevant /\ EvolutionRelevant \subseteq EvolutionOrInline
  /\ Unabsorbable \subseteq BinaryBreaking
  /\ \A k \in EvolutionOrInline : ~Absorbed(k) <=> k \in Unabsorbable
<1>1. /\ BinaryBreaking \subseteq EvolutionRelevant /\ EvolutionRelevant \subseteq EvolutionOrInline
      /\ Unabsorbable \subseteq BinaryBreaking
  BY DEF EvolutionOrInline, EvolutionRelevant, BinaryBreaking, Unabsorbable
<1>2. ASSUME NEW k \in EvolutionOrInline PROVE ~Absorbed(k) <=> k \in Unabsorbable
  <2>1. k \in LayoutKinds => Absorbed(k) /\ k \notin Unabsorbable
    BY DEF Absorbed, MechanismFor, Mechanisms, LayoutKinds, MemberKinds, EnumKinds, HeaderKinds, Unabsorbable
  <2>2. k \in EnumKinds => Absorbed(k) /\ k \notin Unabsorbable
    BY DEF Absorbed, MechanismFor, Mechanisms, LayoutKinds, MemberKinds, EnumKinds, HeaderKinds, Unabsorbable
  <2>3. k \in {"vtable_changed", "inline_body_changed"} => Absorbed(k) /\ k \notin Unabsorbable
    BY DEF Absorbed, MechanismFor, Mechanisms, LayoutKinds, MemberKinds, EnumKinds, HeaderKinds, Unabsorbable
  <2>4. k \in Unabsorbable => ~Absorbed(k)
    BY DEF Absorbed, MechanismFor, Mechanisms, LayoutKinds, MemberKinds, EnumKinds, HeaderKinds, Unabsorbable
  <2>5. k \in LayoutKinds \cup EnumKinds \cup {"vtable_changed", "inline_body_changed"} \cup Unabsorbable
    BY DEF EvolutionOrInline, EvolutionRelevant, BinaryBreaking, Unabsorbable
  <2> QED
    BY <2>1, <2>2, <2>3, <2>4, <2>5
<1> QED
  BY <1>1, <1>2

Framings == {BinaryBreaking, EvolutionRelevant, EvolutionOrInline}

LEMMA RescuedOf ==
  ASSUME NEW a, NEW K \in Framings
  PROVE  /\ Fully(a, K) \subseteq Affected(a, K) /\ Affected(a, K) \subseteq Good(a) /\ Good(a) \subseteq DOMAIN a
         /\ Affected(a, K) \ Fully(a, K) = {id \in Good(a) : Relevant(a[id], Unabsorbable) # {}}
<1>1. Fully(a, K) \subseteq Affected(a, K) /\ Affected(a, K) \subseteq Good(a) /\ Good(a) \subseteq DOMAIN a
  BY DEF Fully, Affected, Good
<1>2. Unabsorbable \subseteq K /\ \A k \in K : ~Absorbed(k) <=> k \in Unabsorbable
  BY FramingKinds DEF Framings
<1>3. ASSUME NEW id \in Good(a)
      PROVE  id \in Affected(a, K) \ Fully(a, K) <=> Relevant(a[id], Unabsorbable) # {}
  <2>1. PICK P : P = Present(a[id].counts)
    OBVIOUS
  <2>2. /\ id \in Affected(a, K) <=> P \cap K # {}
        /\ id \in Fully(a, K) <=> P \cap K # {} /\ \A k \in P \cap K : Absorbed(k)
        /\ Relevant(a[id], Unabsorbable) = P \cap Unabsorbable
    BY <2>1 DEF Affected, Fully, Relevant
  <2> QED
    BY <1>2, <2>2
<1> QED
  BY <1>1, <1>3

\* A wider framing affects and rescues more.
LEMMA Wider ==
  ASSUME NEW a, NEW K \in Framings, NEW L \in Framings, K \subseteq L
  PROVE  Affected(a, K) \subseteq Affected(a, L) /\ Fully(a, K) \subseteq Fully(a, L)
<1>1. Affected(a, K) \subseteq Affected(a, L)
  BY DEF Affected, Relevant
<1>2. Affected(a, K) \ Fully(a, K) = Affected(a, L) \ Fully(a, L)
  BY RescuedOf
<1>3. Fully(a, K) \subseteq Affected(a, K)
  BY RescuedOf
<1> QED
  BY <1>1, <1>2, <1>3

LEMMA Fewer ==
  ASSUME NEW S, IsFiniteSet(S), NEW T, T \subseteq S
  PROVE  /\ IsFiniteSet(T) /\ Cardinality(T) \in Nat /\ Cardinality(S) \in Nat /\ Cardinality(T) <= Cardinality(S)
         /\ Cardinality(S \ T) = Cardinality(S) - Cardinality(T)
<1>1. IsFiniteSet(T) /\ Cardinality(T) <= Cardinality(S)
  BY FS_Subset
<1>2. Cardinality(S \ T) = Cardinality(S) - Cardinality(S \cap T) /\ S \cap T = T
  BY <1>1, FS_Difference
<1> QED
  BY <1>1, <1>2, FS_CardinalityType

\* The mechanisms a rescued transition needs.
LEMMA RescueAddsUp ==
  ASSUME NEW a, IsFiniteSet(DOMAIN a), NEW K \in Framings, NEW r, r = Rescue(a, K)
  PROVE  /\ r.affected = Cardinality(Affected(a, K)) /\ r.fully_rescued = Cardinality(Fully(a, K))
         /\ r.affected \in Nat /\ r.fully_rescued \in Nat /\ r.fully_rescued <= r.affected
         /\ r.affected - r.fully_rescued = Cardinality({id \in Good(a) : Relevant(a[id], Unabsorbable) # {}})
         /\ SumFunction(r.sole_reason) <= r.fully_rescued
         /\ r.fully_rescued <= SumFunction(r.needed_by)
<1>1. PICK A, F, X : A = Affected(a, K) /\ F = Fully(a, K) /\ X = {id \in Good(a) : Relevant(a[id], Unabsorbable) # {}}
  OBVIOUS
<1>2. F \subseteq A /\ A \subseteq DOMAIN a /\ A \ F = X
  BY <1>1, RescuedOf
<1>3. IsFiniteSet(A) /\ IsFiniteSet(F)
  BY <1>2, Fewer
<1>4. r.affected = Cardinality(A) /\ r.fully_rescued = Cardinality(F)
  BY <1>1 DEF Rescue
<1>5. Cardinality(A) \in Nat /\ Cardinality(F) \in Nat /\ Cardinality(F) <= Cardinality(A)
      /\ Cardinality(X) = Cardinality(A) - Cardinality(F)
  BY <1>2, <1>3, Fewer
<1>6. PICK needs, soles : /\ needs = [m \in Mechanisms |-> Needing(a, K, m)]
                          /\ soles = [m \in Mechanisms |-> SolelyBy(a, K, m)]
  OBVIOUS
<1>7. PICK n, s : n = r.needed_by /\ s = r.sole_reason
  OBVIOUS
<1>8. n = [m \in Mechanisms |-> Cardinality(Needing(a, K, m))] /\ s = [m \in Mechanisms |-> Cardinality(SolelyBy(a, K, m))]
  BY <1>7 DEF Rescue
<1>9. IsFiniteSet(Mechanisms)
  <2>1. PICK m1, m2, m3, m4 : Mechanisms = {m1, m2, m3, m4}
    BY DEF Mechanisms
  <2>2. PICK M1, M2 : M1 = {m1} \cup {m2} /\ M2 = {m3} \cup {m4}
    OBVIOUS
  <2>3. IsFiniteSet({m1}) /\ IsFiniteSet({m2}) /\ IsFiniteSet({m3}) /\ IsFiniteSet({m4})
    BY FS_Singleton
  <2>4. IsFiniteSet(M1) /\ IsFiniteSet(M2)
    BY <2>2, <2>3, FS_Union
  <2>5. IsFiniteSet(M1 \cup M2) /\ Mechanisms = M1 \cup M2
    BY <2>1, <2>2, <2>4, FS_Union
  <2> QED
    BY <2>5
<1>10. \A m \in Mechanisms : /\ needs[m] \subseteq F /\ soles[m] \subseteq F
                             /\ n[m] = Cardinality(needs[m]) /\ s[m] = Cardinality(soles[m])
  BY <1>1, <1>6, <1>8 DEF Needing, SolelyBy
<1>11. \A m \in Mechanisms : IsFiniteSet(needs[m]) /\ IsFiniteSet(soles[m])
  BY <1>3, <1>10, FS_Subset
<1>12. Cardinality(Together(needs, Mechanisms)) <= SumFunctionOnSet(n, Mechanisms)
  BY <1>9, <1>10, <1>11, CountTogether
<1>13. Apart(soles, Mechanisms)
  <2> SUFFICES ASSUME NEW m1 \in Mechanisms, NEW m2 \in Mechanisms, NEW id \in soles[m1] \cap soles[m2]
               PROVE  m1 = m2
    BY DEF Apart
  <2>1. id \in SolelyBy(a, K, m1) /\ id \in SolelyBy(a, K, m2)
    BY <1>6
  <2>2. PICK k \in Relevant(a[id], K) : MechanismFor(k) = m1
    BY <2>1 DEF SolelyBy, Needing
  <2> QED
    BY <2>1, <2>2 DEF SolelyBy
<1>14. Cardinality(Together(soles, Mechanisms)) = SumFunctionOnSet(s, Mechanisms)
  BY <1>9, <1>10, <1>11, <1>13, CountTogether
<1>15. Together(soles, Mechanisms) \subseteq F
  BY <1>10 DEF Together
<1>16. F \subseteq Together(needs, Mechanisms)
  <2> SUFFICES ASSUME NEW id \in F PROVE id \in Together(needs, Mechanisms)
    OBVIOUS
  <2>1. id \in Affected(a, K) /\ \A k \in Relevant(a[id], K) : Absorbed(k)
    BY <1>1 DEF Fully
  <2>2. PICK k \in Relevant(a[id], K) : TRUE
    BY <2>1 DEF Affected
  <2>3. MechanismFor(k) \in Mechanisms
    BY <2>1, <2>2 DEF Absorbed
  <2>4. id \in needs[MechanismFor(k)]
    BY <1>1, <1>6, <2>2, <2>3 DEF Needing
  <2> QED
    BY <2>3, <2>4 DEF Together
<1>17. IsFiniteSet(Together(needs, Mechanisms))
  BY <1>9, <1>10, <1>11, CountTogether
<1>18. Cardinality(Together(soles, Mechanisms)) <= Cardinality(F)
  BY <1>3, <1>15, FS_Subset
<1>19. Cardinality(F) <= Cardinality(Together(needs, Mechanisms)) /\ Cardinality(Together(needs, Mechanisms)) \in Nat
  BY <1>16, <1>17, Fewer
<1>20. SumFunction(n) = SumFunctionOnSet(n, Mechanisms) /\ SumFunction(s) = SumFunctionOnSet(s, Mechanisms)
  BY <1>8 DEF SumFunction
<1>21. SumFunctionOnSet(n, Mechanisms) \in Nat
  BY <1>9, <1>10, <1>11, FS_CardinalityType, SumNat
<1>22. SumFunction(s) <= Cardinality(F)
  BY <1>14, <1>18, <1>20
<1>23. Cardinality(F) <= SumFunction(n)
  BY <1>5, <1>12, <1>19, <1>20, <1>21
<1> QED
  BY <1>1, <1>4, <1>5, <1>7, <1>22, <1>23

\* The transitions of some libraries together.
Split(a, G, L, c, T) == (\A l \in L : c[l] = {id \in G : a[id].source = l}) /\ T = {id \in G : a[id].source \in L}
Sizes(f, c, L) == DOMAIN f = L /\ \A l \in L : f[l] = Cardinality(c[l])

LEMMA BySource ==
  ASSUME NEW a, NEW G, IsFiniteSet(G), NEW L, IsFiniteSet(L), NEW f, NEW c, NEW T,
         Split(a, G, L, c, T), Sizes(f, c, L)
  PROVE  SumFunction(f) = Cardinality(T)
<1>1. \A l \in L : c[l] \subseteq G
  BY DEF Split
<1>2. \A l \in L : IsFiniteSet(c[l]) /\ f[l] = Cardinality(c[l])
  BY <1>1, FS_Subset DEF Sizes
<1>3. Apart(c, L)
  BY DEF Apart, Split
<1>4. Cardinality(Together(c, L)) = SumFunctionOnSet(f, L)
  BY <1>2, <1>3, CountTogether
<1>5. Together(c, L) = T
  <2>1. Together(c, L) \subseteq T
    BY DEF Together, Split
  <2>2. ASSUME NEW id \in G, a[id].source \in L PROVE id \in Together(c, L)
    <3>1. id \in c[a[id].source]
      BY <2>2 DEF Split
    <3> QED
      BY <2>2, <3>1 DEF Together
  <2> QED
    BY <2>1, <2>2 DEF Split
<1> QED
  BY <1>4, <1>5 DEF SumFunction, Sizes

(***************************************************************************)
(* The figures saved and shown.                                            *)
(***************************************************************************)
FromSources(a) == DOMAIN a \subseteq Ids /\ \A id \in DOMAIN a : a[id].source \in Sources
Tabulated(s) ==
  /\ FromSources(s.list)
  /\ s.rescue_binary = Rescue(s.list, BinaryBreaking)
  /\ s.rescue_evolution = Rescue(s.list, EvolutionRelevant)
  /\ s.rescue_inline = Rescue(s.list, EvolutionOrInline)
  /\ s.transitions = Cardinality(Good(s.list))
  /\ s.breaking = Cardinality(Affected(s.list, BinaryBreaking))
  /\ s.declared = Cardinality(Declared(s.list)) /\ s.silent = s.breaking - s.declared

\* The summary is the table of its own list, the report is made from the summary it is of, and a study
\* under way is newer than both.
FiguresOK ==
  /\ FromSources(all)
  /\ summary.of > 0 => Tabulated(summary)
  /\ html.of > 0 /\ html.of = summary.of => \E L \in Unstable(summary) : html = Html(summary, L)
  /\ pc \in {"headers", "pairs", "summary"} => summary.of < studies

LEMMA FiguresStep ==
  ASSUME IInv, FiguresOK, [Next]_vars
  PROVE  FiguresOK'
<1>0. summary.of \in Nat /\ html.of \in Nat /\ studies \in Nat /\ summary.of <= studies /\ html.of <= summary.of
      /\ pc \in Steps
  BY DEF IInv, TypeOK, SavedOK
<1>1. FromSources(None)
  BY Nothing DEF FromSources
<1>2. CASE ReadHeader \/ OpenPairs \/ Tabulate \/ SavePair \/ SaveHeader \/ UNCHANGED vars
  <2>1. /\ all' = all /\ summary' = summary /\ html' = html /\ studies' = studies
        /\ pc' = pc \/ (pc \in {"headers", "pairs"} /\ pc' \in {"pairs", "summary"})
    BY <1>2 DEF ReadHeader, OpenPairs, Tabulate, SavePair, SaveHeader, vars, files, outputs, counters
  <2>2. pc' \in {"headers", "pairs", "summary"} => pc \in {"headers", "pairs", "summary"}
    BY <2>1
  <2> QED
    BY <2>1, <2>2 DEF FiguresOK
<1>3. CASE Start
  <2>1. all' = all /\ summary' = summary /\ html' = html /\ studies' = studies + 1
    BY <1>3 DEF Start, outputs
  <2> QED
    BY <1>0, <2>1 DEF FiguresOK
<1>4. CASE ReadPair
  <2>1. /\ pc = "pairs" /\ pc' = pc /\ summary' = summary /\ html' = html /\ studies' = studies
    BY <1>4 DEF ReadPair, outputs, counters
  <2>2. FromSources(all')
    <3>1. PICK id \in left :
            all' = IF pairs[id].file = "pair" /\ ~Failed(pairs[id]) THEN Insert(all, id, Rollup(id, pairs[id])) ELSE all
      BY <1>4 DEF ReadPair
    <3>2. PICK v : v = Rollup(id, pairs[id])
      OBVIOUS
    <3>3. id \in Ids /\ v.source \in Sources
      <4>1. id \in Ids
        BY DEF IInv, TypeOK
      <4>2. v.source = SourceOf[id]
        BY <3>2 DEF Rollup
      <4> QED
        BY <4>1, <4>2, StudyAssumption
    <3>4. FromSources(Insert(all, id, v))
      BY <3>3 DEF FiguresOK, FromSources, Insert
    <3> QED
      BY <3>1, <3>2, <3>4 DEF FiguresOK
  <2> QED
    BY <2>1, <2>2 DEF FiguresOK
<1>5. CASE SaveSummary
  <2>1. /\ pc = "summary" /\ pc' = "report" /\ all' = all /\ html' = html /\ studies' = studies
        /\ summary' = Summary(all)
    BY <1>5 DEF SaveSummary, counters
  <2>2. summary.of < studies
    BY <2>1 DEF FiguresOK
  <2>3. PICK s, a : s = summary' /\ a = all
    OBVIOUS
  <2>4. /\ s.of = studies /\ s.list = a /\ s.transitions = Cardinality(Good(a))
        /\ s.rescue_binary = Rescue(a, BinaryBreaking) /\ s.rescue_evolution = Rescue(a, EvolutionRelevant)
        /\ s.rescue_inline = Rescue(a, EvolutionOrInline)
        /\ s.breaking = Cardinality(Affected(a, BinaryBreaking)) /\ s.declared = Cardinality(Declared(a))
        /\ s.silent = Cardinality(Affected(a, BinaryBreaking)) - Cardinality(Declared(a))
    BY <2>1, <2>3 DEF Summary
  <2>5. Tabulated(s)
    BY <2>3, <2>4 DEF Tabulated, FiguresOK
  <2>6. ~(html'.of = summary'.of)
    BY <1>0, <2>1, <2>2, <2>3, <2>4
  <2> QED
    BY <2>1, <2>3, <2>5, <2>6 DEF FiguresOK
<1>6. CASE SaveReport \/ Stop
  <2>1. pc' = "idle" /\ all' = None /\ summary' = summary /\ html' = html
    BY <1>6 DEF SaveReport, Stop, End, outputs
  <2> QED
    BY <1>1, <2>1 DEF FiguresOK
<1>7. CASE RenderReport
  <2>1. /\ pc = "idle" /\ pc' = pc /\ all' = all /\ summary' = summary
        /\ \E L \in Unstable(summary) : html' = Html(summary, L)
    BY <1>7 DEF RenderReport
  <2> QED
    BY <2>1 DEF FiguresOK
<1> QED
  BY <1>2, <1>3, <1>4, <1>5, <1>6, <1>7 DEF Next

THEOREM FiguresInvariance == Spec => [](IInv /\ FiguresOK)
<1>1. Init => FiguresOK
  <2> SUFFICES ASSUME Init PROVE FiguresOK
    OBVIOUS
  <2>1. pc = "idle" /\ all = None /\ summary.of = 0 /\ html.of = 0
    BY DEF Init, NoOutput
  <2>2. ~(0 > 0)
    OBVIOUS
  <2> QED
    BY <2>1, <2>2, Nothing DEF FiguresOK, FromSources
<1>2. IInv /\ FiguresOK /\ [Next]_vars => FiguresOK'
  BY FiguresStep
<1> QED
  BY <1>1, <1>2, StudyInvariance, PTL DEF Spec

\* What a wider framing affects or rescues includes what a narrower one does, and the mechanisms account
\* for what is rescued (model.hpp; analyze.cpp:180-232).
THEOREM FramingsAreNested == Spec => []FramingsNest
<1>1. IInv /\ FiguresOK => FramingsNest
  <2> SUFFICES ASSUME IInv, FiguresOK, summary.of > 0 PROVE FramingsNest
    BY DEF FramingsNest
  <2>1. PICK s, a : s = summary /\ a = s.list
    OBVIOUS
  <2>2. Tabulated(s)
    BY <2>1 DEF FiguresOK
  <2>3. IsFiniteSet(DOMAIN a)
    BY <2>1, <2>2, FS_Subset, StudyAssumption DEF Tabulated, FromSources
  <2>4. PICK b, e, n : b = s.rescue_binary /\ e = s.rescue_evolution /\ n = s.rescue_inline
    OBVIOUS
  <2>5. PICK B, E, N : B = BinaryBreaking /\ E = EvolutionRelevant /\ N = EvolutionOrInline
    OBVIOUS
  <2>6. b = Rescue(a, B) /\ e = Rescue(a, E) /\ n = Rescue(a, N)
    BY <2>1, <2>2, <2>4, <2>5 DEF Tabulated
  <2>7. {B, E, N} \subseteq Framings /\ B \subseteq E /\ E \subseteq N
    BY <2>5, FramingKinds DEF Framings
  <2>8. PICK x : x = Cardinality({id \in Good(a) : Relevant(a[id], Unabsorbable) # {}})
    OBVIOUS
  <2>9. \A r \in {b, e, n} :
          /\ r.affected \in Nat /\ r.fully_rescued \in Nat /\ r.fully_rescued <= r.affected
          /\ r.affected - r.fully_rescued = x
          /\ SumFunction(r.sole_reason) <= r.fully_rescued
          /\ r.fully_rescued <= SumFunction(r.needed_by)
    BY <2>3, <2>6, <2>7, <2>8, RescueAddsUp
  <2>10. /\ b.affected <= e.affected /\ e.affected <= n.affected
         /\ b.fully_rescued <= e.fully_rescued /\ e.fully_rescued <= n.fully_rescued
    <3>1. \A K \in Framings : Affected(a, K) \subseteq DOMAIN a /\ Fully(a, K) \subseteq Affected(a, K)
      BY RescuedOf
    <3>2. \A K \in Framings : IsFiniteSet(Affected(a, K)) /\ IsFiniteSet(Fully(a, K))
      BY <2>3, <3>1, FS_Subset
    <3>3. ASSUME NEW K \in Framings, NEW L \in Framings, K \subseteq L
          PROVE  /\ Cardinality(Affected(a, K)) <= Cardinality(Affected(a, L))
                 /\ Cardinality(Fully(a, K)) <= Cardinality(Fully(a, L))
      BY <3>2, <3>3, Wider, FS_Subset
    <3>4. /\ b.affected = Cardinality(Affected(a, B)) /\ b.fully_rescued = Cardinality(Fully(a, B))
          /\ e.affected = Cardinality(Affected(a, E)) /\ e.fully_rescued = Cardinality(Fully(a, E))
          /\ n.affected = Cardinality(Affected(a, N)) /\ n.fully_rescued = Cardinality(Fully(a, N))
      BY <2>6 DEF Rescue
    <3> QED
      BY <2>7, <3>3, <3>4
  <2>11. b.affected - b.fully_rescued = x /\ e.affected - e.fully_rescued = x /\ n.affected - n.fully_rescued = x
    BY <2>9
  <2> QED
    BY <2>1, <2>4, <2>9, <2>10, <2>11 DEF FramingsNest
<1> QED
  BY <1>1, FiguresInvariance, PTL

\* What report.html says is said of the same transitions as the summary, and its list of unstable
\* libraries leaves out none that is less stable than one it names (report.cpp:323-370).
THEOREM ReportAgreesAlways == Spec => []ReportAgrees
<1>1. IInv /\ FiguresOK => ReportAgrees
  <2> SUFFICES ASSUME IInv, FiguresOK, html.of > 0, html.of = summary.of PROVE ReportAgrees
    BY DEF ReportAgrees
  <2>1. PICK s, a, h : s = summary /\ a = s.list /\ h = html
    OBVIOUS
  <2>2. PICK L \in Unstable(s) : Tabulated(s) /\ h = Html(s, L)
    BY <2>1 DEF FiguresOK
  <2>3. IsFiniteSet(DOMAIN a) /\ \A id \in DOMAIN a : a[id].source \in Sources
    BY <2>1, <2>2, FS_Subset, StudyAssumption DEF Tabulated, FromSources
  <2>4. PICK b, e : b = s.rescue_binary /\ e = s.rescue_evolution
    OBVIOUS
  <2>5. PICK B, E : B = BinaryBreaking /\ E = EvolutionRelevant
    OBVIOUS
  <2>6. b = Rescue(a, B) /\ e = Rescue(a, E) /\ {B, E} \subseteq Framings
    BY <2>1, <2>2, <2>4, <2>5 DEF Tabulated, Framings
  <2>7. PICK x : x = Cardinality({id \in Good(a) : Relevant(a[id], Unabsorbable) # {}})
    OBVIOUS
  <2>8. /\ b.affected - b.fully_rescued = x /\ e.affected - e.fully_rescued = x
        /\ b.affected = Cardinality(Affected(a, B)) /\ b.affected \in Nat
    BY <2>3, <2>6, <2>7, RescueAddsUp
  <2>9. h.unabsorbed = x /\ h.ceiling = x /\ h.affected = b.affected
    BY <2>2, <2>4, <2>8 DEF Html
  <2>10. x = Cardinality({id \in Good(a) : Relevant(a[id], {"symbol_removed", "function_signature_changed"}) # {}})
    BY <2>7 DEF Unabsorbable
  <2>11. PICK A, G : A = Affected(a, B) /\ G = Good(a)
    OBVIOUS
  <2>12. A \subseteq DOMAIN a /\ G \subseteq DOMAIN a
    BY <2>6, <2>11, RescuedOf
  <2>13. PICK t : t = BySrc(s)
    OBVIOUS
  <2>14. ASSUME NEW l \in Sources
         PROVE  t[l] = <<Cardinality({id \in A : a[id].source = l}), Cardinality({id \in G : a[id].source = l})>>
    <3>1. PICK own : own = {id \in DOMAIN a : ~a[id].mass_rename /\ a[id].source = l}
      OBVIOUS
    <3>2. t[l] = <<Cardinality({id \in own : Present(a[id].counts) \cap B # {}}), Cardinality(own)>>
      BY <2>1, <2>5, <2>13, <3>1 DEF BySrc
    <3>3. own = {id \in G : a[id].source = l}
      BY <2>11, <3>1 DEF Good
    <3>4. {id \in own : Present(a[id].counts) \cap B # {}} = {id \in A : a[id].source = l}
      BY <2>11, <3>3 DEF Affected, Relevant
    <3> QED
      BY <3>2, <3>3, <3>4
  <2>15. PICK m, n : /\ m = [l \in Sources |-> Cardinality({id \in A : a[id].source = l})]
                     /\ n = [l \in Sources |-> Cardinality({id \in G : a[id].source = l})]
    OBVIOUS
  <2>16. ASSUME NEW l \in Sources PROVE t[l][1] = m[l] /\ t[l][2] = n[l]
    <3>1. PICK p, q : p = Cardinality({id \in A : a[id].source = l}) /\ q = Cardinality({id \in G : a[id].source = l})
      OBVIOUS
    <3>2. t[l] = <<p, q>>
      BY <2>14, <3>1
    <3>3. m[l] = p /\ n[l] = q
      BY <2>15, <3>1
    <3> QED
      BY <3>2, <3>3
  <2>17. IsFiniteSet(A) /\ IsFiniteSet(G) /\ \A l \in Sources : m[l] \in Nat
    <3>1. IsFiniteSet(A) /\ IsFiniteSet(G)
      BY <2>3, <2>12, FS_Subset
    <3>2. ASSUME NEW l \in Sources PROVE m[l] \in Nat
      BY <2>15, <3>1, FS_Subset, FS_CardinalityType
    <3> QED
      BY <3>1, <3>2
  <2>18. /\ L \subseteq Sources /\ IsFiniteSet(L) /\ DOMAIN h.unstable = L
         /\ \A l \in L : h.unstable[l] = t[l]
    <3>1. L \subseteq Sources
      BY <2>2 DEF Unstable
    <3>2. IsFiniteSet(L)
      BY <3>1, FS_Subset, StudyAssumption
    <3>3. h.unstable = [l \in L |-> t[l]]
      BY <2>2, <2>13 DEF Html
    <3> QED
      BY <3>1, <3>2, <3>3
  <2>19. PICK R : R = {l \in Sources : m[l] # 0}
    OBVIOUS
  <2>20. /\ L \subseteq R /\ (L # R => Cardinality(L) = MaxListed)
         /\ \A l \in L, k \in R \ L : NoLater(t[l], t[k])
    <3>1. R = {l \in Sources : t[l][1] # 0}
      BY <2>16, <2>19
    <3> QED
      BY <2>2, <2>13, <3>1 DEF Unstable
  <2>21. PICK cut : cut = {id \in A : a[id].source \notin L}
    OBVIOUS
  <2>22. s.breaking = SumFunction([l \in L |-> h.unstable[l][1]]) + Cardinality(cut)
    <3>1. PICK f : f = [l \in L |-> h.unstable[l][1]]
      OBVIOUS
    <3>2. DOMAIN f = L /\ \A l \in L : f[l] = m[l]
      BY <2>16, <2>18, <3>1
    <3>3. PICK c : c = [l \in L |-> {id \in A : a[id].source = l}]
      OBVIOUS
    <3>4. PICK kept : kept = {id \in A : a[id].source \in L}
      OBVIOUS
    <3>5. Split(a, A, L, c, kept)
      BY <3>3, <3>4 DEF Split
    <3>6. Sizes(f, c, L)
      <4>1. ASSUME NEW l \in L PROVE m[l] = Cardinality(c[l])
        BY <2>15, <2>18, <3>3
      <4> QED
        BY <3>2, <4>1 DEF Sizes
    <3>7. SumFunction(f) = Cardinality(kept)
      BY <2>17, <2>18, <3>5, <3>6, BySource
    <3>8. kept \subseteq A /\ A \ kept = cut
      BY <2>21, <3>4
    <3>9. /\ Cardinality(cut) = Cardinality(A) - Cardinality(kept)
          /\ Cardinality(A) \in Nat /\ Cardinality(kept) \in Nat
      BY <2>17, <3>8, Fewer
    <3>10. s.breaking = Cardinality(A)
      BY <2>1, <2>2, <2>5, <2>11 DEF Tabulated
    <3> QED
      BY <3>1, <3>9, <3>10, <3>7
  <2>23. s.transitions >= SumFunction([l \in L |-> h.unstable[l][2]])
    <3>1. PICK g : g = [l \in L |-> h.unstable[l][2]]
      OBVIOUS
    <3>2. DOMAIN g = L /\ \A l \in L : g[l] = n[l]
      BY <2>16, <2>18, <3>1
    <3>3. PICK c : c = [l \in L |-> {id \in G : a[id].source = l}]
      OBVIOUS
    <3>4. PICK kept : kept = {id \in G : a[id].source \in L}
      OBVIOUS
    <3>5. Split(a, G, L, c, kept)
      BY <3>3, <3>4 DEF Split
    <3>6. Sizes(g, c, L)
      <4>1. ASSUME NEW l \in L PROVE n[l] = Cardinality(c[l])
        BY <2>15, <2>18, <3>3
      <4> QED
        BY <3>2, <4>1 DEF Sizes
    <3>7. SumFunction(g) = Cardinality(kept)
      BY <2>17, <2>18, <3>5, <3>6, BySource
    <3>8. Cardinality(kept) <= Cardinality(G) /\ Cardinality(G) \in Nat /\ Cardinality(kept) \in Nat
      BY <2>17, <3>4, Fewer
    <3>9. s.transitions = Cardinality(G)
      BY <2>1, <2>2, <2>11 DEF Tabulated
    <3> QED
      BY <3>1, <3>8, <3>9, <3>7
  <2>24. cut # {} => Cardinality(L) = MaxListed
    <3>1. ASSUME NEW id \in cut PROVE a[id].source \in R \ L
      <4>1. PICK k : k = a[id].source
        OBVIOUS
      <4>2. id \in A /\ k \in Sources \ L
        BY <2>3, <2>12, <2>21, <4>1
      <4>3. PICK mine : mine = {i \in A : a[i].source = k}
        OBVIOUS
      <4>4. mine # {} /\ IsFiniteSet(mine) /\ m[k] = Cardinality(mine)
        BY <2>15, <2>17, <4>1, <4>2, <4>3, FS_Subset
      <4>5. m[k] # 0
        BY <4>4, FS_EmptySet
      <4> QED
        BY <2>19, <4>1, <4>2, <4>5
    <3> QED
      BY <2>20, <3>1
  <2>25. ASSUME NEW l \in L
         PROVE  /\ h.unstable[l][1] > 0
                /\ \A k \in Sources \ L : Cardinality({id \in A : a[id].source = k}) <= h.unstable[l][1]
    <3>1. PICK y : y = m[l]
      OBVIOUS
    <3>2. h.unstable[l][1] = y /\ y \in Nat /\ y # 0
      BY <2>16, <2>17, <2>18, <2>19, <2>20, <3>1
    <3>3. ASSUME NEW k \in Sources \ L PROVE m[k] <= y
      <4>1. CASE k \in R
        BY <2>16, <2>17, <2>18, <2>20, <3>1, <3>2, <4>1 DEF NoLater
      <4>2. CASE k \notin R
        BY <2>19, <3>2, <4>2
      <4> QED
        BY <4>1, <4>2
    <3> QED
      BY <2>15, <3>2, <3>3
  <2>26. s.declared + s.silent = h.affected
    <3>1. Declared(a) \subseteq A
      BY <2>5, <2>11 DEF Declared
    <3>2. Cardinality(Declared(a)) \in Nat /\ Cardinality(A) \in Nat
      BY <2>3, <2>12, <3>1, FS_Subset, FS_CardinalityType
    <3>3. s.declared = Cardinality(Declared(a)) /\ s.silent = Cardinality(A) - s.declared
      BY <2>1, <2>2, <2>5, <2>11 DEF Tabulated
    <3> QED
      BY <2>8, <2>9, <2>11, <3>2, <3>3
  <2> QED
    BY <2>1, <2>5, <2>9, <2>10, <2>11, <2>18, <2>21, <2>22, <2>23, <2>24, <2>25, <2>26 DEF ReportAgrees
<1> QED
  BY <1>1, FiguresInvariance, PTL
=============================================================================
