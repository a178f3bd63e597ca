------------------------- MODULE HeaderIndexProofs -------------------------
(***************************************************************************)
(* Proofs about HeaderIndex, for any number of definitions, headers and    *)
(* units.  The counters are followed from header to header (CountInv); a   *)
(* definition that is kept has one of the bodies met for it (BodyInv), so  *)
(* that where there is one body only, the order of units does not matter.  *)
(***************************************************************************)
EXTENDS HeaderIndex, FiniteSetTheorems, TLAPS

Counters == [header_files : Nat, parsed : Nat, with_fatal_error : Nat, with_errors : Nat,
             skipped_by_limit : Nat]
Index == [definitions : Maps(Keys, Definition), macros : Maps(Macros, Values), coverage : Counters,
          done : Nat, failed : Nat]

TypeInv ==
  /\ pc \in {"list1", "parse1", "list2", "parse2", "compare", "done", "failed"}
  /\ files \in Nat
  /\ index \in [Sides -> Index]
  /\ bodies \in [Sides -> [Keys -> SUBSET Bodies]]

\* Nothing was counted for a release that is not listed yet.
Unlisted(s) == pc = "list1" \/ (s = 2 /\ pc \in {"parse1", "list2"})
UnlistedInv ==
  \A s \in Sides : Unlisted(s) => index[s].coverage = NoCoverage /\ index[s].failed = 0

ToDo(s) == IF Parsing(s) THEN files ELSE 0
CountInv ==
  \A s \in Sides :
    LET c == index[s].coverage
    IN  /\ c.header_files = c.parsed + index[s].failed + c.skipped_by_limit + ToDo(s)
        /\ c.with_fatal_error <= c.parsed

BodyInv ==
  \A s \in Sides, k \in Keys :
    /\ IsFiniteSet(bodies[s][k])
    /\ bodies[s][k] # {} <=> k \in DOMAIN index[s].definitions
    /\ k \in DOMAIN index[s].definitions => index[s].definitions[k].body \in bodies[s][k]

Recorded ==
  [written |-> TRUE,
   diff |-> StoredDiff(Compared(index[1], index[2])),
   coverage |-> [s \in Sides |-> StoredCoverage(index[s].coverage)]]
RecordInv == record = Nothing \/ (pc = "done" /\ record = Recorded)

IInv == TypeInv /\ UnlistedInv /\ CountInv /\ BodyInv /\ RecordInv

(***************************************************************************)
(* Maps.                                                                   *)
(***************************************************************************)
LEMMA MapsDef ==
  ASSUME NEW K, NEW V, NEW f
  PROVE  f \in Maps(K, V) <=> DOMAIN f \in SUBSET K /\ f \in [DOMAIN f -> V]
BY DEF Maps

LEMMA OwnOfType ==
  ASSUME NEW K, NEW V, NEW m \in Maps(K, V), NEW u
  PROVE  /\ OwnOf(m, u) \in Maps(K, V)
         /\ DOMAIN OwnOf(m, u) = DOMAIN m \cap u.own
<1>1. DOMAIN m \in SUBSET K /\ m \in [DOMAIN m -> V]
  BY MapsDef
<1>2. OwnOf(m, u) = [k \in DOMAIN m \cap u.own |-> m[k]]
  BY DEF OwnOf, Restrict
<1>3. OwnOf(m, u) \in [DOMAIN m \cap u.own -> V]
  BY <1>1, <1>2
<1>4. DOMAIN m \cap u.own \in SUBSET K
  BY <1>1
<1> QED
  BY <1>2, <1>3, <1>4 DEF Maps

LEMMA OverwriteType ==
  ASSUME NEW K, NEW V, NEW old \in Maps(K, V), NEW new \in Maps(K, V)
  PROVE  Overwrite(old, new) \in Maps(K, V)
<1>1. /\ DOMAIN old \in SUBSET K /\ old \in [DOMAIN old -> V]
      /\ DOMAIN new \in SUBSET K /\ new \in [DOMAIN new -> V]
  BY MapsDef
<1>2. Overwrite(old, new) \in [DOMAIN old \cup DOMAIN new -> V]
  BY <1>1 DEF Overwrite
<1>3. DOMAIN old \cup DOMAIN new \in SUBSET K
  BY <1>1
<1> QED
  BY <1>2, <1>3 DEF Maps

LEMMA AddUnitType ==
  ASSUME NEW c \in Counters, NEW worst
  PROVE  LET d == AddUnit(c, worst)
         IN  /\ d \in Counters
             /\ d.header_files = c.header_files /\ d.skipped_by_limit = c.skipped_by_limit
             /\ d.parsed = c.parsed + 1
             /\ d.with_fatal_error = c.with_fatal_error
                  \/ d.with_fatal_error = c.with_fatal_error + 1
<1> DEFINE f == IF worst = "fatal" THEN 1 ELSE 0
           e == IF worst \in {"error", "fatal"} THEN 1 ELSE 0
<1>1. f \in {0, 1} /\ e \in {0, 1}
  OBVIOUS
<1>2. AddUnit(c, worst) = [c EXCEPT !.parsed = @ + 1, !.with_fatal_error = @ + f, !.with_errors = @ + e]
  BY DEF AddUnit
<1> HIDE DEF f, e
<1>3. /\ c.header_files \in Nat /\ c.parsed \in Nat /\ c.with_fatal_error \in Nat
      /\ c.with_errors \in Nat /\ c.skipped_by_limit \in Nat
  BY DEF Counters
<1>4. AddUnit(c, worst) =
        [header_files |-> c.header_files, parsed |-> c.parsed + 1, with_fatal_error |-> c.with_fatal_error + f,
         with_errors |-> c.with_errors + e, skipped_by_limit |-> c.skipped_by_limit]
  BY <1>2 DEF Counters
<1>5. c.with_fatal_error + f \in Nat /\ c.with_errors + e \in Nat
  BY <1>1, <1>3
<1>6. AddUnit(c, worst) \in Counters
  BY <1>3, <1>4, <1>5 DEF Counters
<1> QED
  BY <1>1, <1>3, <1>4, <1>6

LEMMA AddHeaderType ==
  ASSUME NEW x \in Index, NEW u \in Units
  PROVE  LET y == AddHeader(x, u)
         IN  /\ y \in Index /\ y.failed = x.failed /\ y.done = x.done + 1
             /\ y.coverage = AddUnit(x.coverage, u.worst)
             /\ y.definitions = Overwrite(x.definitions, OwnOf(u.definitions, u))
<1> DEFINE c == AddUnit(x.coverage, u.worst)
           d == Overwrite(x.definitions, OwnOf(u.definitions, u))
           m == Overwrite(x.macros, OwnOf(u.macros, u))
<1>1. /\ x.definitions \in Maps(Keys, Definition) /\ x.macros \in Maps(Macros, Values)
      /\ x.coverage \in Counters
  BY DEF Index
<1>2. u.definitions \in Maps(Keys, Definition) /\ u.macros \in Maps(Macros, Values)
  BY IndexAssumption DEF Unit
<1>3. OwnOf(u.definitions, u) \in Maps(Keys, Definition) /\ OwnOf(u.macros, u) \in Maps(Macros, Values)
  BY <1>2, OwnOfType
<1>4. c \in Counters
  BY <1>1, AddUnitType
<1>5. d \in Maps(Keys, Definition)
  BY <1>1, <1>3, OverwriteType
<1>6. m \in Maps(Macros, Values)
  BY <1>1, <1>3, OverwriteType
<1>7. AddHeader(x, u) = [x EXCEPT !.done = @ + 1, !.coverage = c, !.definitions = d, !.macros = m]
  BY DEF AddHeader
<1> HIDE DEF c, d, m
<1>a. AddHeader(x, u) = [definitions |-> d, macros |-> m, coverage |-> c, done |-> x.done + 1,
                         failed |-> x.failed]
  BY <1>7 DEF Index
<1>8. AddHeader(x, u) \in Index
  BY <1>4, <1>5, <1>6, <1>a DEF Index
<1>9. /\ AddHeader(x, u).failed = x.failed /\ AddHeader(x, u).done = x.done + 1
      /\ AddHeader(x, u).coverage = c /\ AddHeader(x, u).definitions = d
  BY <1>a
<1> QED
  BY <1>8, <1>9 DEF c, d

(***************************************************************************)
(* The steps.                                                              *)
(***************************************************************************)
LEMMA InitInv == Init => IInv
<1> SUFFICES ASSUME Init PROVE IInv
  OBVIOUS
<1>1. None \in Maps(Keys, Definition) /\ None \in Maps(Macros, Values) /\ DOMAIN None = {}
  BY DEF Maps, None
<1>2. Empty \in Index
  BY <1>1 DEF Empty, Index, NoCoverage, Counters
<1>3. TypeInv
  BY <1>2 DEF Init, TypeInv
<1>4. UnlistedInv /\ CountInv
  BY DEF Init, UnlistedInv, CountInv, ToDo, Parsing, Empty, NoCoverage
<1>5. BodyInv
  BY <1>1, FS_EmptySet DEF Init, BodyInv, Empty
<1> QED
  BY <1>3, <1>4, <1>5 DEF Init, IInv, RecordInv

LEMMA ListHeadersInv ==
  ASSUME IInv, NEW s \in Sides, ListHeaders(s)
  PROVE  IInv'
<1>0. TypeInv /\ UnlistedInv /\ CountInv /\ BodyInv /\ RecordInv
  BY DEF IInv
<1>1. PICK n \in 0 .. MaxHeaders : files' = n /\ index' = [index EXCEPT ![s].coverage.header_files = n]
  BY DEF ListHeaders
<1>2. n \in Nat /\ index \in [Sides -> Index] /\ s \in {1, 2}
  BY <1>0, IndexAssumption DEF TypeInv, Sides
<1>3. /\ index'[s] = [index[s] EXCEPT !.coverage.header_files = n]
      /\ \A t \in Sides : t # s => index'[t] = index[t]
      /\ DOMAIN index' = Sides
  BY <1>1, <1>2
<1>4. /\ index'[s].definitions = index[s].definitions /\ index'[s].macros = index[s].macros
      /\ index'[s].failed = index[s].failed /\ index'[s].done = index[s].done
      /\ index'[s].coverage = [index[s].coverage EXCEPT !.header_files = n]
  BY <1>2, <1>3 DEF Index
<1>5. index' \in [Sides -> Index]
  BY <1>1, <1>2 DEF Index, Counters
<1>6. TypeInv'
  BY <1>0, <1>1, <1>2, <1>5 DEF ListHeaders, TypeInv
<1>7. /\ Listing(s) /\ pc' = (IF s = 1 THEN "parse1" ELSE "parse2")
      /\ bodies' = bodies /\ record' = record
  BY DEF ListHeaders
<1>8. UnlistedInv'
  BY <1>0, <1>2, <1>3, <1>7 DEF UnlistedInv, Unlisted, Listing, Sides
<1>9. index[s].coverage = NoCoverage /\ index[s].failed = 0
  BY <1>0, <1>2, <1>7 DEF UnlistedInv, Unlisted, Listing
<1>10. index'[s].coverage = [NoCoverage EXCEPT !.header_files = n] /\ index'[s].failed = 0
  BY <1>4, <1>9
<1>11. ToDo(s)' = n /\ \A t \in Sides : t # s => ToDo(t)' = ToDo(t)
  BY <1>1, <1>2, <1>7 DEF ToDo, Parsing, Listing, Sides
<1>12. CountInv'
  <2>1. /\ index'[s].coverage.header_files = n /\ index'[s].coverage.parsed = 0
        /\ index'[s].coverage.skipped_by_limit = 0 /\ index'[s].coverage.with_fatal_error = 0
    BY <1>10 DEF NoCoverage
  <2>2. index'[s].failed = 0 /\ ToDo(s)' = n
    BY <1>10, <1>11
  <2>3. ASSUME NEW t \in Sides
        PROVE  /\ index'[t].coverage.header_files
                    = index'[t].coverage.parsed + index'[t].failed
                        + index'[t].coverage.skipped_by_limit + ToDo(t)'
               /\ index'[t].coverage.with_fatal_error <= index'[t].coverage.parsed
    <3>1. CASE t = s
      BY <1>2, <2>1, <2>2, <3>1
    <3>2. CASE t # s
      BY <1>0, <1>3, <1>11, <3>2 DEF CountInv
    <3> QED
      BY <3>1, <3>2
  <2> QED
    BY <2>3 DEF CountInv
<1>13. BodyInv'
  BY <1>0, <1>3, <1>4, <1>7 DEF BodyInv
<1>14. RecordInv'
  BY <1>0, <1>7 DEF RecordInv, Listing
<1> QED
  BY <1>6, <1>8, <1>12, <1>13, <1>14 DEF IInv

\* A round of the loop leaves the place, the other release and the record alone.
Rest(s) ==
  /\ Parsing(s) /\ files > 0 /\ files' = files - 1
  /\ pc' = pc /\ record' = record
  /\ index' \in [Sides -> Index] /\ \A t \in Sides : t # s => index'[t] = index[t]

LEMMA RoundInv ==
  ASSUME IInv, NEW s \in Sides, Rest(s), bodies' \in [Sides -> [Keys -> SUBSET Bodies]],
         index'[s].coverage.header_files = index[s].coverage.header_files
  PROVE  /\ TypeInv' /\ UnlistedInv' /\ RecordInv'
         /\ ToDo(s)' = ToDo(s) - 1 /\ \A t \in Sides : t # s => ToDo(t)' = ToDo(t)
<1>0. TypeInv /\ UnlistedInv /\ RecordInv
  BY DEF IInv
<1>1. s \in {1, 2}
  BY DEF Sides
<1>2. TypeInv'
  BY <1>0 DEF TypeInv, Rest
<1>3. UnlistedInv'
  BY <1>0, <1>1 DEF UnlistedInv, Unlisted, Rest, Parsing, Sides
<1>4. RecordInv'
  BY <1>0 DEF RecordInv, Rest, Parsing
<1>5. ToDo(s)' = ToDo(s) - 1
  BY DEF Rest, ToDo, Parsing
<1>6. \A t \in Sides : t # s => ToDo(t)' = ToDo(t)
  BY DEF Rest, ToDo, Parsing, Sides
<1> QED
  BY <1>2, <1>3, <1>4, <1>5, <1>6

LEMMA SkipHeaderInv ==
  ASSUME IInv, NEW s \in Sides, SkipHeader(s)
  PROVE  IInv'
<1>0. TypeInv /\ CountInv /\ BodyInv /\ index \in [Sides -> Index]
  BY DEF IInv, TypeInv
<1>1. index' = [index EXCEPT ![s].coverage.skipped_by_limit = @ + 1]
  BY DEF SkipHeader
<1>2. /\ index'[s].definitions = index[s].definitions /\ index'[s].failed = index[s].failed
      /\ index'[s].coverage = [index[s].coverage EXCEPT !.skipped_by_limit = @ + 1]
      /\ \A t \in Sides : t # s => index'[t] = index[t]
  BY <1>0, <1>1 DEF Index
<1>3. index' \in [Sides -> Index]
  BY <1>0, <1>1 DEF Index, Counters
<1>4. Rest(s) /\ bodies' = bodies
  BY <1>2, <1>3 DEF SkipHeader, Rest
<1>5. index[s].coverage \in Counters /\ index[s].failed \in Nat
  BY <1>0 DEF Index
<1>6. index'[s].coverage.header_files = index[s].coverage.header_files
  BY <1>2, <1>5 DEF Counters
<1>7. /\ TypeInv' /\ UnlistedInv' /\ RecordInv'
      /\ ToDo(s)' = ToDo(s) - 1 /\ \A t \in Sides : t # s => ToDo(t)' = ToDo(t)
  BY <1>0, <1>4, <1>6, RoundInv DEF TypeInv
<1>8. ToDo(s) \in Nat
  BY <1>0 DEF ToDo, TypeInv
<1>9. CountInv'
  BY <1>0, <1>2, <1>5, <1>7, <1>8 DEF CountInv, Counters
<1>10. BodyInv'
  BY <1>0, <1>2, <1>4 DEF BodyInv
<1> QED
  BY <1>7, <1>9, <1>10 DEF IInv

LEMMA ParseFailsInv ==
  ASSUME IInv, NEW s \in Sides, ParseFails(s)
  PROVE  IInv'
<1>0. TypeInv /\ CountInv /\ BodyInv /\ index \in [Sides -> Index]
  BY DEF IInv, TypeInv
<1>1. index' = [index EXCEPT ![s].done = @ + 1, ![s].failed = @ + 1]
  BY DEF ParseFails
<1>2. /\ index'[s].definitions = index[s].definitions /\ index'[s].failed = index[s].failed + 1
      /\ index'[s].coverage = index[s].coverage
      /\ \A t \in Sides : t # s => index'[t] = index[t]
  BY <1>0, <1>1 DEF Index
<1>3. index' \in [Sides -> Index]
  BY <1>0, <1>1 DEF Index
<1>4. Rest(s) /\ bodies' = bodies
  BY <1>2, <1>3 DEF ParseFails, Rest
<1>5. index[s].coverage \in Counters /\ index[s].failed \in Nat
  BY <1>0 DEF Index
<1>7. /\ TypeInv' /\ UnlistedInv' /\ RecordInv'
      /\ ToDo(s)' = ToDo(s) - 1 /\ \A t \in Sides : t # s => ToDo(t)' = ToDo(t)
  BY <1>0, <1>2, <1>4, RoundInv DEF TypeInv
<1>8. ToDo(s) \in Nat
  BY <1>0 DEF ToDo, TypeInv
<1>9. CountInv'
  BY <1>0, <1>2, <1>5, <1>7, <1>8 DEF CountInv, Counters
<1>10. BodyInv'
  BY <1>0, <1>2, <1>4 DEF BodyInv
<1> QED
  BY <1>7, <1>9, <1>10 DEF IInv

LEMMA ParseHeaderInv ==
  ASSUME IInv, NEW s \in Sides, ParseHeader(s)
  PROVE  IInv'
<1>0. TypeInv /\ CountInv /\ BodyInv /\ index \in [Sides -> Index]
  BY DEF IInv, TypeInv
<1>a. PICK u \in Units :
        /\ index' = [index EXCEPT ![s] = AddHeader(@, u)]
        /\ bodies' = [bodies EXCEPT ![s] =
             [k \in Keys |-> IF k \in DOMAIN OwnOf(u.definitions, u)
                             THEN @[k] \cup {OwnOf(u.definitions, u)[k].body} ELSE @[k]]]
  BY DEF ParseHeader
<1> DEFINE found == OwnOf(u.definitions, u)
<1>b. found \in Maps(Keys, Definition)
  BY IndexAssumption, OwnOfType DEF Unit
<1>c. index[s] \in Index /\ index[s].coverage \in Counters
      /\ index[s].definitions \in Maps(Keys, Definition)
  BY <1>0 DEF Index
<1>1. index'[s] = AddHeader(index[s], u)
  BY <1>0, <1>a
<1>2. /\ index'[s].definitions = Overwrite(index[s].definitions, found)
      /\ index'[s].failed = index[s].failed
      /\ index'[s].coverage = AddUnit(index[s].coverage, u.worst)
  BY <1>c, <1>1, AddHeaderType
<1>3. \A t \in Sides : t # s => index'[t] = index[t]
  BY <1>0, <1>a
<1>4. /\ index'[s].coverage \in Counters
      /\ index'[s].coverage.header_files = index[s].coverage.header_files
      /\ index'[s].coverage.skipped_by_limit = index[s].coverage.skipped_by_limit
      /\ index'[s].coverage.parsed = index[s].coverage.parsed + 1
      /\ \/ index'[s].coverage.with_fatal_error = index[s].coverage.with_fatal_error
         \/ index'[s].coverage.with_fatal_error = index[s].coverage.with_fatal_error + 1
  BY <1>c, <1>2, AddUnitType
<1>6. index'[s] \in Index
  BY <1>c, <1>1, AddHeaderType
<1>7. index' \in [Sides -> Index]
  BY <1>0, <1>a, <1>1, <1>6
<1>8. Rest(s)
  BY <1>3, <1>7 DEF ParseHeader, Rest
<1>d. DOMAIN found \in SUBSET Keys /\ found \in [DOMAIN found -> Definition]
  BY <1>b, MapsDef
<1> HIDE DEF found
<1>9. \A k \in DOMAIN found : found[k].body \in Bodies
  BY <1>d DEF Definition
<1>10. /\ \A k \in Keys : bodies'[s][k] = IF k \in DOMAIN found
                                           THEN bodies[s][k] \cup {found[k].body} ELSE bodies[s][k]
       /\ \A t \in Sides : t # s => bodies'[t] = bodies[t]
  BY <1>0, <1>a DEF TypeInv, found
<1> DEFINE met == [k \in Keys |-> IF k \in DOMAIN found THEN bodies[s][k] \cup {found[k].body}
                                 ELSE bodies[s][k]]
<1>e. met \in [Keys -> SUBSET Bodies]
  BY <1>0, <1>9 DEF TypeInv
<1>f. bodies' = [bodies EXCEPT ![s] = met]
  BY <1>0, <1>a DEF TypeInv, found
<1> HIDE DEF met
<1>11. bodies' \in [Sides -> [Keys -> SUBSET Bodies]]
  BY <1>0, <1>e, <1>f DEF TypeInv
<1>12. /\ TypeInv' /\ UnlistedInv' /\ RecordInv'
       /\ ToDo(s)' = ToDo(s) - 1 /\ \A t \in Sides : t # s => ToDo(t)' = ToDo(t)
  BY <1>4, <1>8, <1>11, RoundInv
<1>13. ToDo(s) \in Nat /\ index[s].failed \in Nat
  BY <1>0 DEF ToDo, TypeInv, Index
<1>14. CountInv'
  BY <1>0, <1>c, <1>2, <1>3, <1>4, <1>12, <1>13 DEF CountInv, Counters
<1>15. /\ DOMAIN index'[s].definitions = DOMAIN index[s].definitions \cup DOMAIN found
       /\ \A k \in DOMAIN index'[s].definitions :
            index'[s].definitions[k] = IF k \in DOMAIN found THEN found[k] ELSE index[s].definitions[k]
  <2>1. LET o == Overwrite(index[s].definitions, found)
        IN  /\ DOMAIN o = DOMAIN index[s].definitions \cup DOMAIN found
            /\ \A k \in DOMAIN index[s].definitions \cup DOMAIN found :
                 o[k] = IF k \in DOMAIN found THEN found[k] ELSE index[s].definitions[k]
    BY DEF Overwrite
  <2>2. \A o : o = Overwrite(index[s].definitions, found) =>
           /\ DOMAIN o = DOMAIN index[s].definitions \cup DOMAIN found
           /\ \A k \in DOMAIN o :
                o[k] = IF k \in DOMAIN found THEN found[k] ELSE index[s].definitions[k]
    BY <2>1, Zenon
  <2> QED
    BY <1>2, <2>2, Zenon
<1>16. ASSUME NEW k \in Keys
       PROVE  /\ IsFiniteSet(bodies'[s][k])
              /\ bodies'[s][k] # {} <=> k \in DOMAIN index'[s].definitions
              /\ k \in DOMAIN index'[s].definitions => index'[s].definitions[k].body \in bodies'[s][k]
  <2>1. /\ IsFiniteSet(bodies[s][k])
        /\ bodies[s][k] # {} <=> k \in DOMAIN index[s].definitions
        /\ k \in DOMAIN index[s].definitions => index[s].definitions[k].body \in bodies[s][k]
    BY <1>0 DEF BodyInv
  <2>2. CASE k \in DOMAIN found
    <3>1. bodies'[s][k] = bodies[s][k] \cup {found[k].body}
      BY <1>10, <2>2
    <3>2. IsFiniteSet(bodies'[s][k])
      BY <2>1, <3>1, FS_AddElement
    <3> QED
      BY <1>15, <2>2, <3>1, <3>2
  <2>3. CASE k \notin DOMAIN found
    BY <1>10, <1>15, <2>1, <2>3
  <2> QED
    BY <2>2, <2>3
<1>17. BodyInv'
  BY <1>0, <1>3, <1>10, <1>16 DEF BodyInv
<1> QED
  BY <1>12, <1>14, <1>17 DEF IInv

\* Steps that only move on.
LEMMA MoveInv ==
  ASSUME IInv, index' = index, bodies' = bodies, files' = files,
         \/ \E s \in Sides : (NoIndex(s) \/ EndIndex(s)) /\ record' = record
         \/ Compare
         \/ pc' = pc /\ record' = record
  PROVE  IInv'
<1>0. TypeInv /\ UnlistedInv /\ CountInv /\ BodyInv /\ RecordInv
  BY DEF IInv
<1>1. TypeInv'
  BY <1>0 DEF TypeInv, NoIndex, EndIndex, Compare
<1>2. \A s \in Sides : Unlisted(s)' => Unlisted(s)
  BY DEF Unlisted, NoIndex, EndIndex, Compare, Sides, Listing, Parsing
<1>3. UnlistedInv'
  BY <1>0, <1>2 DEF UnlistedInv
<1>4. \A s \in Sides : ToDo(s)' = ToDo(s)
  BY DEF ToDo, NoIndex, EndIndex, Compare, Sides, Listing, Parsing
<1>5. CountInv'
  BY <1>0, <1>4 DEF CountInv
<1>6. BodyInv'
  BY <1>0 DEF BodyInv
<1>7. Recorded' = Recorded
  BY DEF Recorded
<1>8. RecordInv'
  <2>1. CASE Compare
    BY <2>1, <1>7 DEF Compare, RecordInv, Recorded
  <2>2. CASE pc' = pc /\ record' = record
    BY <2>2, <1>0, <1>7 DEF RecordInv
  <2>3. ASSUME NEW s \in Sides, (NoIndex(s) \/ EndIndex(s)) /\ record' = record
        PROVE  RecordInv'
    BY <2>3, <1>0 DEF RecordInv, NoIndex, EndIndex, Listing, Parsing
  <2> QED
    BY <2>1, <2>2, <2>3
<1> QED
  BY <1>1, <1>3, <1>5, <1>6, <1>8 DEF IInv

\* In every state the counters count the headers passed, and an index holds bodies that some unit
\* saw (index.cpp:275-319).
THEOREM IndexInvariance == Spec => []IInv
<1>1. Init => IInv
  BY InitInv
<1>2. IInv /\ [Next]_vars => IInv'
  <2> SUFFICES ASSUME IInv, [Next]_vars PROVE IInv'
    OBVIOUS
  <2>1. ASSUME NEW s \in Sides, ListHeaders(s) \/ SkipHeader(s) \/ ParseHeader(s) \/ ParseFails(s)
        PROVE  IInv'
    BY <2>1, ListHeadersInv, SkipHeaderInv, ParseHeaderInv, ParseFailsInv
  <2>2. ASSUME NEW s \in Sides, NoIndex(s) \/ EndIndex(s)
        PROVE  IInv'
    BY <2>2, MoveInv DEF NoIndex, EndIndex
  <2>3. CASE Compare
    BY <2>3, MoveInv DEF Compare
  <2>4. CASE Ended \/ UNCHANGED vars
    BY <2>4, MoveInv DEF Ended, vars
  <2> QED
    BY <2>1, <2>2, <2>3, <2>4 DEF Next
<1> QED
  BY <1>1, <1>2, PTL DEF Spec

(***************************************************************************)
(* What the record says.                                                   *)
(***************************************************************************)
LEMMA SplitCount ==
  ASSUME NEW A, NEW B, IsFiniteSet(A)
  PROVE  /\ IsFiniteSet(A \cap B) /\ IsFiniteSet(A \ B)
         /\ Cardinality(A) = Cardinality(A \cap B) + Cardinality(A \ B)
         /\ Cardinality(A \cap B) \in Nat /\ Cardinality(A \ B) \in Nat
<1>1. IsFiniteSet(A \cap B) /\ IsFiniteSet(A \ B)
  BY FS_Subset
<1>2. (A \cap B) \cup (A \ B) = A /\ (A \cap B) \cap (A \ B) = {}
  OBVIOUS
<1>3. Cardinality({}) = 0
  BY FS_EmptySet
<1>4. Cardinality(A) = Cardinality(A \cap B) + Cardinality(A \ B) - 0
  BY <1>1, <1>2, <1>3, FS_Union
<1>5. Cardinality(A \cap B) \in Nat /\ Cardinality(A \ B) \in Nat
  BY <1>1, FS_CardinalityType
<1> QED
  BY <1>1, <1>4, <1>5

LEMMA DomainsFinite ==
  ASSUME TypeInv, NEW s \in Sides
  PROVE  /\ DOMAIN index[s].definitions \in SUBSET Keys /\ IsFiniteSet(DOMAIN index[s].definitions)
         /\ DOMAIN index[s].macros \in SUBSET Macros /\ IsFiniteSet(DOMAIN index[s].macros)
<1>1. index[s].definitions \in Maps(Keys, Definition) /\ index[s].macros \in Maps(Macros, Values)
  BY DEF TypeInv, Index
<1>2. DOMAIN index[s].definitions \in SUBSET Keys /\ DOMAIN index[s].macros \in SUBSET Macros
  BY <1>1, MapsDef
<1> QED
  BY <1>2, IndexAssumption, FS_Subset

\* The counters of a record add up: each header is parsed, failed or skipped, each definition of a release is
\* common to both or gone or new, and what changed is among the common ones (index.hpp:81-82, 119;
\* index.cpp:275-371).
THEOREM CountersOfRecord == Spec => []CountersAddUp
<1>1. IInv => CountersAddUp
  <2> SUFFICES ASSUME IInv, record.written PROVE CountersAddUp
    BY DEF CountersAddUp
  <2> DEFINE d == index[1].definitions
             e == index[2].definitions
  <2>1. record = Recorded /\ pc = "done"
    BY DEF IInv, RecordInv, Nothing
  <2>2. TypeInv /\ CountInv
    BY DEF IInv
  <2>3. ASSUME NEW s \in Sides
        PROVE  /\ record.coverage[s].header_files = record.coverage[s].parsed + index[s].failed
                                                      + record.coverage[s].skipped_by_limit
               /\ record.coverage[s].with_fatal_error <= record.coverage[s].parsed
    <3>1. record.coverage[s] = [index[s].coverage EXCEPT !.with_errors = 0]
      BY <2>1 DEF Recorded, StoredCoverage
    <3>2. index[s].coverage \in Counters /\ index[s].failed \in Nat
      BY <2>2 DEF TypeInv, Index
    <3>3. /\ record.coverage[s].header_files = index[s].coverage.header_files
          /\ record.coverage[s].parsed = index[s].coverage.parsed
          /\ record.coverage[s].skipped_by_limit = index[s].coverage.skipped_by_limit
          /\ record.coverage[s].with_fatal_error = index[s].coverage.with_fatal_error
      BY <3>1, <3>2 DEF Counters
    <3>4. ToDo(s) = 0
      BY <2>1 DEF ToDo, Parsing
    <3> QED
      BY <2>2, <3>2, <3>3, <3>4 DEF CountInv, Counters
  <2>4. /\ IsFiniteSet(DOMAIN d) /\ IsFiniteSet(DOMAIN e)
        /\ IsFiniteSet(DOMAIN index[1].macros)
    BY <2>2, DomainsFinite DEF Sides
  <2>5. /\ record.diff.definitions_1 = Cardinality(DOMAIN d)
        /\ record.diff.definitions_2 = Cardinality(DOMAIN e)
        /\ record.diff.definitions_common = Cardinality(Common(d, e))
        /\ record.diff.definitions_removed = Cardinality(DOMAIN d \ DOMAIN e)
        /\ record.diff.definitions_added = Cardinality(DOMAIN e \ DOMAIN d)
        /\ record.diff.inline_body_changed = Cardinality(BodiesDiffer(d, e))
        /\ record.diff.inline_body_changed_template = Cardinality(BodiesDiffer(d, e) \cap Templates)
        /\ record.diff.macros_common = Cardinality(Common(index[1].macros, index[2].macros))
        /\ record.diff.macro_value_changed = Cardinality(MacrosDiffer(index[1].macros, index[2].macros))
    BY <2>1 DEF Recorded, StoredDiff, Compared
  <2>6. /\ Cardinality(DOMAIN d) = Cardinality(Common(d, e)) + Cardinality(DOMAIN d \ DOMAIN e)
        /\ Cardinality(DOMAIN e) = Cardinality(Common(d, e)) + Cardinality(DOMAIN e \ DOMAIN d)
    <3>1. Common(d, e) = DOMAIN d \cap DOMAIN e /\ Common(d, e) = DOMAIN e \cap DOMAIN d
      BY DEF Common
    <3> HIDE DEF d, e
    <3> QED
      BY <2>4, <3>1, SplitCount
  <2>7. /\ BodiesDiffer(d, e) \in SUBSET Common(d, e)
        /\ BodiesDiffer(d, e) \cap Templates \in SUBSET BodiesDiffer(d, e)
        /\ MacrosDiffer(index[1].macros, index[2].macros)
              \in SUBSET Common(index[1].macros, index[2].macros)
    BY DEF BodiesDiffer, Differ, MacrosDiffer
  <2>8. IsFiniteSet(Common(d, e)) /\ IsFiniteSet(Common(index[1].macros, index[2].macros))
    BY <2>4, FS_Intersection DEF Common
  <2>9. /\ Cardinality(BodiesDiffer(d, e)) <= Cardinality(Common(d, e))
        /\ Cardinality(BodiesDiffer(d, e) \cap Templates) <= Cardinality(BodiesDiffer(d, e))
        /\ Cardinality(MacrosDiffer(index[1].macros, index[2].macros))
              <= Cardinality(Common(index[1].macros, index[2].macros))
    BY <2>7, <2>8, FS_Subset
  <2> HIDE DEF d, e
  <2> QED
    BY <2>3, <2>5, <2>6, <2>9 DEF CountersAddUp
<1> QED
  BY <1>1, IndexInvariance, PTL

\* A definition that all units of either release saw with one body is compared by these bodies, whatever the
\* order of the headers; only the others can be counted either way (index.cpp:214, 332-360).
THEOREM OneBodyDecides == Spec => []AgreedBodiesDecide
<1>1. IInv => AgreedBodiesDecide
  <2> SUFFICES ASSUME IInv, record.written PROVE AgreedBodiesDecide
    BY DEF AgreedBodiesDecide
  <2> DEFINE d == index[1].definitions
             e == index[2].definitions
             agreed == {k \in Keys : \A s \in Sides : Cardinality(bodies[s][k]) = 1}
             shared == {k \in Keys : \A s \in Sides : bodies[s][k] # {}}
             changed == {k \in agreed : bodies[1][k] # bodies[2][k]}
             differ == BodiesDiffer(d, e)
  <2>1. record = Recorded
    BY DEF IInv, RecordInv, Nothing
  <2>2. TypeInv /\ BodyInv
    BY DEF IInv
  <2>3. /\ record.diff.definitions_common = Cardinality(Common(d, e))
        /\ record.diff.inline_body_changed = Cardinality(differ)
    BY <2>1 DEF Recorded, StoredDiff, Compared
  <2>4. DOMAIN d \in SUBSET Keys /\ DOMAIN e \in SUBSET Keys
    BY <2>2, DomainsFinite DEF Sides
  <2>5. \A k \in Keys : (k \in DOMAIN d <=> bodies[1][k] # {}) /\ (k \in DOMAIN e <=> bodies[2][k] # {})
    BY <2>2 DEF BodyInv, Sides
  <2>6. Common(d, e) = shared
    BY <2>4, <2>5 DEF Common, Sides
  <2>7. IsFiniteSet(shared)
    BY IndexAssumption, FS_Subset
  <2>8. ASSUME NEW k \in agreed
        PROVE  /\ k \in shared
               /\ bodies[1][k] = {d[k].body} /\ bodies[2][k] = {e[k].body}
    <3>1. ASSUME NEW s \in Sides
          PROVE  bodies[s][k] # {} /\ bodies[s][k] = {index[s].definitions[k].body}
      <4>1. Cardinality(bodies[s][k]) = 1 /\ IsFiniteSet(bodies[s][k])
        BY <2>2 DEF BodyInv
      <4>2. PICK b : bodies[s][k] = {b}
        BY <4>1, FS_Singleton
      <4> QED
        BY <2>2, <4>2 DEF BodyInv
    <3> QED
      BY <3>1 DEF Sides
  <2>9. differ = {k \in shared : d[k].body # e[k].body}
    BY <2>6 DEF BodiesDiffer, Differ
  <2> HIDE DEF agreed
  <2>c. \A k \in agreed : bodies[1][k] # bodies[2][k] <=> d[k].body # e[k].body
    <3> SUFFICES ASSUME NEW k \in agreed
                 PROVE  bodies[1][k] # bodies[2][k] <=> d[k].body # e[k].body
      OBVIOUS
    <3>1. bodies[1][k] = {d[k].body} /\ bodies[2][k] = {e[k].body}
      BY <2>8
    <3> HIDE DEF d, e
    <3> QED
      BY <3>1
  <2>a. changed = {k \in agreed : d[k].body # e[k].body}
    BY <2>c
  <2>b. agreed \in SUBSET shared
    BY <2>8
  <2> HIDE DEF agreed, shared, differ, changed
  <2>10. changed \in SUBSET differ
    BY <2>9, <2>a, <2>b
  <2>11. differ \in SUBSET (changed \cup (shared \ agreed))
    BY <2>9, <2>a
  <2>12. /\ IsFiniteSet(differ) /\ IsFiniteSet(changed) /\ IsFiniteSet(shared \ agreed)
    <3>1. differ \in SUBSET shared /\ shared \ agreed \in SUBSET shared
      BY <2>9
    <3>2. IsFiniteSet(differ) /\ IsFiniteSet(shared \ agreed)
      BY <2>7, <3>1, FS_Subset
    <3> QED
      BY <2>10, <3>2, FS_Subset
  <2> HIDE DEF differ, changed, shared, agreed
  <2>13. Cardinality(changed) <= Cardinality(differ)
    BY <2>10, <2>12, FS_Subset
  <2>14. Cardinality(differ) <= Cardinality(changed) + Cardinality(shared \ agreed)
    <3>1. /\ IsFiniteSet(changed \cup (shared \ agreed))
          /\ Cardinality(changed \cup (shared \ agreed))
               = Cardinality(changed) + Cardinality(shared \ agreed)
                   - Cardinality(changed \cap (shared \ agreed))
      BY <2>12, FS_Union
    <3>2. Cardinality(differ) <= Cardinality(changed \cup (shared \ agreed))
      BY <2>11, <3>1, FS_Subset
    <3>3. IsFiniteSet(changed \cap (shared \ agreed))
      BY <2>12, FS_Intersection
    <3>4. /\ Cardinality(changed \cap (shared \ agreed)) \in Nat /\ Cardinality(changed) \in Nat
          /\ Cardinality(shared \ agreed) \in Nat /\ Cardinality(differ) \in Nat
          /\ Cardinality(changed \cup (shared \ agreed)) \in Nat
      BY <2>12, <3>1, <3>3, FS_CardinalityType
    <3> QED
      BY <3>1, <3>2, <3>4
  <2>15. /\ record.diff.definitions_common = Cardinality(shared)
         /\ record.diff.inline_body_changed >= Cardinality(changed)
         /\ record.diff.inline_body_changed <= Cardinality(changed) + Cardinality(shared \ agreed)
    <3>1. Cardinality(differ) \in Nat /\ Cardinality(changed) \in Nat
      BY <2>12, FS_CardinalityType
    <3> QED
      BY <2>3, <2>6, <2>13, <2>14, <3>1
  <2> QED
    BY <2>15 DEF AgreedBodiesDecide, differ, changed, shared, agreed
<1> QED
  BY <1>1, IndexInvariance, PTL
=============================================================================
