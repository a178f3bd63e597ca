---------------------------- MODULE CompareProofs ----------------------------
(***************************************************************************)
(* Proofs about compare for any objects: the types of its state, and what  *)
(* the pairing of removed and added symbols conserves.  Pairing is the     *)
(* invariant of the loops: how many symbols are paired, which pairs are    *)
(* still possible, and what each tally has so far.                         *)
(***************************************************************************)
EXTENDS Compare, Inductions, FiniteSetTheorems, SequenceTheorems, TLAPS

NoSymbols(k) == counts["public"][k] = 0 /\ counts["private_node"][k] = 0

\* Before the symbols are collected.
Early == pc \in {"load", "types", "attribute", "collect", "failed"}
EarlyOK ==
  /\ pc \in {"load", "collect", "mass"} => i = 1
  /\ Early => /\ removed = <<>> /\ added = <<>> /\ remUsed = {} /\ addUsed = {}
              /\ signatures = 0 /\ renamed = 0 /\ plain = 0 /\ recorded = 0

\* Each pair takes one of each side.
PairedOK ==
  /\ IsFiniteSet(remUsed) /\ Cardinality(remUsed) = signatures + renamed
  /\ IsFiniteSet(addUsed) /\ Cardinality(addUsed) = signatures + renamed
  /\ pc = "signatures" => remUsed \subseteq 1 .. i - 1

\* What the loops have looked at cannot be paired any more.
GreedyOK ==
  /\ pc = "signatures" => \A r \in 1 .. i - 1 : r \in remUsed \/ Candidates(r) = {}
  /\ Signed => \A r \in DOMAIN removed : r \in remUsed \/ Candidates(r) = {}
  /\ pc = "renames" => \A r \in 1 .. i - 1 : Renamings(r) = {}
  /\ Renamed => \A r \in DOMAIN removed : Renamings(r) = {}

\* The symbols of one side that are counted as plain ones, when the loop over it is at n.
Counted(n, v, used, k) ==
  /\ n \in 1 .. Len(v) + 1
  /\ InTallies(k) + Cardinality(used \cap (1 .. n - 1)) = n - 1

AfterRemoved == pc \in {"added", "mass", "changed", "done"}
AfterAdded == pc \in {"mass", "changed", "done"}
Tallied == pc \in {"changed", "done"}

PlainOK ==
  /\ pc = "removed" => Counted(i, removed, remUsed, "symbol_removed")
  /\ AfterRemoved => Counted(Len(removed) + 1, removed, remUsed, "symbol_removed")
  /\ ~AfterRemoved /\ pc # "removed" => InTallies("symbol_removed") = 0
  /\ pc = "added" => Counted(i, added, addUsed, "symbol_added")
  /\ AfterAdded => Counted(Len(added) + 1, added, addUsed, "symbol_added")
  /\ ~AfterAdded /\ pc # "added" => InTallies("symbol_added") = 0
  /\ plain = InTallies("symbol_removed") + InTallies("symbol_added")

SymbolEvents == InTallies("function_signature_changed") + InTallies("symbol_removed") + InTallies("symbol_added")
RecordedOK ==
  /\ recorded = IF SymbolEvents < EventCap THEN SymbolEvents ELSE EventCap
  /\ InTallies("symbol_version_renamed") = IF Tallied THEN renamed ELSE 0
  /\ massRename => Tallied /\ IsMassRename

ObjectOK == object \in Objects

IInv == ObjectOK /\ TypeOK /\ EarlyOK /\ PairedOK /\ GreedyOK /\ PlainOK /\ RecordedOK

(***************************************************************************)
(* Types.                                                                  *)
(***************************************************************************)
LEMMA KindsAre ==
  /\ {"field_added_to_struct", "field_removed_from_struct", "field_type_changed",
      "member_offset_changed", "type_size_changed", "base_class_changed", "enum_case_added",
      "enum_case_removed", "vtable_changed"} \subseteq ChangeKind \ SymbolKinds
  /\ SymbolKinds \subseteq ChangeKind
  /\ SymbolKinds = {"function_signature_changed", "symbol_removed", "symbol_added", "symbol_version_renamed"}
BY DEF ChangeKind, SymbolKinds, LayoutKinds, MemberKinds, EnumKinds, HeaderKinds

LEMMA CountsFinite ==
  ASSUME NEW S, S \subseteq Members
  PROVE  Cardinality(S) \in Nat
BY CompareAssumption, FS_Subset, FS_CardinalityType

LEMMA EmitTyped ==
  ASSUME NEW d, TypeDiff(d), NEW k \in ChangeKind \ SymbolKinds, NEW n \in Nat
  PROVE  Emit(k, d, n) \in Seq(Event)
<1>1. [kind |-> k, type |-> d.type, declared |-> d.declared, count |-> n] \in Event
  BY DEF Event, TypeDiff
<1> QED
  BY <1>1 DEF Emit

LEMMA LayoutTyped ==
  ASSUME NEW d, TypeDiff(d)
  PROVE  LayoutEvents(d) \in Seq(Event)
<1>1. /\ DOMAIN d.first \subseteq Members /\ DOMAIN d.second \subseteq Members
      /\ d.reported \subseteq Common(d) /\ Common(d) \subseteq Members
  BY DEF TypeDiff, Common
<1>2. Emit("field_added_to_struct", d, Cardinality(DOMAIN d.second \ DOMAIN d.first)) \in Seq(Event)
  <2>1. Cardinality(DOMAIN d.second \ DOMAIN d.first) \in Nat
    BY <1>1, CountsFinite
  <2> QED
    BY <2>1, EmitTyped, KindsAre
<1>3. Emit("field_removed_from_struct", d, Cardinality(DOMAIN d.first \ DOMAIN d.second)) \in Seq(Event)
  <2>1. Cardinality(DOMAIN d.first \ DOMAIN d.second) \in Nat
    BY <1>1, CountsFinite
  <2> QED
    BY <2>1, EmitTyped, KindsAre
<1>4. Emit("field_type_changed", d, TypesChanged(d)) \in Seq(Event)
  <2>1. {m \in d.reported : d.first[m].type # d.second[m].type} \subseteq Members
    BY <1>1
  <2>2. TypesChanged(d) \in Nat
    BY <2>1, CountsFinite DEF TypesChanged
  <2> QED
    BY <2>2, EmitTyped, KindsAre
<1>5. Emit("member_offset_changed", d, OffsetsChanged(d)) \in Seq(Event)
  <2>1. Moved(d, d.reported) \subseteq Members /\ Moved(d, Common(d) \ d.reported) \subseteq Members
    BY <1>1 DEF Moved
  <2>2. Cardinality(Moved(d, d.reported)) \in Nat /\ Cardinality(Moved(d, Common(d) \ d.reported)) \in Nat
    BY <2>1, CountsFinite
  <2>3. OffsetsChanged(d) \in Nat
    BY <2>2 DEF OffsetsChanged
  <2> QED
    BY <2>3, EmitTyped, KindsAre
<1>6. Emit("type_size_changed", d, IF d.resized THEN 1 ELSE 0) \in Seq(Event)
  BY EmitTyped, KindsAre
<1> QED
  BY <1>2, <1>3, <1>4, <1>5, <1>6 DEF LayoutEvents

LEMMA EnumTyped ==
  ASSUME NEW d, TypeDiff(d)
  PROVE  EnumEvents(d) \in Seq(Event)
<1>1. d.casesAdded \in Nat /\ d.casesRemoved \in Nat
  BY DEF TypeDiff
<1>2. /\ Emit("enum_case_added", d, d.casesAdded) \in Seq(Event)
      /\ Emit("enum_case_removed", d, d.casesRemoved) \in Seq(Event)
      /\ Emit("type_size_changed", d, IF d.resized THEN 1 ELSE 0) \in Seq(Event)
  BY <1>1, EmitTyped, KindsAre
<1> QED
  BY <1>2 DEF EnumEvents

LEMMA SlotsCounted ==
  ASSUME NEW d, TypeDiff(d)
  PROVE  SlotEvents(d) \in Nat
<1> DEFINE gone == DOMAIN d.slots1 \ DOMAIN d.slots2
           new == DOMAIN d.slots2 \ DOMAIN d.slots1
           moved == {m \in DOMAIN d.slots1 \cap DOMAIN d.slots2 : d.slots1[m] # d.slots2[m]}
<1>1. gone \cup new \cup moved \subseteq Members
  BY DEF TypeDiff
<1> HIDE DEF gone, new, moved
<1>2. Cardinality(gone \cup new \cup moved) \in Nat
  BY <1>1, CountsFinite
<1> QED
  BY <1>2 DEF SlotEvents, gone, new, moved

LEMMA ClassTyped ==
  ASSUME NEW d, TypeDiff(d)
  PROVE  ClassEvents(d) \in Seq(Event)
<1>1. d.bases \in Nat /\ SlotEvents(d) \in Nat
  BY SlotsCounted DEF TypeDiff
<1>2. Emit("base_class_changed", d, d.bases) \in Seq(Event)
  BY <1>1, EmitTyped, KindsAre
<1>3. Emit("vtable_changed", d, SlotEvents(d)) \in Seq(Event)
  BY <1>1, EmitTyped, KindsAre
<1> QED
  BY <1>2, <1>3 DEF ClassEvents

(***************************************************************************)
(* Tallies.                                                                *)
(***************************************************************************)
LEMMA TalliesAre ==
  ASSUME TypeOK, NEW k \in ChangeKind
  PROVE  /\ counts["public"][k] \in Nat /\ counts["private_node"][k] \in Nat
         /\ InTallies(k) \in Nat
BY DEF TypeOK, Tallies, Tally, InTallies

LEMMA AddIs ==
  ASSUME NEW c \in Tallies, NEW k \in ChangeKind, NEW n \in Nat
  PROVE  /\ Add(c, k, n) \in Tallies
         /\ \A l \in ChangeKind : Add(c, k, n)[l] = IF l = k THEN c[k] + n ELSE c[l]
BY DEF Add, Tallies

\* A symbol event is one more in one of the two tallies of symbols, and is kept below the cap.
LEMMA CountOne ==
  ASSUME TypeOK, RecordedOK, NEW s, NEW k \in SymbolKinds, k # "symbol_version_renamed", Count(s, k)
  PROVE  /\ counts' \in [Tally -> Tallies]
         /\ InTallies(k)' = InTallies(k) + 1
         /\ \A l \in SymbolKinds : l # k => InTallies(l)' = InTallies(l)
         /\ recorded' \in Nat
         /\ recorded' = IF SymbolEvents' < EventCap THEN SymbolEvents' ELSE EventCap
<1>1. PICK t : t = TallyOf(s)
  OBVIOUS
<1>2. t \in {"public", "private_node"} /\ t \in Tally /\ k \in ChangeKind
  BY <1>1, KindsAre DEF TallyOf, Tally
<1>3. counts' = [counts EXCEPT ![t] = Add(@, k, 1)]
  BY <1>1 DEF Count
<1>4. /\ counts' \in [Tally -> Tallies]
      /\ \A u \in Tally, l \in ChangeKind :
           counts'[u][l] = IF u = t /\ l = k THEN counts[t][k] + 1 ELSE counts[u][l]
  <2>1. counts \in [Tally -> Tallies] /\ counts[t] \in Tallies
    BY <1>2 DEF TypeOK, IInv
  <2>2. PICK c : c = Add(counts[t], k, 1)
    OBVIOUS
  <2>3. c \in Tallies /\ \A l \in ChangeKind : c[l] = IF l = k THEN counts[t][k] + 1 ELSE counts[t][l]
    BY <1>2, <2>1, <2>2, AddIs
  <2>4. counts' = [counts EXCEPT ![t] = c]
    BY <1>3, <2>2
  <2> QED
    BY <2>1, <2>3, <2>4
<1>5. "public" \in Tally /\ "private_node" \in Tally
  BY DEF Tally
<1>6. InTallies(k)' = InTallies(k) + 1
  <2>1. counts["public"][k] \in Nat /\ counts["private_node"][k] \in Nat
    BY <1>2, TalliesAre
  <2>2. /\ counts'["public"][k] = IF t = "public" THEN counts["public"][k] + 1 ELSE counts["public"][k]
        /\ counts'["private_node"][k] =
             IF t = "private_node" THEN counts["private_node"][k] + 1 ELSE counts["private_node"][k]
    BY <1>2, <1>4, <1>5
  <2>3. CASE t = "public"
    BY <2>1, <2>2, <2>3 DEF InTallies
  <2>4. CASE t = "private_node"
    BY <2>1, <2>2, <2>4 DEF InTallies
  <2> QED
    BY <1>2, <2>3, <2>4
<1>7. \A l \in SymbolKinds : l # k => InTallies(l)' = InTallies(l)
  BY <1>4, <1>5, KindsAre DEF InTallies
<1>8. SymbolEvents' = SymbolEvents + 1
  <2> DEFINE a == InTallies("function_signature_changed")
             b == InTallies("symbol_removed")
             c == InTallies("symbol_added")
  <2>1. a \in Nat /\ b \in Nat /\ c \in Nat
    BY TalliesAre, KindsAre
  <2>2. k \in {"function_signature_changed", "symbol_removed", "symbol_added"}
    BY KindsAre
  <2>3. /\ a' = IF k = "function_signature_changed" THEN a + 1 ELSE a
        /\ b' = IF k = "symbol_removed" THEN b + 1 ELSE b
        /\ c' = IF k = "symbol_added" THEN c + 1 ELSE c
    BY <1>6, <1>7, KindsAre
  <2>4. SymbolEvents = a + b + c /\ SymbolEvents' = a' + b' + c'
    BY DEF SymbolEvents
  <2> HIDE DEF a, b, c
  <2>5. CASE k = "function_signature_changed"
    BY <2>1, <2>3, <2>4, <2>5
  <2>6. CASE k = "symbol_removed"
    BY <2>1, <2>3, <2>4, <2>6
  <2>7. CASE k = "symbol_added"
    BY <2>1, <2>3, <2>4, <2>7
  <2> QED
    BY <2>2, <2>5, <2>6, <2>7
<1>9. recorded \in Nat /\ EventCap \in Nat /\ SymbolEvents \in Nat
  <2>1. /\ InTallies("function_signature_changed") \in Nat
        /\ InTallies("symbol_removed") \in Nat /\ InTallies("symbol_added") \in Nat
    BY TalliesAre, KindsAre
  <2> QED
    BY <2>1, CompareAssumption DEF TypeOK, SymbolEvents
<1>10. /\ recorded' = IF recorded < EventCap THEN recorded + 1 ELSE recorded
       /\ recorded = IF SymbolEvents < EventCap THEN SymbolEvents ELSE EventCap
  BY DEF Count, RecordedOK
<1>11. recorded' \in Nat /\ recorded' = IF SymbolEvents' < EventCap THEN SymbolEvents' ELSE EventCap
  BY <1>8, <1>9, <1>10
<1> QED
  BY <1>4, <1>6, <1>7, <1>11

\* Steps that leave the tallies of symbols alone.
LEMMA Uncounted ==
  ASSUME TypeOK, RecordedOK, recorded' = recorded,
         \A k \in SymbolKinds : InTallies(k)' = InTallies(k)
  PROVE  recorded' = IF SymbolEvents' < EventCap THEN SymbolEvents' ELSE EventCap
BY KindsAre DEF RecordedOK, SymbolEvents

(***************************************************************************)
(* Up to the collection of the symbols.                                    *)
(***************************************************************************)
LEMMA EarlyStep ==
  ASSUME IInv, TypeOK', Early, Early', UNCHANGED <<object, symbolVars>>,
         pc' \in {"load", "collect", "mass"} => i' = 1,
         \A k \in SymbolKinds : InTallies(k)' = InTallies(k)
  PROVE  IInv'
<1>1. /\ pc \in {"load", "types", "attribute", "collect", "failed"}
      /\ pc' \in {"load", "types", "attribute", "collect", "failed"}
      /\ removed' = removed /\ added' = added /\ remUsed' = remUsed /\ addUsed' = addUsed
      /\ signatures' = signatures /\ renamed' = renamed /\ plain' = plain
      /\ recorded' = recorded /\ massRename' = massRename
  BY DEF Early, symbolVars
<1>2. EarlyOK'
  BY <1>1 DEF IInv, EarlyOK, Early
<1>3. PairedOK'
  BY <1>1 DEF IInv, PairedOK
<1>4. GreedyOK'
  BY <1>1 DEF GreedyOK, Signed, Renamed, Attributed, Typed
<1>5. PlainOK'
  BY <1>1, KindsAre DEF IInv, PlainOK, AfterRemoved, AfterAdded
<1>6. RecordedOK'
  <2>1. recorded' = IF SymbolEvents' < EventCap THEN SymbolEvents' ELSE EventCap
    BY <1>1, Uncounted DEF IInv
  <2>2. InTallies("symbol_version_renamed")' = InTallies("symbol_version_renamed")
    BY KindsAre
  <2>3. ~Tallied /\ ~Tallied' /\ ~massRename'
    BY <1>1 DEF IInv, Tallied, RecordedOK
  <2> QED
    BY <2>1, <2>2, <2>3 DEF IInv, RecordedOK
<1> QED
  BY <1>2, <1>3, <1>4, <1>5, <1>6 DEF IInv, ObjectOK

LEMMA LoadInv ==
  ASSUME IInv, Load \/ LoadFails
  PROVE  IInv'
<1>1. /\ pc = "load" /\ pc' \in {"types", "failed"} /\ i' = i /\ UNCHANGED <<object, counts, typeVars, symbolVars>>
  BY DEF Load, LoadFails
<1>2. TypeOK'
  <2>1. language' \in {"unknown", "c", "cxx"}
    BY DEF IInv, TypeOK, Load, LoadFails, LanguageOf
  <2> QED
    BY <1>1, <2>1 DEF IInv, TypeOK, typeVars, symbolVars, Pcs
<1> QED
  BY <1>1, <1>2, EarlyStep DEF Early, InTallies

LEMMA VisitInv ==
  ASSUME IInv, Visit
  PROVE  IInv'
<1>1. /\ pc = "types" /\ pc' = pc /\ i <= Len(object.visits) /\ i' = i + 1 /\ i \in Nat \ {0}
      /\ UNCHANGED <<object, counts, language, symbolVars>>
  BY DEF IInv, TypeOK, Visit, Round, Rounds
<1>2. PICK d : d = object.visits[i]
  OBVIOUS
<1>3. TypeDiff(d)
  <2>1. Object(object)
    BY CompareAssumption DEF IInv, ObjectOK
  <2> QED
    BY <1>1, <1>2, <2>1 DEF Object
<1>4. LayoutEvents(d) \in Seq(Event) /\ EnumEvents(d) \in Seq(Event) /\ ClassEvents(d) \in Seq(Event)
  BY <1>3, LayoutTyped, EnumTyped, ClassTyped
<1>5. events' \in Seq(Event)
  <2>1. events \in Seq(Event) /\ <<>> \in Seq(Event)
    BY DEF IInv, TypeOK
  <2>2. PICK a : a = IF FirstTime(d) THEN LayoutEvents(d) ELSE <<>>
    OBVIOUS
  <2>3. PICK b : b = IF FirstTime(d) THEN EnumEvents(d) ELSE <<>>
    OBVIOUS
  <2>4. a \in Seq(Event) /\ b \in Seq(Event)
    BY <1>4, <2>1, <2>2, <2>3
  <2>6. d.kind \in {"class", "union", "enum", "other"} /\ d.changes \in BOOLEAN
    BY <1>3 DEF TypeDiff
  <2>7. CASE ~d.changes \/ d.kind = "other"
    <3>1. CASE ~d.changes
      <4>1. events' = events
        BY <1>2, <3>1 DEF Visit
      <4> QED
        BY <2>1, <4>1
    <3>2. CASE d.changes /\ d.kind = "other"
      <4>1. events' = events \o <<>>
        BY <1>2, <3>2 DEF Visit
      <4> QED
        BY <2>1, <4>1
    <3> QED
      BY <2>6, <2>7, <3>1, <3>2
  <2>8. CASE d.changes /\ d.kind = "class"
    <3>1. events' = events \o (a \o ClassEvents(d))
      BY <1>2, <2>2, <2>3, <2>6, <2>8 DEF Visit
    <3> QED
      BY <1>4, <2>1, <2>4, <3>1
  <2>9. CASE d.changes /\ d.kind = "union"
    <3>1. events' = events \o a
      BY <1>2, <2>2, <2>3, <2>6, <2>9 DEF Visit
    <3> QED
      BY <2>1, <2>4, <3>1
  <2>10. CASE d.changes /\ d.kind = "enum"
    <3>1. events' = events \o b
      BY <1>2, <2>2, <2>3, <2>6, <2>10 DEF Visit
    <3> QED
      BY <2>1, <2>4, <3>1
  <2> QED
    BY <2>6, <2>7, <2>8, <2>9, <2>10
<1>6. seen' \subseteq Types
  BY <1>2, <1>3 DEF IInv, TypeOK, Visit, TypeDiff
<1>7. TypeOK'
  BY <1>1, <1>5, <1>6 DEF IInv, TypeOK, symbolVars
<1> QED
  BY <1>1, <1>7, EarlyStep DEF Early, InTallies

LEMMA AttributeInv ==
  ASSUME IInv, AttributeType
  PROVE  IInv'
<1>1. /\ pc = "attribute" /\ pc' = pc /\ i <= Len(events) /\ i' = i + 1 /\ i \in Nat \ {0}
      /\ UNCHANGED <<object, typeVars, language, symbolVars>>
  BY DEF IInv, TypeOK, AttributeType, Round, Rounds
<1>2. PICK k, n : k = events[i].kind /\ n = events[i].count
  OBVIOUS
<1>3. PICK t : t = IF Own(events[i]) THEN "public" ELSE "third_party"
  OBVIOUS
<1>4. events[i] \in Event
  BY <1>1 DEF IInv, TypeOK
<1>5. k \in ChangeKind \ SymbolKinds /\ n \in Nat /\ t \in Tally
  BY <1>2, <1>3, <1>4 DEF Event, Tally
<1>6. counts' = [counts EXCEPT ![t] = Add(@, k, n)]
  BY <1>2, <1>3 DEF AttributeType
<1>7. /\ counts' \in [Tally -> Tallies]
      /\ \A u \in Tally, l \in ChangeKind :
           counts'[u][l] = IF u = t /\ l = k THEN counts[t][k] + n ELSE counts[u][l]
  <2>1. counts \in [Tally -> Tallies] /\ counts[t] \in Tallies
    BY <1>5 DEF TypeOK, IInv
  <2>2. PICK c : c = Add(counts[t], k, n)
    OBVIOUS
  <2>3. c \in Tallies /\ \A l \in ChangeKind : c[l] = IF l = k THEN counts[t][k] + n ELSE counts[t][l]
    BY <1>5, <2>1, <2>2, AddIs
  <2>4. counts' = [counts EXCEPT ![t] = c]
    BY <1>6, <2>2
  <2> QED
    BY <2>1, <2>3, <2>4
<1>8. TypeOK'
  BY <1>1, <1>7 DEF IInv, TypeOK, typeVars, symbolVars
<1>9. \A l \in SymbolKinds : InTallies(l)' = InTallies(l)
  BY <1>5, <1>7, KindsAre DEF InTallies, Tally
<1> QED
  BY <1>1, <1>8, <1>9, EarlyStep DEF Early

LEMMA OrdersTyped ==
  ASSUME NEW S, IsFiniteSet(S), NEW T, S \subseteq T, NEW v \in Orders(S)
  PROVE  v \in Seq(T)
<1>1. Cardinality(S) \in Nat
  BY FS_CardinalityType
<1>2. v \in [1 .. Cardinality(S) -> T]
  BY DEF Orders
<1> QED
  BY <1>1, <1>2

LEMMA CollectInv ==
  ASSUME IInv, CollectSymbols
  PROVE  IInv'
<1>1. /\ pc = "collect" /\ pc' = "signatures" /\ i' = i /\ i = 1
      /\ UNCHANGED <<object, typeVars, counts, language, remUsed, addUsed, signatures, renamed,
                     plain, recorded, massRename>>
      /\ remUsed = {} /\ addUsed = {} /\ signatures = 0 /\ renamed = 0 /\ plain = 0 /\ recorded = 0
  BY DEF IInv, EarlyOK, Early, CollectSymbols
<1>2. removed' \in Seq(Symbol) /\ added' \in Seq(Symbol)
  <2>1. /\ IsFiniteSet(object.deleted) /\ IsFiniteSet(object.added)
        /\ object.deleted \subseteq Symbol /\ object.added \subseteq Symbol
    BY CompareAssumption DEF IInv, ObjectOK, Object
  <2>2. /\ IsFiniteSet(Kept(object.deleted)) /\ Kept(object.deleted) \subseteq Symbol
        /\ IsFiniteSet(Kept(object.added)) /\ Kept(object.added) \subseteq Symbol
    BY <2>1, FS_Subset DEF Kept
  <2>3. removed' \in Orders(Kept(object.deleted)) /\ added' \in Orders(Kept(object.added))
    BY DEF CollectSymbols
  <2> QED
    BY <2>2, <2>3, OrdersTyped
<1>3. TypeOK'
  BY <1>1, <1>2 DEF IInv, TypeOK, typeVars, Pcs
<1>4. EarlyOK'
  BY <1>1 DEF EarlyOK, Early
<1>5. PairedOK'
  BY <1>1 DEF IInv, PairedOK
<1>6. GreedyOK'
  <2>1. 1 .. 1 - 1 = {}
    OBVIOUS
  <2> QED
    BY <1>1, <2>1 DEF GreedyOK, Signed, Renamed, Attributed, Typed
<1>7. PlainOK'
  BY <1>1 DEF IInv, PlainOK, AfterRemoved, AfterAdded, InTallies
<1>8. RecordedOK'
  BY <1>1 DEF IInv, RecordedOK, Tallied, SymbolEvents, InTallies
<1> QED
  BY <1>1, <1>3, <1>4, <1>5, <1>6, <1>7, <1>8 DEF IInv, ObjectOK

(***************************************************************************)
(* The loops over the symbols.                                             *)
(***************************************************************************)
LEMMA Shapes ==
  ASSUME IInv
  PROVE  /\ removed \in Seq(Symbol) /\ DOMAIN removed = 1 .. Len(removed) /\ Len(removed) \in Nat
         /\ added \in Seq(Symbol) /\ DOMAIN added = 1 .. Len(added) /\ Len(added) \in Nat
         /\ signatures \in Nat /\ renamed \in Nat /\ plain \in Nat /\ recorded \in Nat
         /\ i \in Nat \ {0} /\ MassRenameMin \in Nat /\ EventCap \in Nat
         /\ remUsed \subseteq 1 .. Len(removed) /\ addUsed \subseteq 1 .. Len(added)
         /\ \A k \in ChangeKind : InTallies(k) \in Nat
BY TalliesAre, CompareAssumption DEF IInv, TypeOK

LEMMA UpTo ==
  ASSUME NEW U, IsFiniteSet(U), NEW n \in Nat \ {0}
  PROVE  /\ Cardinality(U \cap (1 .. n - 1)) \in Nat /\ Cardinality(U \cap (1 .. n)) \in Nat
         /\ Cardinality(U \cap (1 .. n)) =
              Cardinality(U \cap (1 .. n - 1)) + (IF n \in U THEN 1 ELSE 0)
<1> DEFINE T == U \cap (1 .. n - 1)
<1>1. IsFiniteSet(T) /\ n \notin T
  BY FS_Subset
<1>2. IsFiniteSet(T \cup {n}) /\ Cardinality(T \cup {n}) = Cardinality(T) + 1
  BY <1>1, FS_AddElement
<1>3. Cardinality(T) \in Nat
  BY <1>1, FS_CardinalityType
<1>4. U \cap (1 .. n) = IF n \in U THEN T \cup {n} ELSE T
  OBVIOUS
<1> HIDE DEF T
<1>5. Cardinality(U \cap (1 .. n)) = Cardinality(T) + (IF n \in U THEN 1 ELSE 0)
  <2>1. CASE n \in U
    BY <1>2, <1>4, <2>1
  <2>2. CASE n \notin U
    <3>1. U \cap (1 .. n) = T
      BY <1>4, <2>2
    <3>2. (IF n \in U THEN 1 ELSE 0) = 0
      BY <2>2
    <3>3. Cardinality(T) + 0 = Cardinality(T)
      BY <1>3
    <3> QED
      BY <3>1, <3>2, <3>3
  <2> QED
    BY <2>1, <2>2
<1> QED
  BY <1>3, <1>5 DEF T

\* Pairs are never undone: what has no partner gets none.
LEMMA FewerPartners ==
  ASSUME removed' = removed, added' = added, remUsed \subseteq remUsed', addUsed \subseteq addUsed', NEW r
  PROVE  Candidates(r)' \subseteq Candidates(r) /\ Renamings(r)' \subseteq Renamings(r)
BY DEF Candidates, Renamings, Unpaired

LEMMA EndLoopInv ==
  ASSUME IInv, EndLoop
  PROVE  IInv'
<1>1. /\ pc \in {"types", "attribute", "signatures", "renames", "removed", "added", "changed"}
      /\ i > Rounds(pc) /\ pc' = After[pc] /\ i' = 1
      /\ UNCHANGED <<object, typeVars, counts, language, symbolVars>>
  BY DEF EndLoop, After
<1>2. /\ UNCHANGED <<removed, added, remUsed, addUsed, signatures, renamed, plain, recorded, massRename>>
      /\ UNCHANGED <<object, seen, events, counts, language>>
  BY <1>1 DEF symbolVars, typeVars
<1>3. /\ pc' \in Pcs \ {"load", "failed", "types", "signatures"}
      /\ pc = "types" => pc' = "attribute"
      /\ pc = "attribute" => pc' = "collect"
      /\ pc = "signatures" => pc' = "renames"
      /\ pc = "renames" => pc' = "removed"
      /\ pc = "removed" => pc' = "added"
      /\ pc = "added" => pc' = "mass"
      /\ pc = "changed" => pc' = "done"
  BY <1>1 DEF After, Pcs
<1>4. TypeOK'
  BY <1>1, <1>2, <1>3 DEF IInv, TypeOK
<1>5. \A k : InTallies(k)' = InTallies(k)
  BY <1>2 DEF InTallies
<1>6. CASE pc \in {"types", "attribute"}
  BY <1>1, <1>3, <1>4, <1>5, <1>6, EarlyStep DEF Early
<1>7. CASE pc \in {"signatures", "renames", "removed", "added", "changed"}
  <2>0. ~Early' /\ Tallied' = Tallied /\ Signed' /\ i \in Nat \ {0}
        /\ DOMAIN removed = 1 .. Len(removed) /\ Len(removed) \in Nat /\ Len(added) \in Nat
    BY <1>3, <1>7, Shapes DEF Early, Tallied, Signed, Attributed, Typed
  <2>1. ObjectOK' /\ EarlyOK' /\ PairedOK'
    BY <1>1, <1>2, <1>3, <2>0 DEF IInv, ObjectOK, EarlyOK, PairedOK
  <2>2. RecordedOK'
    BY <1>2, <1>5, <2>0 DEF IInv, RecordedOK, SymbolEvents, IsMassRename
  <2>3. \A r : Candidates(r)' = Candidates(r) /\ Renamings(r)' = Renamings(r)
    BY <1>2 DEF Candidates, Renamings, Unpaired
  <2>4. \A r \in DOMAIN removed : r \in remUsed \/ Candidates(r) = {}
    <3>1. CASE pc = "signatures"
      <4>1. \A r \in DOMAIN removed : r \in 1 .. i - 1
        BY <1>1, <2>0, <3>1 DEF Rounds
      <4> QED
        BY <3>1, <4>1 DEF IInv, GreedyOK
    <3>2. CASE pc # "signatures"
      <4>1. Signed
        BY <1>7, <3>2 DEF Signed, Attributed, Typed
      <4> QED
        BY <4>1 DEF IInv, GreedyOK
    <3> QED
      BY <3>1, <3>2
  <2>5. Renamed' => \A r \in DOMAIN removed : Renamings(r) = {}
    <3>1. CASE pc = "signatures"
      BY <1>3, <3>1 DEF Renamed
    <3>2. CASE pc = "renames"
      <4>1. \A r \in DOMAIN removed : r \in 1 .. i - 1
        BY <1>1, <2>0, <3>2 DEF Rounds
      <4> QED
        BY <3>2, <4>1 DEF IInv, GreedyOK
    <3>3. CASE pc \notin {"signatures", "renames"}
      <4>1. Renamed
        BY <1>7, <3>3 DEF Renamed, Signed, Attributed, Typed
      <4> QED
        BY <4>1 DEF IInv, GreedyOK
    <3> QED
      BY <3>1, <3>2, <3>3
  <2>6. GreedyOK'
    <3>1. 1 .. i' - 1 = {} /\ pc' # "signatures"
      BY <1>1, <1>3
    <3>2. Signed' => \A r \in DOMAIN removed' : r \in remUsed' \/ Candidates(r)' = {}
      BY <1>2, <2>3, <2>4
    <3>3. Renamed' => \A r \in DOMAIN removed' : Renamings(r)' = {}
      BY <1>2, <2>3, <2>5
    <3> QED
      BY <3>1, <3>2, <3>3 DEF GreedyOK
  <2>7. PlainOK'
    <3>0. /\ InTallies("symbol_removed")' = InTallies("symbol_removed")
          /\ InTallies("symbol_added")' = InTallies("symbol_added")
          /\ PlainOK
          /\ InTallies("symbol_removed") \in Nat /\ InTallies("symbol_added") \in Nat
      BY <1>5, Shapes, KindsAre DEF IInv
    <3>1. 1 .. 1 - 1 = {} /\ Cardinality({}) = 0 /\ 1 \in 1 .. Len(removed) + 1 /\ 1 \in 1 .. Len(added) + 1
      BY <2>0, FS_EmptySet
    <3>2. CASE pc = "signatures"
      BY <1>2, <1>3, <3>0, <3>2 DEF PlainOK, AfterRemoved, AfterAdded
    <3>3. CASE pc = "renames"
      <4>1. Counted(i, removed, remUsed, "symbol_removed")'
        <5>1. remUsed \cap (1 .. 1 - 1) = {} /\ InTallies("symbol_removed") = 0
          BY <3>0, <3>1, <3>3 DEF PlainOK, AfterRemoved
        <5> QED
          BY <1>1, <1>2, <3>0, <3>1, <5>1 DEF Counted
      <4> QED
        BY <1>2, <1>3, <3>0, <3>3, <4>1 DEF PlainOK, AfterRemoved, AfterAdded
    <3>4. CASE pc = "removed"
      <4>1. i = Len(removed) + 1
        BY <1>1, <2>0, <3>0, <3>4 DEF PlainOK, Counted, Rounds
      <4>2. Counted(Len(removed) + 1, removed, remUsed, "symbol_removed")'
        BY <1>2, <3>0, <3>4, <4>1 DEF PlainOK, Counted
      <4>3. Counted(i, added, addUsed, "symbol_added")'
        <5>1. addUsed \cap (1 .. 1 - 1) = {} /\ InTallies("symbol_added") = 0
          BY <3>0, <3>1, <3>4 DEF PlainOK, AfterAdded
        <5> QED
          BY <1>1, <1>2, <3>0, <3>1, <5>1 DEF Counted
      <4> QED
        BY <1>2, <1>3, <3>0, <3>4, <4>2, <4>3 DEF PlainOK, AfterRemoved, AfterAdded
    <3>5. CASE pc = "added"
      <4>1. i = Len(added) + 1
        BY <1>1, <2>0, <3>0, <3>5 DEF PlainOK, Counted, Rounds
      <4>2. Counted(Len(added) + 1, added, addUsed, "symbol_added")'
        BY <1>2, <3>0, <3>5, <4>1 DEF PlainOK, Counted
      <4>3. Counted(Len(removed) + 1, removed, remUsed, "symbol_removed")'
        BY <1>2, <3>0, <3>5 DEF PlainOK, AfterRemoved, Counted
      <4> QED
        BY <1>2, <1>3, <3>0, <3>5, <4>2, <4>3 DEF PlainOK, AfterRemoved, AfterAdded
    <3>6. CASE pc = "changed"
      <4>1. /\ Counted(Len(removed) + 1, removed, remUsed, "symbol_removed")'
            /\ Counted(Len(added) + 1, added, addUsed, "symbol_added")'
        BY <1>2, <3>0, <3>6 DEF PlainOK, AfterRemoved, AfterAdded, Counted
      <4> QED
        BY <1>2, <1>3, <3>0, <3>6, <4>1 DEF PlainOK, AfterRemoved, AfterAdded
    <3> QED
      BY <1>7, <3>2, <3>3, <3>4, <3>5, <3>6
  <2> QED
    BY <1>4, <2>1, <2>2, <2>6, <2>7 DEF IInv
<1> QED
  BY <1>1, <1>6, <1>7

\* A symbol paired in a loop: one more on each side.
LEMMA PairTakes ==
  ASSUME IInv, NEW r \in DOMAIN removed, NEW j \in Unpaired(r), r \notin remUsed, Pair(r, j)
  PROVE  /\ remUsed' = remUsed \cup {r} /\ remUsed' \subseteq DOMAIN removed
         /\ addUsed \subseteq addUsed' /\ addUsed' \subseteq DOMAIN added
         /\ IsFiniteSet(remUsed') /\ Cardinality(remUsed') = signatures + renamed + 1
         /\ IsFiniteSet(addUsed') /\ Cardinality(addUsed') = signatures + renamed + 1
<1>1. /\ remUsed' = remUsed \cup {r} /\ addUsed' = addUsed \cup {j} /\ j \in DOMAIN added /\ j \notin addUsed
      /\ remUsed \subseteq DOMAIN removed /\ addUsed \subseteq DOMAIN added
  BY DEF Pair, Unpaired, IInv, TypeOK
<1>2. /\ IsFiniteSet(remUsed) /\ Cardinality(remUsed) = signatures + renamed
      /\ IsFiniteSet(addUsed) /\ Cardinality(addUsed) = signatures + renamed
  BY DEF IInv, PairedOK
<1>3. IsFiniteSet(remUsed \cup {r}) /\ Cardinality(remUsed \cup {r}) = Cardinality(remUsed) + 1
  BY <1>2, FS_AddElement
<1>4. IsFiniteSet(addUsed \cup {j}) /\ Cardinality(addUsed \cup {j}) = Cardinality(addUsed) + 1
  BY <1>1, <1>2, FS_AddElement
<1> QED
  BY <1>1, <1>2, <1>3, <1>4

LEMMA PairSignatureInv ==
  ASSUME IInv, PairSignature
  PROVE  IInv'
<1>0. /\ DOMAIN removed = 1 .. Len(removed) /\ Len(removed) \in Nat /\ i \in Nat \ {0}
      /\ signatures \in Nat /\ renamed \in Nat
  BY Shapes
<1>1. /\ pc = "signatures" /\ pc' = pc /\ i' = i + 1 /\ i <= Len(removed)
      /\ UNCHANGED <<object, seen, events, language, removed, added, renamed, plain, massRename>>
      /\ signatures' = signatures + 1
  BY DEF PairSignature, Round, Rounds, typeVars
<1>2. PICK j \in Candidates(i) : Pair(i, j)
  BY DEF PairSignature
<1>3. i \in DOMAIN removed /\ i \notin remUsed /\ remUsed \subseteq 1 .. i - 1 /\ j \in Unpaired(i)
  BY <1>0, <1>1, <1>2 DEF IInv, PairedOK, Candidates
<1>4. PICK r : r = i
  OBVIOUS
<1>5. /\ remUsed' = remUsed \cup {i} /\ remUsed' \subseteq DOMAIN removed
      /\ addUsed \subseteq addUsed' /\ addUsed' \subseteq DOMAIN added
      /\ IsFiniteSet(remUsed') /\ Cardinality(remUsed') = signatures + renamed + 1
      /\ IsFiniteSet(addUsed') /\ Cardinality(addUsed') = signatures + renamed + 1
  <2>1. r \in DOMAIN removed /\ r \notin remUsed /\ j \in Unpaired(r) /\ Pair(r, j)
    BY <1>2, <1>3, <1>4
  <2> QED
    BY <1>4, <2>1, PairTakes
<1>6. PICK s : s = removed[i]
  OBVIOUS
<1>7. /\ counts' \in [Tally -> Tallies]
      /\ \A l \in SymbolKinds : l # "function_signature_changed" => InTallies(l)' = InTallies(l)
      /\ recorded' \in Nat
      /\ recorded' = IF SymbolEvents' < EventCap THEN SymbolEvents' ELSE EventCap
  <2>1. Count(s, "function_signature_changed")
    BY <1>6 DEF PairSignature
  <2> QED
    BY <2>1, CountOne, KindsAre DEF IInv
<1>8. TypeOK'
  BY <1>0, <1>1, <1>5, <1>7 DEF IInv, TypeOK
<1>9. ObjectOK' /\ EarlyOK'
  BY <1>1 DEF IInv, ObjectOK, EarlyOK, Early
<1>10. PairedOK'
  BY <1>0, <1>1, <1>3, <1>5 DEF PairedOK
<1>11. GreedyOK'
  <2>1. \A q \in 1 .. i : q = i \/ q \in 1 .. i - 1
    BY <1>0
  <2>2. \A q \in 1 .. i - 1 : q \in remUsed \/ Candidates(q) = {}
    BY <1>1 DEF IInv, GreedyOK
  <2>3. \A q : Candidates(q)' \subseteq Candidates(q)
    BY <1>1, <1>5, FewerPartners
  <2>4. \A q \in 1 .. i : q \in remUsed' \/ Candidates(q)' = {}
    BY <1>5, <2>1, <2>2, <2>3
  <2>5. i' - 1 = i
    BY <1>0, <1>1
  <2> QED
    BY <1>1, <2>4, <2>5 DEF GreedyOK, Signed, Renamed
<1>12. PlainOK'
  BY <1>1, <1>7, KindsAre DEF IInv, PlainOK, AfterRemoved, AfterAdded
<1>13. RecordedOK'
  BY <1>1, <1>7, KindsAre DEF IInv, RecordedOK, Tallied
<1> QED
  BY <1>8, <1>9, <1>10, <1>11, <1>12, <1>13 DEF IInv

LEMMA NoSignatureInv ==
  ASSUME IInv, NoSignature
  PROVE  IInv'
<1>0. i \in Nat \ {0}
  BY Shapes
<1>1. /\ pc = "signatures" /\ pc' = pc /\ i' = i + 1 /\ Candidates(i) = {}
      /\ UNCHANGED <<object, seen, events, counts, language>>
      /\ UNCHANGED <<removed, added, remUsed, addUsed, signatures, renamed, plain, recorded, massRename>>
  BY DEF NoSignature, Round, typeVars, symbolVars
<1>2. TypeOK' /\ ObjectOK' /\ EarlyOK'
  BY <1>0, <1>1 DEF IInv, TypeOK, ObjectOK, EarlyOK, Early
<1>3. PairedOK'
  BY <1>0, <1>1 DEF IInv, PairedOK
<1>4. GreedyOK'
  <2>1. \A q \in 1 .. i : q = i \/ q \in 1 .. i - 1
    BY <1>0
  <2>2. \A q \in 1 .. i - 1 : q \in remUsed \/ Candidates(q) = {}
    BY <1>1 DEF IInv, GreedyOK
  <2>3. \A q : Candidates(q)' = Candidates(q)
    BY <1>1 DEF Candidates, Unpaired
  <2>4. \A q \in 1 .. i : q \in remUsed' \/ Candidates(q)' = {}
    BY <1>1, <2>1, <2>2, <2>3
  <2>5. i' - 1 = i
    BY <1>0, <1>1
  <2> QED
    BY <1>1, <2>4, <2>5 DEF GreedyOK, Signed, Renamed
<1>5. PlainOK' /\ RecordedOK'
  BY <1>1 DEF IInv, PlainOK, RecordedOK, AfterRemoved, AfterAdded, Tallied, InTallies, SymbolEvents
<1> QED
  BY <1>2, <1>3, <1>4, <1>5 DEF IInv

LEMMA PairRenameInv ==
  ASSUME IInv, PairRename
  PROVE  IInv'
<1>0. /\ DOMAIN removed = 1 .. Len(removed) /\ Len(removed) \in Nat /\ i \in Nat \ {0}
      /\ signatures \in Nat /\ renamed \in Nat
  BY Shapes
<1>1. /\ pc = "renames" /\ pc' = pc /\ i' = i + 1 /\ i <= Len(removed)
      /\ UNCHANGED <<object, seen, events, counts, language, removed, added, signatures, plain, recorded,
                     massRename>>
      /\ renamed' = renamed + 1
  BY DEF PairRename, Round, Rounds, typeVars
<1>2. PICK j \in Renamings(i) : Pair(i, j)
  BY DEF PairRename
<1>3. i \in DOMAIN removed /\ i \notin remUsed /\ j \in Unpaired(i)
  BY <1>0, <1>1, <1>2 DEF Renamings
<1>4. PICK r : r = i
  OBVIOUS
<1>5. /\ remUsed' = remUsed \cup {i} /\ remUsed' \subseteq DOMAIN removed
      /\ addUsed \subseteq addUsed' /\ addUsed' \subseteq DOMAIN added
      /\ IsFiniteSet(remUsed') /\ Cardinality(remUsed') = signatures + renamed + 1
      /\ IsFiniteSet(addUsed') /\ Cardinality(addUsed') = signatures + renamed + 1
  <2>1. r \in DOMAIN removed /\ r \notin remUsed /\ j \in Unpaired(r) /\ Pair(r, j)
    BY <1>2, <1>3, <1>4
  <2> QED
    BY <1>4, <2>1, PairTakes
<1>6. TypeOK'
  BY <1>0, <1>1, <1>5 DEF IInv, TypeOK
<1>7. ObjectOK' /\ EarlyOK'
  BY <1>1 DEF IInv, ObjectOK, EarlyOK, Early
<1>8. PairedOK'
  BY <1>0, <1>1, <1>5 DEF PairedOK
<1>9. GreedyOK'
  <2>1. \A q \in 1 .. i : q = i \/ q \in 1 .. i - 1
    BY <1>0
  <2>2. \A q : Candidates(q)' \subseteq Candidates(q) /\ Renamings(q)' \subseteq Renamings(q)
    BY <1>1, <1>5, FewerPartners
  <2>3. \A q \in DOMAIN removed : q \in remUsed \/ Candidates(q) = {}
    BY <1>1 DEF IInv, GreedyOK, Signed, Attributed, Typed
  <2>4. \A q \in DOMAIN removed' : q \in remUsed' \/ Candidates(q)' = {}
    BY <1>1, <1>5, <2>2, <2>3
  <2>5. \A q \in 1 .. i - 1 : Renamings(q) = {}
    BY <1>1 DEF IInv, GreedyOK
  <2>6. Renamings(r)' = {}
    BY <1>4, <1>5 DEF Renamings
  <2>7. \A q \in 1 .. i : Renamings(q)' = {}
    <3>1. ASSUME NEW q \in 1 .. i
          PROVE  Renamings(q)' = {}
      <4>1. CASE q = r
        BY <2>6, <4>1
      <4>2. CASE q # r
        BY <1>4, <2>1, <2>2, <2>5, <4>2
      <4> QED
        BY <4>1, <4>2
    <3> QED
      BY <3>1
  <2>8. i' - 1 = i
    BY <1>0, <1>1
  <2> QED
    BY <1>1, <2>4, <2>7, <2>8 DEF GreedyOK, Renamed
<1>10. PlainOK' /\ RecordedOK'
  BY <1>1 DEF IInv, PlainOK, RecordedOK, AfterRemoved, AfterAdded, Tallied, InTallies, SymbolEvents
<1> QED
  BY <1>6, <1>7, <1>8, <1>9, <1>10 DEF IInv

LEMMA NoRenameInv ==
  ASSUME IInv, NoRename
  PROVE  IInv'
<1>0. i \in Nat \ {0}
  BY Shapes
<1>1. /\ pc = "renames" /\ pc' = pc /\ i' = i + 1 /\ Renamings(i) = {}
      /\ UNCHANGED <<object, seen, events, counts, language>>
      /\ UNCHANGED <<removed, added, remUsed, addUsed, signatures, renamed, plain, recorded, massRename>>
  BY DEF NoRename, Round, typeVars, symbolVars
<1>2. TypeOK' /\ ObjectOK' /\ EarlyOK'
  BY <1>0, <1>1 DEF IInv, TypeOK, ObjectOK, EarlyOK, Early
<1>3. PairedOK'
  BY <1>1 DEF IInv, PairedOK
<1>4. GreedyOK'
  <2>1. \A q \in 1 .. i : q = i \/ q \in 1 .. i - 1
    BY <1>0
  <2>2. /\ \A q \in 1 .. i - 1 : Renamings(q) = {}
        /\ \A q \in DOMAIN removed : q \in remUsed \/ Candidates(q) = {}
    BY <1>1 DEF IInv, GreedyOK, Signed, Attributed, Typed
  <2>3. \A q : Candidates(q)' = Candidates(q) /\ Renamings(q)' = Renamings(q)
    BY <1>1 DEF Candidates, Renamings, Unpaired
  <2>4. \A q \in 1 .. i : Renamings(q)' = {}
    BY <1>1, <2>1, <2>2, <2>3
  <2>5. i' - 1 = i
    BY <1>0, <1>1
  <2> QED
    BY <1>1, <2>2, <2>3, <2>4, <2>5 DEF GreedyOK, Renamed
<1>5. PlainOK' /\ RecordedOK'
  BY <1>1 DEF IInv, PlainOK, RecordedOK, AfterRemoved, AfterAdded, Tallied, InTallies, SymbolEvents
<1> QED
  BY <1>2, <1>3, <1>4, <1>5 DEF IInv

LEMMA RecordRemovedInv ==
  ASSUME IInv, RecordRemoved
  PROVE  IInv'
<1>0. /\ Len(removed) \in Nat /\ i \in Nat \ {0} /\ plain \in Nat /\ recorded \in Nat /\ IsFiniteSet(remUsed)
      /\ InTallies("symbol_removed") \in Nat /\ InTallies("symbol_added") \in Nat
  BY Shapes, KindsAre DEF IInv, PairedOK
<1>1. /\ pc = "removed" /\ pc' = pc /\ i' = i + 1 /\ i <= Len(removed)
      /\ UNCHANGED <<object, seen, events, language, removed, added, remUsed, addUsed, signatures, renamed,
                     massRename>>
  BY DEF RecordRemoved, RecordPlain, Round, Rounds, typeVars
<1>2. /\ counts' \in [Tally -> Tallies] /\ recorded' \in Nat /\ plain' \in Nat
      /\ InTallies("symbol_removed")' = InTallies("symbol_removed") + (IF i \in remUsed THEN 0 ELSE 1)
      /\ plain' = plain + (IF i \in remUsed THEN 0 ELSE 1)
      /\ \A l \in SymbolKinds : l # "symbol_removed" => InTallies(l)' = InTallies(l)
      /\ recorded' = IF SymbolEvents' < EventCap THEN SymbolEvents' ELSE EventCap
  <2>1. CASE i \in remUsed
    <3>1. counts' = counts /\ recorded' = recorded /\ plain' = plain
      BY <2>1 DEF RecordRemoved, RecordPlain
    <3>2. \A l : InTallies(l)' = InTallies(l)
      BY <3>1 DEF InTallies
    <3>3. recorded' = IF SymbolEvents' < EventCap THEN SymbolEvents' ELSE EventCap
      BY <3>1, <3>2, Uncounted DEF IInv
    <3> QED
      BY <1>0, <2>1, <3>1, <3>2, <3>3 DEF IInv, TypeOK
  <2>2. CASE i \notin remUsed
    <3>1. PICK s : s = removed[i]
      OBVIOUS
    <3>2. Count(s, "symbol_removed") /\ plain' = plain + 1
      BY <2>2, <3>1 DEF RecordRemoved, RecordPlain
    <3>3. /\ counts' \in [Tally -> Tallies]
          /\ InTallies("symbol_removed")' = InTallies("symbol_removed") + 1
          /\ \A l \in SymbolKinds : l # "symbol_removed" => InTallies(l)' = InTallies(l)
          /\ recorded' \in Nat
          /\ recorded' = IF SymbolEvents' < EventCap THEN SymbolEvents' ELSE EventCap
      BY <3>2, CountOne, KindsAre DEF IInv
    <3> QED
      BY <1>0, <2>2, <3>2, <3>3
  <2> QED
    BY <2>1, <2>2
<1>3. TypeOK'
  BY <1>0, <1>1, <1>2 DEF IInv, TypeOK
<1>4. ObjectOK' /\ EarlyOK' /\ PairedOK'
  BY <1>1 DEF IInv, ObjectOK, EarlyOK, Early, PairedOK
<1>5. GreedyOK'
  <2>1. \A q : Candidates(q)' = Candidates(q) /\ Renamings(q)' = Renamings(q)
    BY <1>1 DEF Candidates, Renamings, Unpaired
  <2> QED
    BY <1>1, <2>1 DEF IInv, GreedyOK, Signed, Renamed, Attributed, Typed
<1>6. PlainOK'
  <2>1. InTallies("symbol_added")' = InTallies("symbol_added")
    BY <1>2, KindsAre
  <2>2. plain' = InTallies("symbol_removed")' + InTallies("symbol_added")'
    <3>1. plain = InTallies("symbol_removed") + InTallies("symbol_added")
      BY DEF IInv, PlainOK
    <3>2. CASE i \in remUsed
      BY <1>0, <1>2, <2>1, <3>1, <3>2
    <3>3. CASE i \notin remUsed
      BY <1>0, <1>2, <2>1, <3>1, <3>3
    <3> QED
      BY <3>2, <3>3
  <2>3. Counted(i, removed, remUsed, "symbol_removed")'
    <3>1. Counted(i, removed, remUsed, "symbol_removed")
      BY <1>1 DEF IInv, PlainOK
    <3>2. /\ Cardinality(remUsed \cap (1 .. i - 1)) \in Nat
          /\ Cardinality(remUsed \cap (1 .. i)) =
               Cardinality(remUsed \cap (1 .. i - 1)) + (IF i \in remUsed THEN 1 ELSE 0)
      <4>1. PICK U, n : U = remUsed /\ n = i
        OBVIOUS
      <4>2. /\ Cardinality(U \cap (1 .. n - 1)) \in Nat
            /\ Cardinality(U \cap (1 .. n)) =
                 Cardinality(U \cap (1 .. n - 1)) + (IF n \in U THEN 1 ELSE 0)
        BY <1>0, <4>1, UpTo
      <4> QED
        BY <4>1, <4>2
    <3>3. i' \in 1 .. Len(removed') + 1 /\ i' - 1 = i /\ remUsed' = remUsed
      BY <1>0, <1>1
    <3>4. InTallies("symbol_removed")' + Cardinality(remUsed \cap (1 .. i)) = i
      <4>1. InTallies("symbol_removed") + Cardinality(remUsed \cap (1 .. i - 1)) = i - 1
        BY <3>1 DEF Counted
      <4>2. CASE i \in remUsed
        BY <1>0, <1>2, <3>2, <4>1, <4>2
      <4>3. CASE i \notin remUsed
        BY <1>0, <1>2, <3>2, <4>1, <4>3
      <4> QED
        BY <4>2, <4>3
    <3> QED
      BY <3>3, <3>4 DEF Counted
  <2> QED
    BY <1>1, <2>1, <2>2, <2>3 DEF IInv, PlainOK, AfterRemoved, AfterAdded
<1>7. RecordedOK'
  BY <1>1, <1>2, KindsAre DEF IInv, RecordedOK, Tallied
<1> QED
  BY <1>3, <1>4, <1>5, <1>6, <1>7 DEF IInv

LEMMA RecordAddedInv ==
  ASSUME IInv, RecordAdded
  PROVE  IInv'
<1>0. /\ Len(added) \in Nat /\ i \in Nat \ {0} /\ plain \in Nat /\ recorded \in Nat /\ IsFiniteSet(addUsed)
      /\ InTallies("symbol_removed") \in Nat /\ InTallies("symbol_added") \in Nat
  BY Shapes, KindsAre DEF IInv, PairedOK
<1>1. /\ pc = "added" /\ pc' = pc /\ i' = i + 1 /\ i <= Len(added)
      /\ UNCHANGED <<object, seen, events, language, removed, added, remUsed, addUsed, signatures, renamed,
                     massRename>>
  BY DEF RecordAdded, RecordPlain, Round, Rounds, typeVars
<1>2. /\ counts' \in [Tally -> Tallies] /\ recorded' \in Nat /\ plain' \in Nat
      /\ InTallies("symbol_added")' = InTallies("symbol_added") + (IF i \in addUsed THEN 0 ELSE 1)
      /\ plain' = plain + (IF i \in addUsed THEN 0 ELSE 1)
      /\ \A l \in SymbolKinds : l # "symbol_added" => InTallies(l)' = InTallies(l)
      /\ recorded' = IF SymbolEvents' < EventCap THEN SymbolEvents' ELSE EventCap
  <2>1. CASE i \in addUsed
    <3>1. counts' = counts /\ recorded' = recorded /\ plain' = plain
      BY <2>1 DEF RecordAdded, RecordPlain
    <3>2. \A l : InTallies(l)' = InTallies(l)
      BY <3>1 DEF InTallies
    <3>3. recorded' = IF SymbolEvents' < EventCap THEN SymbolEvents' ELSE EventCap
      BY <3>1, <3>2, Uncounted DEF IInv
    <3> QED
      BY <1>0, <2>1, <3>1, <3>2, <3>3 DEF IInv, TypeOK
  <2>2. CASE i \notin addUsed
    <3>1. PICK s : s = added[i]
      OBVIOUS
    <3>2. Count(s, "symbol_added") /\ plain' = plain + 1
      BY <2>2, <3>1 DEF RecordAdded, RecordPlain
    <3>3. /\ counts' \in [Tally -> Tallies]
          /\ InTallies("symbol_added")' = InTallies("symbol_added") + 1
          /\ \A l \in SymbolKinds : l # "symbol_added" => InTallies(l)' = InTallies(l)
          /\ recorded' \in Nat
          /\ recorded' = IF SymbolEvents' < EventCap THEN SymbolEvents' ELSE EventCap
      BY <3>2, CountOne, KindsAre DEF IInv
    <3> QED
      BY <1>0, <2>2, <3>2, <3>3
  <2> QED
    BY <2>1, <2>2
<1>3. TypeOK'
  BY <1>0, <1>1, <1>2 DEF IInv, TypeOK
<1>4. ObjectOK' /\ EarlyOK' /\ PairedOK'
  BY <1>1 DEF IInv, ObjectOK, EarlyOK, Early, PairedOK
<1>5. GreedyOK'
  <2>1. \A q : Candidates(q)' = Candidates(q) /\ Renamings(q)' = Renamings(q)
    BY <1>1 DEF Candidates, Renamings, Unpaired
  <2> QED
    BY <1>1, <2>1 DEF IInv, GreedyOK, Signed, Renamed, Attributed, Typed
<1>6. PlainOK'
  <2>1. InTallies("symbol_removed")' = InTallies("symbol_removed")
    BY <1>2, KindsAre
  <2>2. plain' = InTallies("symbol_removed")' + InTallies("symbol_added")'
    <3>1. plain = InTallies("symbol_removed") + InTallies("symbol_added")
      BY DEF IInv, PlainOK
    <3>2. CASE i \in addUsed
      BY <1>0, <1>2, <2>1, <3>1, <3>2
    <3>3. CASE i \notin addUsed
      BY <1>0, <1>2, <2>1, <3>1, <3>3
    <3> QED
      BY <3>2, <3>3
  <2>3. Counted(i, added, addUsed, "symbol_added")'
    <3>1. Counted(i, added, addUsed, "symbol_added")
      BY <1>1 DEF IInv, PlainOK
    <3>2. /\ Cardinality(addUsed \cap (1 .. i - 1)) \in Nat
          /\ Cardinality(addUsed \cap (1 .. i)) =
               Cardinality(addUsed \cap (1 .. i - 1)) + (IF i \in addUsed THEN 1 ELSE 0)
      <4>1. PICK U, n : U = addUsed /\ n = i
        OBVIOUS
      <4>2. /\ Cardinality(U \cap (1 .. n - 1)) \in Nat
            /\ Cardinality(U \cap (1 .. n)) =
                 Cardinality(U \cap (1 .. n - 1)) + (IF n \in U THEN 1 ELSE 0)
        BY <1>0, <4>1, UpTo
      <4> QED
        BY <4>1, <4>2
    <3>3. i' \in 1 .. Len(added') + 1 /\ i' - 1 = i /\ addUsed' = addUsed
      BY <1>0, <1>1
    <3>4. InTallies("symbol_added")' + Cardinality(addUsed \cap (1 .. i)) = i
      <4>1. InTallies("symbol_added") + Cardinality(addUsed \cap (1 .. i - 1)) = i - 1
        BY <3>1 DEF Counted
      <4>2. CASE i \in addUsed
        BY <1>0, <1>2, <3>2, <4>1, <4>2
      <4>3. CASE i \notin addUsed
        BY <1>0, <1>2, <3>2, <4>1, <4>3
      <4> QED
        BY <4>2, <4>3
    <3> QED
      BY <3>3, <3>4 DEF Counted
  <2>4. Counted(Len(removed) + 1, removed, remUsed, "symbol_removed")'
    <3>1. Counted(Len(removed) + 1, removed, remUsed, "symbol_removed")
      BY <1>1 DEF IInv, PlainOK, AfterRemoved
    <3> QED
      BY <1>1, <2>1, <3>1 DEF Counted
  <2> QED
    BY <1>1, <2>1, <2>2, <2>3, <2>4 DEF IInv, PlainOK, AfterRemoved, AfterAdded
<1>7. RecordedOK'
  BY <1>1, <1>2, KindsAre DEF IInv, RecordedOK, Tallied
<1> QED
  BY <1>3, <1>4, <1>5, <1>6, <1>7 DEF IInv

LEMMA TallyRenamesInv ==
  ASSUME IInv, TallyRenames
  PROVE  IInv'
<1>0. renamed \in Nat /\ i \in Nat \ {0} /\ "symbol_version_renamed" \in ChangeKind
  BY Shapes, KindsAre
<1>1. /\ pc = "mass" /\ pc' = "changed" /\ i' = i
      /\ UNCHANGED <<object, seen, events, language, removed, added, remUsed, addUsed, signatures,
                     renamed, plain, recorded>>
      /\ massRename' = IsMassRename
  BY DEF TallyRenames, typeVars
<1>2. /\ counts' \in [Tally -> Tallies]
      /\ \A u \in Tally, l \in ChangeKind :
           counts'[u][l] = IF u = "public" /\ l = "symbol_version_renamed"
                           THEN counts["public"][l] + renamed ELSE counts[u][l]
  <2>1. counts \in [Tally -> Tallies] /\ counts["public"] \in Tallies /\ "public" \in Tally
    BY DEF TypeOK, IInv, Tally
  <2>2. PICK c : c = Add(counts["public"], "symbol_version_renamed", renamed)
    OBVIOUS
  <2>3. /\ c \in Tallies
        /\ \A l \in ChangeKind :
             c[l] = IF l = "symbol_version_renamed" THEN counts["public"][l] + renamed ELSE counts["public"][l]
    <3>1. PICK b, k, n : b = counts["public"] /\ k = "symbol_version_renamed" /\ n = renamed
      OBVIOUS
    <3>2. c \in Tallies /\ \A l \in ChangeKind : c[l] = IF l = k THEN b[k] + n ELSE b[l]
      BY <1>0, <2>1, <2>2, <3>1, AddIs
    <3> QED
      BY <3>1, <3>2
  <2>4. counts' = [counts EXCEPT !["public"] = c]
    BY <2>2 DEF TallyRenames
  <2> QED
    BY <2>1, <2>3, <2>4
<1>3. /\ \A l \in SymbolKinds : l # "symbol_version_renamed" => InTallies(l)' = InTallies(l)
      /\ InTallies("symbol_version_renamed")' = InTallies("symbol_version_renamed") + renamed
  <2>1. "public" \in Tally /\ "private_node" \in Tally
    BY DEF Tally
  <2>2. \A l \in SymbolKinds : l # "symbol_version_renamed" => InTallies(l)' = InTallies(l)
    BY <1>2, <2>1, KindsAre DEF InTallies
  <2>3. /\ counts["public"]["symbol_version_renamed"] \in Nat
        /\ counts["private_node"]["symbol_version_renamed"] \in Nat
    BY <1>0, TalliesAre DEF IInv
  <2>4. InTallies("symbol_version_renamed")' = InTallies("symbol_version_renamed") + renamed
    BY <1>0, <1>2, <2>1, <2>3 DEF InTallies
  <2> QED
    BY <2>2, <2>4
<1>4. massRename' \in BOOLEAN /\ IsMassRename' = IsMassRename
  BY <1>1 DEF IsMassRename
<1>5. TypeOK'
  BY <1>0, <1>1, <1>2, <1>4 DEF IInv, TypeOK, Pcs
<1>6. ObjectOK' /\ EarlyOK' /\ PairedOK'
  BY <1>1 DEF IInv, ObjectOK, EarlyOK, Early, PairedOK
<1>7. GreedyOK'
  <2>1. \A q : Candidates(q)' = Candidates(q) /\ Renamings(q)' = Renamings(q)
    BY <1>1 DEF Candidates, Renamings, Unpaired
  <2> QED
    BY <1>1, <2>1 DEF IInv, GreedyOK, Signed, Renamed, Attributed, Typed
<1>8. PlainOK'
  BY <1>1, <1>3, KindsAre DEF IInv, PlainOK, AfterRemoved, AfterAdded, Counted
<1>9. RecordedOK'
  <2>1. InTallies("symbol_version_renamed") = 0
    BY <1>1 DEF IInv, RecordedOK, Tallied
  <2>2. SymbolEvents' = SymbolEvents
    BY <1>3, KindsAre DEF SymbolEvents
  <2> QED
    BY <1>0, <1>1, <1>3, <1>4, <2>1, <2>2 DEF IInv, RecordedOK, Tallied
<1> QED
  BY <1>5, <1>6, <1>7, <1>8, <1>9 DEF IInv

LEMMA RecordChangedInv ==
  ASSUME IInv, RecordChanged
  PROVE  IInv'
<1>0. i \in Nat \ {0} /\ recorded \in Nat
  BY Shapes
<1>1. /\ pc = "changed" /\ pc' = pc /\ i' = i + 1
      /\ UNCHANGED <<object, seen, events, language, removed, added, remUsed, addUsed, signatures, renamed,
                     plain, massRename>>
  BY DEF RecordChanged, Round, typeVars
<1>2. /\ counts' \in [Tally -> Tallies] /\ recorded' \in Nat
      /\ \A l \in SymbolKinds : l # "function_signature_changed" => InTallies(l)' = InTallies(l)
      /\ recorded' = IF SymbolEvents' < EventCap THEN SymbolEvents' ELSE EventCap
  <2>1. CASE object.changed[i].signature
    <3>1. PICK s : s = object.changed[i]
      OBVIOUS
    <3>2. Count(s, "function_signature_changed")
      BY <2>1, <3>1 DEF RecordChanged
    <3> QED
      BY <3>2, CountOne, KindsAre DEF IInv
  <2>2. CASE ~object.changed[i].signature
    <3>1. counts' = counts /\ recorded' = recorded
      BY <2>2 DEF RecordChanged
    <3>2. \A l : InTallies(l)' = InTallies(l)
      BY <3>1 DEF InTallies
    <3>3. recorded' = IF SymbolEvents' < EventCap THEN SymbolEvents' ELSE EventCap
      BY <3>1, <3>2, Uncounted DEF IInv
    <3> QED
      BY <1>0, <3>1, <3>2, <3>3 DEF IInv, TypeOK
  <2> QED
    BY <2>1, <2>2
<1>3. TypeOK'
  BY <1>0, <1>1, <1>2 DEF IInv, TypeOK
<1>4. ObjectOK' /\ EarlyOK' /\ PairedOK'
  BY <1>1 DEF IInv, ObjectOK, EarlyOK, Early, PairedOK
<1>5. GreedyOK'
  <2>1. \A q : Candidates(q)' = Candidates(q) /\ Renamings(q)' = Renamings(q)
    BY <1>1 DEF Candidates, Renamings, Unpaired
  <2> QED
    BY <1>1, <2>1 DEF IInv, GreedyOK, Signed, Renamed, Attributed, Typed
<1>6. PlainOK'
  BY <1>1, <1>2, KindsAre DEF IInv, PlainOK, AfterRemoved, AfterAdded, Counted
<1>7. RecordedOK'
  BY <1>1, <1>2, KindsAre DEF IInv, RecordedOK, Tallied, IsMassRename
<1> QED
  BY <1>3, <1>4, <1>5, <1>6, <1>7 DEF IInv

LEMMA UnchangedInv ==
  ASSUME IInv, UNCHANGED vars
  PROVE  IInv'
<1>1. /\ UNCHANGED <<object, pc, i, seen, events, counts, language>>
      /\ UNCHANGED <<removed, added, remUsed, addUsed, signatures, renamed, plain, recorded, massRename>>
  BY DEF vars
<1>2. TypeOK' /\ ObjectOK' /\ EarlyOK' /\ PairedOK'
  BY <1>1 DEF IInv, TypeOK, ObjectOK, EarlyOK, Early, PairedOK
<1>3. GreedyOK'
  BY <1>1 DEF IInv, GreedyOK, Signed, Renamed, Attributed, Typed, Candidates, Renamings, Unpaired
<1>4. PlainOK' /\ RecordedOK'
  BY <1>1 DEF IInv, PlainOK, RecordedOK, AfterRemoved, AfterAdded, Counted, Tallied, InTallies,
              SymbolEvents, IsMassRename
<1> QED
  BY <1>2, <1>3, <1>4 DEF IInv

(***************************************************************************)
(* The theorems.                                                           *)
(***************************************************************************)
LEMMA InitInv == ASSUME Init PROVE IInv
<1>1. /\ object \in Objects /\ pc = "load" /\ i = 1 /\ seen = {} /\ events = <<>>
      /\ counts = [t \in Tally |-> NoCounts] /\ language = "unknown"
      /\ removed = <<>> /\ added = <<>> /\ remUsed = {} /\ addUsed = {}
      /\ signatures = 0 /\ renamed = 0 /\ plain = 0 /\ recorded = 0 /\ massRename = FALSE
  BY DEF Init
<1>2. TypeOK
  <2>1. counts \in [Tally -> Tallies]
    BY <1>1 DEF Tallies, NoCounts
  <2>2. removed \in Seq(Symbol) /\ added \in Seq(Symbol) /\ events \in Seq(Event)
    BY <1>1
  <2>3. massRename \in BOOLEAN
    BY <1>1
  <2>4. /\ pc \in Pcs /\ i \in Nat \ {0} /\ seen \subseteq Types
        /\ language \in {"unknown", "c", "cxx"}
        /\ remUsed \subseteq DOMAIN removed /\ addUsed \subseteq DOMAIN added
        /\ {signatures, renamed, plain, recorded} \subseteq Nat
    BY <1>1 DEF Pcs
  <2> QED
    BY <2>1, <2>2, <2>3, <2>4 DEF TypeOK
<1>3. \A k \in ChangeKind : InTallies(k) = 0
  BY <1>1 DEF InTallies, NoCounts, Tally
<1>4. ObjectOK /\ EarlyOK
  BY <1>1 DEF ObjectOK, EarlyOK
<1>5. PairedOK
  BY <1>1, FS_EmptySet DEF PairedOK
<1>6. GreedyOK
  BY <1>1 DEF GreedyOK, Signed, Renamed, Attributed, Typed
<1>7. PlainOK /\ RecordedOK
  BY <1>1, <1>3, KindsAre, CompareAssumption
     DEF PlainOK, RecordedOK, AfterRemoved, AfterAdded, Tallied, SymbolEvents
<1> QED
  BY <1>2, <1>4, <1>5, <1>6, <1>7 DEF IInv

\* The state has its types, and the invariants of the loops hold.
THEOREM CompareInvariance == Spec => []IInv
<1>1. Init => IInv
  BY InitInv
<1>2. IInv /\ [Next]_vars => IInv'
  BY LoadInv, VisitInv, AttributeInv, CollectInv, EndLoopInv, PairSignatureInv, NoSignatureInv,
     PairRenameInv, NoRenameInv, RecordRemovedInv, RecordAddedInv, TallyRenamesInv, RecordChangedInv,
     UnchangedInv DEF Next, Ended
<1> QED
  BY <1>1, <1>2, PTL DEF Spec

\* In a finished comparison every symbol is accounted for.
LEMMA AllAccounted ==
  ASSUME IInv, AfterAdded
  PROVE  /\ Len(removed) = signatures + renamed + InTallies("symbol_removed")
         /\ Len(added) = signatures + renamed + InTallies("symbol_added")
         /\ plain = InTallies("symbol_removed") + InTallies("symbol_added")
<1>0. /\ Len(removed) \in Nat /\ Len(added) \in Nat /\ signatures \in Nat /\ renamed \in Nat
      /\ InTallies("symbol_removed") \in Nat /\ InTallies("symbol_added") \in Nat
      /\ remUsed \subseteq 1 .. Len(removed) /\ addUsed \subseteq 1 .. Len(added)
  BY Shapes, KindsAre
<1>1. /\ InTallies("symbol_removed") + Cardinality(remUsed \cap (1 .. Len(removed) + 1 - 1)) = Len(removed) + 1 - 1
      /\ InTallies("symbol_added") + Cardinality(addUsed \cap (1 .. Len(added) + 1 - 1)) = Len(added) + 1 - 1
      /\ plain = InTallies("symbol_removed") + InTallies("symbol_added")
  BY DEF IInv, PlainOK, AfterAdded, AfterRemoved, Counted
<1>2. Len(removed) + 1 - 1 = Len(removed) /\ Len(added) + 1 - 1 = Len(added)
  BY <1>0
<1>3. remUsed \cap (1 .. Len(removed)) = remUsed /\ addUsed \cap (1 .. Len(added)) = addUsed
  BY <1>0
<1>4. /\ InTallies("symbol_removed") + Cardinality(remUsed) = Len(removed)
      /\ InTallies("symbol_added") + Cardinality(addUsed) = Len(added)
  BY <1>1, <1>2, <1>3
<1>5. Cardinality(remUsed) = signatures + renamed /\ Cardinality(addUsed) = signatures + renamed
  BY DEF IInv, PairedOK
<1>6. Len(removed) = signatures + renamed + InTallies("symbol_removed")
  BY <1>0, <1>4, <1>5
<1>7. Len(added) = signatures + renamed + InTallies("symbol_added")
  BY <1>0, <1>4, <1>5
<1> QED
  BY <1>1, <1>6, <1>7

\* Every symbol of one side only is accounted for exactly once, and the symbol events kept are all
\* of them up to the cap (compare.cpp:459-571).
THEOREM EverySymbolCounts == Spec => []SymbolsConserved
<1>1. IInv => SymbolsConserved
  <2> SUFFICES ASSUME IInv, pc = "done" PROVE SymbolsConserved
    BY DEF SymbolsConserved
  <2>1. AfterAdded /\ Tallied
    BY DEF AfterAdded, Tallied
  <2>2. RecordedOK
    BY DEF IInv
  <2> QED
    BY <2>1, <2>2, AllAccounted DEF RecordedOK, SymbolEvents, SymbolsConserved
<1> QED
  BY <1>1, CompareInvariance, PTL

\* The greedy pairing leaves no two symbols that it could still pair (compare.cpp:468-517).
THEOREM PairingIsMaximal == Spec => []NothingLeftToPair
<1>1. IInv => NothingLeftToPair
  <2> SUFFICES ASSUME IInv PROVE NothingLeftToPair
    OBVIOUS
  <2>1. Signed => \A r \in DOMAIN removed \ remUsed : Candidates(r) = {}
    BY DEF IInv, GreedyOK
  <2>2. Renamed => \A r \in DOMAIN removed : Renamings(r) = {}
    BY DEF IInv, GreedyOK
  <2>3. Renamed => \A r \in DOMAIN removed, j \in DOMAIN added :
                     Blind(removed[r]) = Blind(added[j]) => r \in remUsed \/ j \in addUsed
    BY <2>2 DEF Renamings, Unpaired
  <2> QED
    BY <2>1, <2>3 DEF NothingLeftToPair
<1> QED
  BY <1>1, CompareInvariance, PTL

\* A mass rename renames at least as many symbols as are removed and added otherwise (compare.cpp:539).
THEOREM MassRenameIsMost == Spec => []MassRenameMeansMost
<1>1. IInv => MassRenameMeansMost
  <2> SUFFICES ASSUME IInv, massRename PROVE MassRenameMeansMost
    BY DEF MassRenameMeansMost
  <2>0. /\ Len(removed) \in Nat /\ Len(added) \in Nat /\ signatures \in Nat /\ renamed \in Nat
        /\ MassRenameMin \in Nat
        /\ InTallies("symbol_removed") \in Nat /\ InTallies("symbol_added") \in Nat
    BY Shapes, KindsAre
  <2>1. AfterAdded /\ renamed >= MassRenameMin /\ renamed >= plain
    BY DEF IInv, RecordedOK, Tallied, AfterAdded, IsMassRename
  <2>2. 3 * renamed + 2 * signatures >= Len(removed) + Len(added)
    BY <2>0, <2>1, AllAccounted
  <2> QED
    BY <2>1, <2>2 DEF MassRenameMeansMost
<1> QED
  BY <1>1, CompareInvariance, PTL

(***************************************************************************)
(* What the type events come to, type by type and kind by kind.            *)
(***************************************************************************)
Amount(s, t, k) == Total(s, Of(s, t, k))
About(s, T) == \A n \in DOMAIN s : s[n].type \in T

\* The entries of a sequence of events are finitely many, with counts of their own.
LEMMA Entries ==
  ASSUME NEW s \in Seq(Event), NEW S \in SUBSET DOMAIN s, NEW f, f = [n \in DOMAIN s |-> s[n].count]
  PROVE  IsFiniteSet(S) /\ (\A n \in S : f[n] \in Nat /\ f[n] = s[n].count) /\ Total(s, S) \in Nat
<1>1. IsFiniteSet(DOMAIN s)
  BY FS_Interval
<1>2. IsFiniteSet(S)
  BY <1>1, FS_Subset
<1>3. ASSUME NEW n \in S PROVE f[n] \in Nat /\ f[n] = s[n].count
  <2>1. s[n] \in Event
    OBVIOUS
  <2> QED
    BY <2>1 DEF Event
<1>4. SumFunctionOnSet(f, S) \in Nat
  BY <1>2, <1>3, SumNat
<1> QED
  BY <1>2, <1>3, <1>4 DEF Total

LEMMA AmountAppend ==
  ASSUME NEW s \in Seq(Event), NEW e \in Event, NEW t, NEW k
  PROVE  /\ Append(s, e) \in Seq(Event)
         /\ Amount(Append(s, e), t, k) =
              Amount(s, t, k) + (IF e.type = t /\ e.kind = k THEN e.count ELSE 0)
<1>1. PICK u, l : u = Append(s, e) /\ l = Len(s) + 1
  OBVIOUS
<1>2. /\ u \in Seq(Event) /\ DOMAIN u = DOMAIN s \cup {l} /\ l \notin DOMAIN s
      /\ u[l] = e /\ \A n \in DOMAIN s : u[n] = s[n]
  BY <1>1
<1>3. PICK f, g : f = [n \in DOMAIN s |-> s[n].count] /\ g = [n \in DOMAIN u |-> u[n].count]
  OBVIOUS
<1>4. Of(s, t, k) \in SUBSET DOMAIN s /\ Of(u, t, k) \in SUBSET DOMAIN u
  BY DEF Of
<1>5. /\ IsFiniteSet(Of(s, t, k)) /\ \A n \in Of(s, t, k) : f[n] \in Nat /\ f[n] = s[n].count
      /\ \A n \in Of(u, t, k) : g[n] \in Nat /\ g[n] = u[n].count
      /\ Total(s, Of(s, t, k)) \in Nat
  BY <1>2, <1>3, <1>4, Entries
<1>6. \A n \in Of(s, t, k) : g[n] \in Nat /\ g[n] = f[n]
  BY <1>2, <1>3, <1>5 DEF Of
<1>7. SumFunctionOnSet(g, Of(s, t, k)) = SumFunctionOnSet(f, Of(s, t, k))
  BY <1>5, <1>6, SumSame
<1>8. CASE e.type = t /\ e.kind = k
  <2>1. Of(u, t, k) = Of(s, t, k) \cup {l} /\ l \notin Of(s, t, k)
    BY <1>2, <1>8 DEF Of
  <2>2. \A n \in Of(s, t, k) \cup {l} : g[n] \in Int
    BY <1>5, <2>1
  <2>3. SumFunctionOnSet(g, Of(u, t, k)) = g[l] + SumFunctionOnSet(g, Of(s, t, k))
    BY <1>5, <2>1, <2>2, SumAdd
  <2>4. g[l] = e.count /\ e.count \in Nat
    BY <1>2, <1>3, <1>8 DEF Event
  <2>5. Amount(u, t, k) = Amount(s, t, k) + e.count
    BY <1>3, <1>5, <1>7, <2>3, <2>4 DEF Amount, Total
  <2> QED
    BY <1>1, <1>2, <1>8, <2>5
<1>9. CASE ~(e.type = t /\ e.kind = k)
  <2>1. Of(u, t, k) = Of(s, t, k)
    BY <1>2, <1>9 DEF Of
  <2>2. Amount(u, t, k) = Amount(s, t, k) /\ Amount(s, t, k) \in Nat
    BY <1>3, <1>5, <1>7, <2>1 DEF Amount, Total
  <2> QED
    BY <1>1, <1>2, <1>9, <2>2
<1> QED
  BY <1>8, <1>9

\* u is s and n events of kind kk about d's type.
Extends(s, u, d, kk, n, t, k) ==
  /\ u \in Seq(Event)
  /\ Amount(u, t, k) = Amount(s, t, k) + (IF t = d.type /\ k = kk THEN n ELSE 0)
  /\ \A T : About(s, T) /\ d.type \in T => About(u, T)

LEMMA EmitAmount ==
  ASSUME NEW s \in Seq(Event), NEW d, TypeDiff(d), NEW kk \in ChangeKind \ SymbolKinds,
         NEW n \in Nat, NEW t, NEW k, NEW e, e = Emit(kk, d, n), NEW u, u = s \o e
  PROVE  Extends(s, u, d, kk, n, t, k)
<1>0. Amount(s, t, k) \in Nat
  <2>1. Of(s, t, k) \in SUBSET DOMAIN s
    BY DEF Of
  <2> QED
    BY <2>1, Entries DEF Amount
<1>1. CASE n = 0
  <2>1. u = s
    BY <1>1 DEF Emit
  <2>2. (IF t = d.type /\ k = kk THEN n ELSE 0) = 0
    BY <1>1
  <2> QED
    BY <1>0, <2>1, <2>2 DEF Extends
<1>2. CASE n # 0
  <2>1. PICK x : x = [kind |-> kk, type |-> d.type, declared |-> d.declared, count |-> n]
    OBVIOUS
  <2>2. x \in Event /\ x.type = d.type /\ x.kind = kk /\ x.count = n
    BY <2>1 DEF Event, TypeDiff
  <2>3. u = Append(s, x)
    BY <1>2, <2>1, <2>2 DEF Emit
  <2>4. /\ Append(s, x) \in Seq(Event)
        /\ Amount(Append(s, x), t, k) =
             Amount(s, t, k) + (IF x.type = t /\ x.kind = k THEN x.count ELSE 0)
    BY <2>2, AmountAppend
  <2>5. (IF x.type = t /\ x.kind = k THEN x.count ELSE 0) = (IF t = d.type /\ k = kk THEN n ELSE 0)
    BY <2>2
  <2>6. \A T : About(s, T) /\ d.type \in T => About(Append(s, x), T)
    BY <2>2 DEF About
  <2> QED
    BY <2>3, <2>4, <2>5, <2>6 DEF Extends
<1> QED
  BY <1>1, <1>2

(***************************************************************************)
(* The events of one visit.                                                *)
(***************************************************************************)
\* What the library's split of the members comes to, and what was added and taken away.
LEMMA MembersCounted ==
  ASSUME NEW d, TypeDiff(d), d.kind \in {"class", "union"}
  PROVE  /\ TypesChanged(d) \in Nat /\ Expected(d, "field_type_changed") = TypesChanged(d)
         /\ OffsetsChanged(d) \in Nat /\ Expected(d, "member_offset_changed") = OffsetsChanged(d)
         /\ Cardinality(DOMAIN d.second \ DOMAIN d.first) \in Nat
         /\ Expected(d, "field_added_to_struct") = Cardinality(DOMAIN d.second \ DOMAIN d.first)
         /\ Cardinality(DOMAIN d.first \ DOMAIN d.second) \in Nat
         /\ Expected(d, "field_removed_from_struct") = Cardinality(DOMAIN d.first \ DOMAIN d.second)
<1>1. PICK C, R, A, B : C = Common(d) /\ R = d.reported /\ A = DOMAIN d.first /\ B = DOMAIN d.second
  OBVIOUS
<1>2. /\ C = A \cap B /\ R \subseteq C /\ A \subseteq Members /\ B \subseteq Members
      /\ \A m \in C : d.first[m].type # d.second[m].type => m \in R
  BY <1>1 DEF TypeDiff, Common
<1>3. \A S : S \subseteq Members => IsFiniteSet(S) /\ Cardinality(S) \in Nat
  BY CompareAssumption, FS_Subset, FS_CardinalityType
<1>4. TypesChanged(d) \in Nat /\ Expected(d, "field_type_changed") = TypesChanged(d)
  <2>1. {m \in R : d.first[m].type # d.second[m].type} = {m \in C : d.first[m].type # d.second[m].type}
    BY <1>2
  <2>2. TypesChanged(d) = Cardinality({m \in C : d.first[m].type # d.second[m].type})
    BY <1>1, <2>1 DEF TypesChanged
  <2>3. {m \in C : d.first[m].type # d.second[m].type} \subseteq Members
    BY <1>2
  <2>4. Expected(d, "field_type_changed") = Cardinality({m \in C : d.first[m].type # d.second[m].type})
    BY <1>1 DEF Expected
  <2> QED
    BY <1>3, <2>2, <2>3, <2>4
<1>5. OffsetsChanged(d) \in Nat /\ Expected(d, "member_offset_changed") = OffsetsChanged(d)
  <2>1. PICK X, Y : X = Moved(d, R) /\ Y = Moved(d, C \ R)
    OBVIOUS
  <2>2. X \cap Y = {} /\ X \subseteq Members /\ Y \subseteq Members
    BY <1>2, <2>1 DEF Moved
  <2>3. PICK Z : Z = {m \in C : d.first[m].offset # d.second[m].offset}
    OBVIOUS
  <2>4. Cardinality(X \cup Y) = Cardinality(X) + Cardinality(Y) /\ Cardinality(X) \in Nat /\ Cardinality(Y) \in Nat
    <3>1. IsFiniteSet(X) /\ IsFiniteSet(Y) /\ Cardinality(X) \in Nat /\ Cardinality(Y) \in Nat
      BY <1>3, <2>2
    <3>2. Cardinality(X \cup Y) = Cardinality(X) + Cardinality(Y) - Cardinality({})
      BY <2>2, <3>1, FS_Union
    <3> QED
      BY <3>1, <3>2, FS_EmptySet
  <2>5. OffsetsChanged(d) = Cardinality(X) + Cardinality(Y)
    BY <1>1, <2>1 DEF OffsetsChanged
  <2>6. Expected(d, "member_offset_changed") = Cardinality(Z)
    BY <1>1, <2>3 DEF Expected
  <2>7. Z = X \cup Y
    BY <1>2, <2>1, <2>3 DEF Moved
  <2> QED
    BY <2>4, <2>5, <2>6, <2>7
<1>6. /\ Cardinality(B \ A) \in Nat
      /\ Expected(d, "field_added_to_struct") = Cardinality(B \ A)
  <2>1. Cardinality(B \ A) = Cardinality(B) - Cardinality(B \cap A)
    BY <1>2, <1>3, FS_Difference
  <2>2. B \cap A = C /\ B \ A \subseteq Members
    BY <1>2
  <2>3. Expected(d, "field_added_to_struct") = Cardinality(B) - Cardinality(C)
    BY <1>1 DEF Expected
  <2> QED
    BY <1>3, <2>1, <2>2, <2>3
<1>7. /\ Cardinality(A \ B) \in Nat
      /\ Expected(d, "field_removed_from_struct") = Cardinality(A \ B)
  <2>1. Cardinality(A \ B) = Cardinality(A) - Cardinality(A \cap B)
    BY <1>2, <1>3, FS_Difference
  <2>2. A \cap B = C /\ A \ B \subseteq Members
    BY <1>2
  <2>3. Expected(d, "field_removed_from_struct") = Cardinality(A) - Cardinality(C)
    BY <1>1 DEF Expected
  <2> QED
    BY <1>3, <2>1, <2>2, <2>3
<1> QED
  BY <1>1, <1>4, <1>5, <1>6, <1>7

Deduped == MemberKinds \cup EnumKinds

\* Two pieces, one after the other.
Cat(u, s, a) == u = s \o a
LEMMA Pieces ==
  ASSUME NEW s \in Seq(Event), NEW a \in Seq(Event), NEW b \in Seq(Event),
         NEW u, Cat(u, s, a), NEW v, Cat(v, u, b), NEW c, Cat(c, a, b)
  PROVE  c \in Seq(Event) /\ Cat(v, s, c)
BY ConcatProperties, ConcatAssociative DEF Cat

LEMMA LayoutAmount ==
  ASSUME NEW s \in Seq(Event), NEW d, TypeDiff(d), d.kind \in {"class", "union"},
         NEW t, NEW k \in Deduped
  PROVE  /\ s \o LayoutEvents(d) \in Seq(Event)
         /\ Amount(s \o LayoutEvents(d), t, k) =
              Amount(s, t, k) + (IF t = d.type THEN Expected(d, k) ELSE 0)
         /\ \A T : About(s, T) /\ d.type \in T => About(s \o LayoutEvents(d), T)
<1>1. PICK n1, n2, n3, n4, n5 :
        /\ n1 = Cardinality(DOMAIN d.second \ DOMAIN d.first)
        /\ n2 = Cardinality(DOMAIN d.first \ DOMAIN d.second)
        /\ n3 = TypesChanged(d) /\ n4 = OffsetsChanged(d) /\ n5 = IF d.resized THEN 1 ELSE 0
  OBVIOUS
<1>2. n1 \in Nat /\ n2 \in Nat /\ n3 \in Nat /\ n4 \in Nat /\ n5 \in Nat
  BY <1>1, MembersCounted
<1>3. PICK e1, e2, e3, e4, e5 :
        /\ e1 = Emit("field_added_to_struct", d, n1)
        /\ e2 = Emit("field_removed_from_struct", d, n2)
        /\ e3 = Emit("field_type_changed", d, n3)
        /\ e4 = Emit("member_offset_changed", d, n4)
        /\ e5 = Emit("type_size_changed", d, n5)
  OBVIOUS
<1>4. e1 \in Seq(Event) /\ e2 \in Seq(Event) /\ e3 \in Seq(Event) /\ e4 \in Seq(Event) /\ e5 \in Seq(Event)
  BY <1>2, <1>3, EmitTyped, KindsAre
<1>5. PICK s1, s2, s3, s4, s5 :
        s1 = s \o e1 /\ s2 = s1 \o e2 /\ s3 = s2 \o e3 /\ s4 = s3 \o e4 /\ s5 = s4 \o e5
  OBVIOUS
<1>s. s1 \in Seq(Event) /\ s2 \in Seq(Event) /\ s3 \in Seq(Event) /\ s4 \in Seq(Event)
  BY <1>4, <1>5, ConcatProperties
<1>6. Extends(s, s1, d, "field_added_to_struct", n1, t, k)
  BY <1>2, <1>3, <1>5, EmitAmount, KindsAre
<1>7. Extends(s1, s2, d, "field_removed_from_struct", n2, t, k)
  BY <1>2, <1>3, <1>5, <1>s, EmitAmount, KindsAre
<1>8. Extends(s2, s3, d, "field_type_changed", n3, t, k)
  BY <1>2, <1>3, <1>5, <1>s, EmitAmount, KindsAre
<1>9. Extends(s3, s4, d, "member_offset_changed", n4, t, k)
  BY <1>2, <1>3, <1>5, <1>s, EmitAmount, KindsAre
<1>10. Extends(s4, s5, d, "type_size_changed", n5, t, k)
  BY <1>2, <1>3, <1>5, <1>s, EmitAmount, KindsAre
<1>11. s5 = s \o LayoutEvents(d)
  <2>1. PICK c2, c3, c4, c5 : Cat(c2, e1, e2) /\ Cat(c3, c2, e3) /\ Cat(c4, c3, e4) /\ Cat(c5, c4, e5)
    BY DEF Cat
  <2>0. Cat(s1, s, e1) /\ Cat(s2, s1, e2) /\ Cat(s3, s2, e3) /\ Cat(s4, s3, e4) /\ Cat(s5, s4, e5)
    BY <1>5 DEF Cat
  <2>2. c2 \in Seq(Event) /\ Cat(s2, s, c2)
    BY <1>4, <2>0, <2>1, Pieces
  <2>3. c3 \in Seq(Event) /\ Cat(s3, s, c3)
    BY <1>4, <2>0, <2>1, <2>2, Pieces
  <2>4. c4 \in Seq(Event) /\ Cat(s4, s, c4)
    BY <1>4, <2>0, <2>1, <2>3, Pieces
  <2>5. Cat(s5, s, c5)
    BY <1>4, <2>0, <2>1, <2>4, Pieces
  <2>6. LayoutEvents(d) = c5
    BY <1>1, <1>3, <2>1 DEF LayoutEvents, Cat
  <2> QED
    BY <2>5, <2>6 DEF Cat
<1>12. Amount(s5, t, k) = Amount(s, t, k) + (IF t = d.type THEN Expected(d, k) ELSE 0)
  <2>1. Amount(s, t, k) \in Nat
    <3>1. Of(s, t, k) \in SUBSET DOMAIN s
      BY DEF Of
    <3> QED
      BY <3>1, Entries DEF Amount
  <2>2. PICK a, a1, a2, a3, a4, a5 :
          /\ a = Amount(s, t, k) /\ a1 = Amount(s1, t, k) /\ a2 = Amount(s2, t, k)
          /\ a3 = Amount(s3, t, k) /\ a4 = Amount(s4, t, k) /\ a5 = Amount(s5, t, k)
    OBVIOUS
  <2>3. CASE t # d.type
    <3>1. a1 = a + 0 /\ a2 = a1 + 0 /\ a3 = a2 + 0 /\ a4 = a3 + 0 /\ a5 = a4 + 0
      BY <2>2, <2>3, <1>6, <1>7, <1>8, <1>9, <1>10 DEF Extends
    <3>2. a5 = a + 0
      BY <2>1, <2>2, <3>1
    <3> QED
      BY <2>2, <2>3, <3>2
  <2>4. CASE t = d.type
    <3>1. PICK x : x = Expected(d, k)
      OBVIOUS
    <3>2. /\ k = "field_added_to_struct" => x = n1
          /\ k = "field_removed_from_struct" => x = n2
          /\ k = "field_type_changed" => x = n3
          /\ k = "member_offset_changed" => x = n4
      BY <1>1, <3>1, MembersCounted
    <3>3. k = "type_size_changed" => x = n5
      BY <1>1, <3>1 DEF Expected
    <3>4. k \in EnumKinds => x = 0
      BY <3>1 DEF Expected, EnumKinds
    <3>5. /\ a1 = a + (IF k = "field_added_to_struct" THEN n1 ELSE 0)
          /\ a2 = a1 + (IF k = "field_removed_from_struct" THEN n2 ELSE 0)
          /\ a3 = a2 + (IF k = "field_type_changed" THEN n3 ELSE 0)
          /\ a4 = a3 + (IF k = "member_offset_changed" THEN n4 ELSE 0)
          /\ a5 = a4 + (IF k = "type_size_changed" THEN n5 ELSE 0)
      BY <2>2, <2>4, <1>6, <1>7, <1>8, <1>9, <1>10 DEF Extends
    <3>6. a \in Nat
      BY <2>1, <2>2
    <3>7. k \in EnumKinds \cup {"field_added_to_struct", "field_removed_from_struct",
                                "field_type_changed", "member_offset_changed", "type_size_changed"}
      BY DEF Deduped, MemberKinds
    <3>8. CASE k \in EnumKinds
      BY <1>2, <3>4, <3>5, <3>6, <3>8, <2>2, <2>4, <3>1 DEF EnumKinds
    <3>9. CASE k = "field_added_to_struct"
      BY <1>2, <3>2, <3>5, <3>6, <3>9, <2>2, <2>4, <3>1
    <3>10. CASE k = "field_removed_from_struct"
      BY <1>2, <3>2, <3>5, <3>6, <3>10, <2>2, <2>4, <3>1
    <3>11. CASE k = "field_type_changed"
      BY <1>2, <3>2, <3>5, <3>6, <3>11, <2>2, <2>4, <3>1
    <3>12. CASE k = "member_offset_changed"
      BY <1>2, <3>2, <3>5, <3>6, <3>12, <2>2, <2>4, <3>1
    <3>13. CASE k = "type_size_changed"
      BY <1>2, <3>3, <3>5, <3>6, <3>13, <2>2, <2>4, <3>1
    <3> QED
      BY <3>7, <3>8, <3>9, <3>10, <3>11, <3>12, <3>13
  <2> QED
    BY <2>3, <2>4
<1>13. \A T : About(s, T) /\ d.type \in T => About(s5, T)
  BY <1>6, <1>7, <1>8, <1>9, <1>10 DEF Extends
<1> QED
  BY <1>10, <1>11, <1>12, <1>13 DEF Extends

LEMMA EnumAmount ==
  ASSUME NEW s \in Seq(Event), NEW d, TypeDiff(d), d.kind = "enum",
         NEW t, NEW k \in Deduped
  PROVE  /\ s \o EnumEvents(d) \in Seq(Event)
         /\ Amount(s \o EnumEvents(d), t, k) =
              Amount(s, t, k) + (IF t = d.type THEN Expected(d, k) ELSE 0)
         /\ \A T : About(s, T) /\ d.type \in T => About(s \o EnumEvents(d), T)
<1>1. PICK n1, n2, n3 :
        n1 = d.casesAdded /\ n2 = d.casesRemoved /\ n3 = IF d.resized THEN 1 ELSE 0
  OBVIOUS
<1>2. n1 \in Nat /\ n2 \in Nat /\ n3 \in Nat
  BY <1>1 DEF TypeDiff
<1>3. PICK e1, e2, e3 :
        /\ e1 = Emit("enum_case_added", d, n1)
        /\ e2 = Emit("enum_case_removed", d, n2)
        /\ e3 = Emit("type_size_changed", d, n3)
  OBVIOUS
<1>4. e1 \in Seq(Event) /\ e2 \in Seq(Event) /\ e3 \in Seq(Event)
  BY <1>2, <1>3, EmitTyped, KindsAre
<1>5. PICK s1, s2, s3 : s1 = s \o e1 /\ s2 = s1 \o e2 /\ s3 = s2 \o e3
  OBVIOUS
<1>s. s1 \in Seq(Event) /\ s2 \in Seq(Event)
  BY <1>4, <1>5, ConcatProperties
<1>6. Extends(s, s1, d, "enum_case_added", n1, t, k)
  BY <1>2, <1>3, <1>5, EmitAmount, KindsAre
<1>7. Extends(s1, s2, d, "enum_case_removed", n2, t, k)
  BY <1>2, <1>3, <1>5, <1>s, EmitAmount, KindsAre
<1>8. Extends(s2, s3, d, "type_size_changed", n3, t, k)
  BY <1>2, <1>3, <1>5, <1>s, EmitAmount, KindsAre
<1>9. s3 = s \o EnumEvents(d)
  <2>1. PICK c2, c3 : Cat(c2, e1, e2) /\ Cat(c3, c2, e3)
    BY DEF Cat
  <2>0. Cat(s1, s, e1) /\ Cat(s2, s1, e2) /\ Cat(s3, s2, e3)
    BY <1>5 DEF Cat
  <2>2. c2 \in Seq(Event) /\ Cat(s2, s, c2)
    BY <1>4, <2>0, <2>1, Pieces
  <2>3. Cat(s3, s, c3)
    BY <1>4, <2>0, <2>1, <2>2, Pieces
  <2>4. EnumEvents(d) = c3
    BY <1>1, <1>3, <2>1 DEF EnumEvents, Cat
  <2> QED
    BY <2>3, <2>4 DEF Cat
<1>10. Amount(s3, t, k) = Amount(s, t, k) + (IF t = d.type THEN Expected(d, k) ELSE 0)
  <2>1. Amount(s, t, k) \in Nat
    <3>1. Of(s, t, k) \in SUBSET DOMAIN s
      BY DEF Of
    <3> QED
      BY <3>1, Entries DEF Amount
  <2>2. PICK a, a1, a2, a3 :
          a = Amount(s, t, k) /\ a1 = Amount(s1, t, k) /\ a2 = Amount(s2, t, k) /\ a3 = Amount(s3, t, k)
    OBVIOUS
  <2>3. PICK x : x = Expected(d, k)
    OBVIOUS
  <2>4. /\ k = "enum_case_added" => x = n1
        /\ k = "enum_case_removed" => x = n2
        /\ k = "type_size_changed" => x = n3
        /\ k \notin {"enum_case_added", "enum_case_removed", "type_size_changed"} => x = 0
    BY <1>1, <2>3 DEF Expected, Deduped, MemberKinds, EnumKinds
  <2>5. CASE t # d.type
    <3>1. a1 = a + 0 /\ a2 = a1 + 0 /\ a3 = a2 + 0
      BY <2>2, <2>5, <1>6, <1>7, <1>8 DEF Extends
    <3> QED
      BY <2>1, <2>2, <2>5, <3>1
  <2>6. CASE t = d.type
    <3>1. /\ a1 = a + (IF k = "enum_case_added" THEN n1 ELSE 0)
          /\ a2 = a1 + (IF k = "enum_case_removed" THEN n2 ELSE 0)
          /\ a3 = a2 + (IF k = "type_size_changed" THEN n3 ELSE 0)
      BY <2>2, <2>6, <1>6, <1>7, <1>8 DEF Extends
    <3>2. a \in Nat
      BY <2>1, <2>2
    <3>3. a3 = a + x
      BY <1>2, <2>4, <3>1, <3>2
    <3> QED
      BY <2>2, <2>3, <2>6, <3>3
  <2> QED
    BY <2>5, <2>6
<1>11. \A T : About(s, T) /\ d.type \in T => About(s3, T)
  BY <1>6, <1>7, <1>8 DEF Extends
<1> QED
  BY <1>8, <1>9, <1>10, <1>11 DEF Extends

\* The bases and the vtable are no member's business.
LEMMA ClassAmount ==
  ASSUME NEW s \in Seq(Event), NEW d, TypeDiff(d), NEW t, NEW k \in Deduped
  PROVE  /\ s \o ClassEvents(d) \in Seq(Event)
         /\ Amount(s \o ClassEvents(d), t, k) = Amount(s, t, k)
         /\ \A T : About(s, T) /\ d.type \in T => About(s \o ClassEvents(d), T)
<1>1. PICK n1, n2 : n1 = d.bases /\ n2 = SlotEvents(d)
  OBVIOUS
<1>2. n1 \in Nat /\ n2 \in Nat
  BY <1>1, SlotsCounted DEF TypeDiff
<1>3. PICK e1, e2 : e1 = Emit("base_class_changed", d, n1) /\ e2 = Emit("vtable_changed", d, n2)
  OBVIOUS
<1>4. e1 \in Seq(Event) /\ e2 \in Seq(Event)
  BY <1>2, <1>3, EmitTyped, KindsAre
<1>5. PICK s1, s2 : s1 = s \o e1 /\ s2 = s1 \o e2
  OBVIOUS
<1>0. k # "base_class_changed" /\ k # "vtable_changed"
  BY DEF Deduped, MemberKinds, EnumKinds
<1>s. s1 \in Seq(Event)
  BY <1>4, <1>5, ConcatProperties
<1>6. Extends(s, s1, d, "base_class_changed", n1, t, k)
  BY <1>2, <1>3, <1>5, EmitAmount, KindsAre
<1>7. Extends(s1, s2, d, "vtable_changed", n2, t, k)
  BY <1>2, <1>3, <1>5, <1>s, EmitAmount, KindsAre
<1>8. s2 = s \o ClassEvents(d)
  <2>1. ClassEvents(d) = e1 \o e2
    BY <1>1, <1>3 DEF ClassEvents
  <2> QED
    BY <1>4, <1>5, <2>1, ConcatAssociative
<1>9. Amount(s, t, k) \in Nat
  <2>1. Of(s, t, k) \in SUBSET DOMAIN s
    BY DEF Of
  <2> QED
    BY <2>1, Entries DEF Amount
<1> QED
  BY <1>0, <1>6, <1>7, <1>8, <1>9 DEF Extends

\* What a changed type is expected to come to is a number.
LEMMA ExpectedType ==
  ASSUME NEW d, TypeDiff(d), d.kind # "other", NEW k \in Deduped
  PROVE  Expected(d, k) \in Int
<1>1. k \in {"field_type_changed", "member_offset_changed", "field_added_to_struct", "field_removed_from_struct",
             "type_size_changed", "enum_case_added", "enum_case_removed"}
  BY DEF Deduped, MemberKinds, EnumKinds
<1>2. d.casesAdded \in Nat /\ d.casesRemoved \in Nat
  BY DEF TypeDiff
<1>3. CASE d.kind \in {"class", "union"}
  <2>1. k \in {"type_size_changed", "enum_case_added", "enum_case_removed"} => Expected(d, k) \in Int
    BY <1>2, <1>3 DEF Expected
  <2>2. /\ Expected(d, "field_type_changed") \in Int /\ Expected(d, "member_offset_changed") \in Int
        /\ Expected(d, "field_added_to_struct") \in Int /\ Expected(d, "field_removed_from_struct") \in Int
    <3>1. PICK a1, a2, a3, a4 :
            /\ a1 = TypesChanged(d) /\ a2 = OffsetsChanged(d)
            /\ a3 = Cardinality(DOMAIN d.second \ DOMAIN d.first)
            /\ a4 = Cardinality(DOMAIN d.first \ DOMAIN d.second)
      OBVIOUS
    <3>2. /\ a1 \in Nat /\ Expected(d, "field_type_changed") = a1
          /\ a2 \in Nat /\ Expected(d, "member_offset_changed") = a2
          /\ a3 \in Nat /\ Expected(d, "field_added_to_struct") = a3
          /\ a4 \in Nat /\ Expected(d, "field_removed_from_struct") = a4
      BY <1>3, <3>1, MembersCounted, Zenon
    <3> QED
      BY <3>2
  <2> QED
    BY <1>1, <2>1, <2>2
<1>4. CASE d.kind = "enum"
  BY <1>1, <1>2, <1>4 DEF Expected
<1> QED
  BY <1>3, <1>4 DEF TypeDiff

(***************************************************************************)
(* Each type counts once.                                                  *)
(***************************************************************************)
LEMMA VisitedTypes ==
  ASSUME IInv
  PROVE  /\ object.visits \in Seq({object.visits[n] : n \in DOMAIN object.visits})
         /\ \A n \in DOMAIN object.visits : TypeDiff(object.visits[n])
         /\ events \in Seq(Event)
BY CompareAssumption DEF IInv, ObjectOK, Object, TypeOK

\* What a visit adds.
LEMMA VisitAmount ==
  ASSUME IInv, Visit, NEW d, d = object.visits[i], TypeDiff(d), NEW t, NEW k \in Deduped
  PROVE  /\ Amount(events', t, k) =
              IF t = d.type /\ FirstTime(d) /\ Changing(i)
              THEN Amount(events, t, k) + Expected(d, k) ELSE Amount(events, t, k)
         /\ ~Changing(i) => events' = events
         /\ \A T : About(events, T) /\ d.type \in T => About(events', T)
<1>1. events \in Seq(Event) /\ Amount(events, t, k) \in Nat
  <2>1. Of(events, t, k) \in SUBSET DOMAIN events
    BY DEF Of
  <2> QED
    BY <2>1, VisitedTypes, Entries DEF Amount
<1>2. d.kind \in {"class", "union", "enum", "other"} /\ d.changes \in BOOLEAN
  BY DEF TypeDiff
<1>3. Changing(i) <=> d.changes /\ d.kind # "other"
  BY DEF Changing
<1>4. CASE ~Changing(i)
  <2>1. events' = events
    <3>1. CASE ~d.changes
      BY <3>1 DEF Visit
    <3>2. CASE d.changes /\ d.kind = "other"
      <4>1. events' = events \o <<>>
        BY <3>2 DEF Visit
      <4> QED
        BY <1>1, <4>1
    <3> QED
      BY <1>2, <1>3, <1>4, <3>1, <3>2
  <2> QED
    BY <1>1, <1>4, <2>1
<1>5. CASE Changing(i) /\ d.kind = "class"
  <2>1. CASE FirstTime(d)
    <3>1. PICK s1, a, b : Cat(s1, events, a) /\ a = LayoutEvents(d) /\ b = ClassEvents(d)
      BY DEF Cat
    <3>2. /\ s1 \in Seq(Event)
          /\ Amount(s1, t, k) = Amount(events, t, k) + (IF t = d.type THEN Expected(d, k) ELSE 0)
          /\ \A T : About(events, T) /\ d.type \in T => About(s1, T)
      BY <1>1, <1>5, <3>1, LayoutAmount DEF Cat
    <3>3. PICK s2 : Cat(s2, s1, b)
      BY DEF Cat
    <3>0. s2 = s1 \o ClassEvents(d)
      BY <3>1, <3>3 DEF Cat
    <3>4. /\ Amount(s2, t, k) = Amount(s1, t, k)
          /\ \A T : About(s1, T) /\ d.type \in T => About(s2, T)
      BY <3>0, <3>2, ClassAmount
    <3>5. PICK c : Cat(c, a, b)
      BY DEF Cat
    <3>6. a \in Seq(Event) /\ b \in Seq(Event)
      BY <3>1, LayoutTyped, ClassTyped
    <3>7. Cat(s2, events, c)
      BY <1>1, <3>1, <3>3, <3>5, <3>6, Pieces
    <3>8. events' = s2
      BY <1>3, <1>5, <2>1, <3>1, <3>5, <3>7 DEF Visit, Cat
    <3> QED
      BY <1>1, <1>5, <2>1, <3>2, <3>4, <3>8
  <2>2. CASE ~FirstTime(d)
    <3>1. PICK b : b = ClassEvents(d)
      OBVIOUS
    <3>2. events' = events \o (<<>> \o b)
      BY <1>3, <1>5, <2>2, <3>1 DEF Visit
    <3>3. b \in Seq(Event)
      BY <3>1, ClassTyped
    <3>4. events' = events \o b
      BY <3>2, <3>3
    <3> QED
      BY <1>1, <1>5, <2>2, <3>1, <3>4, ClassAmount
  <2> QED
    BY <2>1, <2>2
<1>6. CASE Changing(i) /\ d.kind = "union"
  <2>1. CASE FirstTime(d)
    <3>1. events' = events \o LayoutEvents(d)
      BY <1>3, <1>6, <2>1 DEF Visit
    <3>2. /\ Amount(events', t, k) = Amount(events, t, k) + (IF t = d.type THEN Expected(d, k) ELSE 0)
          /\ \A T : About(events, T) /\ d.type \in T => About(events', T)
      BY <1>1, <1>6, <3>1, LayoutAmount
    <3> QED
      BY <1>1, <1>6, <2>1, <3>2
  <2>2. CASE ~FirstTime(d)
    <3>1. events' = events \o <<>>
      BY <1>3, <1>6, <2>2 DEF Visit
    <3>2. events' = events
      BY <1>1, <3>1
    <3> QED
      BY <1>6, <2>2, <3>2
  <2> QED
    BY <2>1, <2>2
<1>7. CASE Changing(i) /\ d.kind = "enum"
  <2>1. CASE FirstTime(d)
    <3>1. events' = events \o EnumEvents(d)
      BY <1>3, <1>7, <2>1 DEF Visit
    <3>2. /\ Amount(events', t, k) = Amount(events, t, k) + (IF t = d.type THEN Expected(d, k) ELSE 0)
          /\ \A T : About(events, T) /\ d.type \in T => About(events', T)
      BY <1>1, <1>7, <3>1, EnumAmount
    <3> QED
      BY <1>1, <1>7, <2>1, <3>2
  <2>2. CASE ~FirstTime(d)
    <3>1. events' = events \o <<>>
      BY <1>3, <1>7, <2>2 DEF Visit
    <3>2. events' = events
      BY <1>1, <3>1
    <3> QED
      BY <1>7, <2>2, <3>2
  <2> QED
    BY <2>1, <2>2
<1> QED
  BY <1>2, <1>3, <1>4, <1>5, <1>6, <1>7

LEMMA VisitKeepsCount ==
  ASSUME IInv, VisitsInv, Visit
  PROVE  VisitsInv'
<1>1. /\ pc = "types" /\ pc' = "types" /\ i' = i + 1 /\ i \in Nat \ {0} /\ object' = object
      /\ i \in DOMAIN object.visits
  BY VisitedTypes DEF IInv, TypeOK, Visit, Round, Rounds
<1>2. PICK d : d = object.visits[i]
  OBVIOUS
<1>3. TypeDiff(d)
  BY <1>1, <1>2, VisitedTypes
<1>4. seen' = IF Changing(i) THEN seen \cup {d.type} ELSE seen
  BY <1>2 DEF Visit, Changing
<1>5. Visited = {n \in DOMAIN object.visits : n < i}
  BY <1>1 DEF Visited
<1>6. Visited' = {n \in DOMAIN object.visits : n < i + 1}
  BY <1>1 DEF Visited
<1>7. Visited' = Visited \cup {i}
  <2>1. \A n \in DOMAIN object.visits : n \in Nat
    BY VisitedTypes
  <2> QED
    BY <1>1, <1>5, <1>6, <2>1
<1>8. seen = {object.visits[n].type : n \in {m \in Visited : Changing(m)}}
  BY DEF VisitsInv
<1>9. seen' = {object.visits[n].type : n \in {m \in Visited' : Changing(m)}}
  <2>1. CASE Changing(i)
    BY <1>2, <1>4, <1>7, <1>8, <2>1
  <2>2. CASE ~Changing(i)
    <3>1. {m \in Visited' : Changing(m)} = {m \in Visited : Changing(m)}
      BY <1>7, <2>2
    <3> QED
      BY <1>4, <1>8, <2>2, <3>1
  <2> QED
    BY <2>1, <2>2
<1>10. \A n \in DOMAIN events' : events'[n].type \in seen'
  <2>1. About(events, seen)
    BY DEF VisitsInv, About
  <2>2. PICK k : k \in Deduped
    BY DEF Deduped, MemberKinds
  <2>3. /\ ~Changing(i) => events' = events
        /\ \A T : About(events, T) /\ d.type \in T => About(events', T)
    BY <1>2, <1>3, <2>2, VisitAmount
  <2>4. PICK T : T = seen'
    OBVIOUS
  <2>5. About(events, T)
    BY <1>4, <2>1, <2>4 DEF About
  <2>6. About(events', T)
    BY <1>4, <2>3, <2>4, <2>5
  <2> QED
    BY <2>4, <2>6 DEF About
<1>11. ASSUME NEW t \in seen', NEW k \in Deduped
       PROVE  Amount(events', t, k) = Expected(FirstVisit(t), k)
  <2>1. Amount(events', t, k) =
          IF t = d.type /\ FirstTime(d) /\ Changing(i)
          THEN Amount(events, t, k) + Expected(d, k) ELSE Amount(events, t, k)
    BY <1>2, <1>3, VisitAmount
  <2>2. CASE t \in seen
    <3>1. ~(t = d.type /\ FirstTime(d))
      BY <2>2 DEF FirstTime
    <3>2. Amount(events, t, k) = Expected(FirstVisit(t), k)
      BY <2>2 DEF VisitsInv, TypesCountedOnce, Deduped, Amount
    <3> QED
      BY <2>1, <3>1, <3>2
  <2>3. CASE t \notin seen
    <3>1. t = d.type /\ FirstTime(d) /\ Changing(i)
      BY <1>4, <2>3 DEF FirstTime
    <3>2. Of(events, t, k) = {}
      BY <2>3 DEF Of, VisitsInv
    <3>3. Amount(events, t, k) = 0
      BY <3>2, SumEmpty DEF Amount, Total
    <3>4. FirstVisit(t) = d
      <4>1. PICK S : S = {n \in DOMAIN object.visits :
                            LET e == object.visits[n]
                            IN  e.type = t /\ e.changes /\ e.kind # "other"}
        OBVIOUS
      <4>2. i \in S
        BY <1>1, <1>2, <3>1, <4>1 DEF Changing
      <4>3. \A n \in S : i <= n /\ n \in Nat
        <5> SUFFICES ASSUME NEW n \in S, ~(i <= n) PROVE FALSE
          BY <4>1, VisitedTypes
        <5>1. n \in Visited /\ Changing(n) /\ object.visits[n].type = t
          BY <1>1, <1>5, <4>1, VisitedTypes DEF Changing
        <5> QED
          BY <1>8, <2>3, <5>1
      <4>4. Min(S) = i
        <5>1. \A x \in S : (\A y \in S : x <= y) <=> x = i
          BY <1>1, <4>2, <4>3
        <5>2. Min(S) = CHOOSE x \in S : \A y \in S : x <= y
          BY DEF Min
        <5> QED
          BY <4>2, <5>1, <5>2
      <4> QED
        BY <1>2, <4>1, <4>4 DEF FirstVisit
    <3>5. Amount(events', t, k) = 0 + Expected(d, k)
      BY <2>1, <3>1, <3>3
    <3>6. Expected(d, k) \in Int
      BY <1>2, <1>3, <3>1, ExpectedType DEF Changing
    <3> QED
      BY <3>4, <3>5, <3>6
  <2> QED
    BY <2>2, <2>3
<1>12. TypesCountedOnce'
  BY <1>1, <1>11 DEF TypesCountedOnce, Amount, Deduped, FirstVisit
<1> QED
  BY <1>1, <1>9, <1>10, <1>12 DEF VisitsInv, Changing

LEMMA VisitsSame ==
  ASSUME VisitsInv, UNCHANGED <<object, seen, events>>, Visited' = Visited
  PROVE  VisitsInv'
<1>1. \A n : Changing(n)' <=> Changing(n)
  BY DEF Changing
<1>2. PICK V : V = Visited
  OBVIOUS
<1>3. V = Visited'
  BY <1>2
<1>4. seen' = {object'.visits[n].type : n \in {m \in V : Changing(m)'}}
  <2>1. seen = {object.visits[n].type : n \in {m \in V : Changing(m)}}
    BY <1>2 DEF VisitsInv
  <2>2. {m \in V : Changing(m)'} = {m \in V : Changing(m)}
    BY <1>1
  <2> QED
    BY <2>1, <2>2
<1>5. TypesCountedOnce'
  <2>1. \A t : FirstVisit(t)' = FirstVisit(t)
    BY DEF FirstVisit
  <2> QED
    BY <2>1 DEF VisitsInv, TypesCountedOnce
<1>6. \A n \in DOMAIN events' : events'[n].type \in seen'
  BY DEF VisitsInv
<1> QED
  BY <1>3, <1>4, <1>5, <1>6 DEF VisitsInv

LEMMA VisitsStep ==
  ASSUME IInv, VisitsInv, [Next]_vars
  PROVE  VisitsInv'
<1>1. CASE Visit
  BY <1>1, VisitKeepsCount
<1>2. CASE Load \/ LoadFails
  <2>1. pc = "load" /\ i = 1 /\ i' = 1 /\ pc' \in {"types", "failed"} /\ UNCHANGED <<object, seen, events>>
    BY <1>2 DEF IInv, EarlyOK, Load, LoadFails, typeVars
  <2>2. \A n \in DOMAIN object.visits : ~(n < 1)
    BY VisitedTypes
  <2>3. Visited = {} /\ Visited' = {}
    BY <2>1, <2>2 DEF Visited
  <2> QED
    BY <2>1, <2>3, VisitsSame
<1>3. CASE EndLoop
  <2>1. /\ UNCHANGED <<object, seen, events>> /\ i > Rounds(pc) /\ pc' = After[pc]
        /\ pc \in {"types", "attribute", "signatures", "renames", "removed", "added", "changed"}
    BY <1>3 DEF EndLoop, typeVars, After
  <2>2. pc' \notin {"load", "types", "failed"}
    BY <2>1 DEF After
  <2>3. Visited' = DOMAIN object.visits
    BY <2>1, <2>2 DEF Visited
  <2>4. Visited = DOMAIN object.visits
    <3>1. CASE pc = "types"
      <4>1. i > Len(object.visits) /\ i \in Nat
        BY <2>1, <3>1 DEF Rounds, IInv, TypeOK
      <4>2. \A n \in DOMAIN object.visits : n < i
        BY <4>1, VisitedTypes
      <4> QED
        BY <3>1, <4>2 DEF Visited
    <3>2. CASE pc # "types"
      BY <2>1, <3>2 DEF Visited
    <3> QED
      BY <3>1, <3>2
  <2> QED
    BY <2>1, <2>3, <2>4, VisitsSame
<1>4. CASE UNCHANGED vars
  <2>1. UNCHANGED <<object, seen, events>> /\ pc' = pc /\ i' = i
    BY <1>4 DEF vars
  <2>2. Visited' = Visited
    BY <2>1 DEF Visited
  <2> QED
    BY <2>1, <2>2, VisitsSame
<1>5. CASE \/ AttributeType \/ CollectSymbols \/ PairSignature \/ NoSignature \/ PairRename \/ NoRename
           \/ RecordRemoved \/ RecordAdded \/ TallyRenames \/ RecordChanged
  <2>1. /\ UNCHANGED <<object, seen, events>>
        /\ pc \notin {"load", "types", "failed"} /\ pc' \notin {"load", "types", "failed"}
    BY <1>5 DEF AttributeType, CollectSymbols, PairSignature, NoSignature, PairRename, NoRename,
                RecordRemoved, RecordAdded, RecordPlain, TallyRenames, RecordChanged, Round, typeVars
  <2>2. Visited' = Visited
    BY <2>1 DEF Visited
  <2> QED
    BY <2>1, <2>2, VisitsSame
<1> QED
  BY <1>1, <1>2, <1>3, <1>4, <1>5 DEF Next, Ended

\* Each changed type counts once, with each member that changed its type or its place counted
\* once (compare.cpp:224-307).
THEOREM EachTypeCounts == Spec => []TypesCountedOnce
<1>1. Init => VisitsInv
  <2> SUFFICES ASSUME Init PROVE VisitsInv
    OBVIOUS
  <2>1. pc = "load" /\ seen = {} /\ events = <<>>
    BY DEF Init
  <2>2. Visited = {}
    BY <2>1 DEF Visited
  <2> QED
    BY <2>1, <2>2 DEF VisitsInv, TypesCountedOnce
<1>2. IInv /\ VisitsInv /\ [Next]_vars => VisitsInv'
  BY VisitsStep
<1>3. VisitsInv => TypesCountedOnce
  BY DEF VisitsInv
<1> QED
  BY <1>1, <1>2, <1>3, CompareInvariance, PTL DEF Spec

(***************************************************************************)
(* Each type event is in one tally of two.                                 *)
(***************************************************************************)
OwnAmong(S, k) == {n \in S : events[n].kind = k /\ Own(events[n])}
ForeignAmong(S, k) == {n \in S : events[n].kind = k /\ ~Own(events[n])}
TypeCountsSame ==
  \A k \in TypeKinds : /\ counts'["public"][k] = counts["public"][k]
                       /\ counts'["third_party"][k] = counts["third_party"][k]

LEMMA TypeKindsAre == TypeKinds \subseteq ChangeKind /\ TypeKinds \cap SymbolKinds = {}
BY DEF TypeKinds, ChangeKind, SymbolKinds, LayoutKinds, MemberKinds, EnumKinds, HeaderKinds

\* A symbol event is no type event.
LEMMA SymbolsApart ==
  ASSUME TypeOK, NEW t \in Tally, NEW k \in SymbolKinds, NEW n \in Nat,
         counts' = [counts EXCEPT ![t] = Add(@, k, n)]
  PROVE  TypeCountsSame
<1>1. counts \in [Tally -> Tallies] /\ counts[t] \in Tallies
  BY DEF TypeOK
<1>2. PICK c : c = Add(counts[t], k, n)
  OBVIOUS
<1>0. k \in ChangeKind
  BY KindsAre
<1>3. \A l \in ChangeKind : c[l] = IF l = k THEN counts[t][k] + n ELSE counts[t][l]
  BY <1>0, <1>1, <1>2, AddIs
<1>4. counts' = [counts EXCEPT ![t] = c]
  BY <1>2
<1>5. \A l \in TypeKinds : c[l] = counts[t][l]
  BY <1>3, TypeKindsAre
<1> QED
  BY <1>1, <1>4, <1>5 DEF TypeCountsSame, Tally

LEMMA CountApart ==
  ASSUME TypeOK, NEW s, NEW k \in SymbolKinds, Count(s, k)
  PROVE  TypeCountsSame
<1>1. PICK t : t = TallyOf(s)
  OBVIOUS
<1>2. t \in Tally
  BY <1>1 DEF TallyOf, Tally
<1>3. counts' = [counts EXCEPT ![t] = Add(@, k, 1)]
  BY <1>1 DEF Count
<1>4. PICK n : n = 1
  OBVIOUS
<1> QED
  BY <1>2, <1>3, <1>4, SymbolsApart

LEMMA AttributionSame ==
  ASSUME AttributionInv, UNCHANGED <<object, events>>, Judged' = Judged, TypeCountsSame
  PROVE  AttributionInv'
<1>1. PICK E, J : E = events /\ J = Judged
  OBVIOUS
<1>2. E = events' /\ J = Judged'
  BY <1>1
<1>3. \A n : Own(E[n])' <=> Own(E[n])
  BY DEF Own
<1> SUFFICES ASSUME NEW k \in TypeKinds
             PROVE  /\ counts'["public"][k] = Total(events', {n \in Judged' : events'[n].kind = k /\ Own(events[n])'})
                    /\ counts'["third_party"][k] = Total(events', {n \in Judged' : events'[n].kind = k /\ ~Own(events[n])'})
  BY DEF AttributionInv
<1>4. /\ {n \in Judged' : events'[n].kind = k /\ Own(events[n])'} = {n \in Judged : events[n].kind = k /\ Own(events[n])}
      /\ {n \in Judged' : events'[n].kind = k /\ ~Own(events[n])'} = {n \in Judged : events[n].kind = k /\ ~Own(events[n])}
  BY DEF Own
<1>5. /\ counts["public"][k] = Total(events, {n \in Judged : events[n].kind = k /\ Own(events[n])})
      /\ counts["third_party"][k] = Total(events, {n \in Judged : events[n].kind = k /\ ~Own(events[n])})
  BY DEF AttributionInv
<1>6. \A S : Total(events', S) = Total(events, S)
  OBVIOUS
<1> QED
  BY <1>4, <1>5, <1>6 DEF TypeCountsSame

\* Nothing is judged before the attribution.
LEMMA AttributionEarly ==
  ASSUME AttributionInv, Judged = {}, Judged' = {}, counts' = counts
  PROVE  AttributionInv'
<1>1. \A s : Total(s, {}) = 0
  BY SumEmpty DEF Total
<1> SUFFICES ASSUME NEW k \in TypeKinds
             PROVE  /\ counts'["public"][k] = Total(events', {n \in Judged' : events'[n].kind = k /\ Own(events[n])'})
                    /\ counts'["third_party"][k] = Total(events', {n \in Judged' : events'[n].kind = k /\ ~Own(events[n])'})
  BY DEF AttributionInv
<1>2. /\ {n \in Judged' : events'[n].kind = k /\ Own(events[n])'} = {}
      /\ {n \in Judged' : events'[n].kind = k /\ ~Own(events[n])'} = {}
      /\ {n \in Judged : events[n].kind = k /\ Own(events[n])} = {}
      /\ {n \in Judged : events[n].kind = k /\ ~Own(events[n])} = {}
  OBVIOUS
<1>3. counts["public"][k] = 0 /\ counts["third_party"][k] = 0
  BY <1>1, <1>2 DEF AttributionInv
<1> QED
  BY <1>1, <1>2, <1>3

\* One event more.
LEMMA OneMore ==
  ASSUME IInv, NEW k, NEW S \in SUBSET DOMAIN events, NEW n \in DOMAIN events, n \notin S,
         NEW R, R = S \cup {n}
  PROVE  Total(events, R) = Total(events, S) + events[n].count /\ Total(events, S) \in Nat
<1>1. events \in Seq(Event)
  BY DEF IInv, TypeOK
<1>2. PICK f : f = [x \in DOMAIN events |-> events[x].count]
  OBVIOUS
<1>3. R \in SUBSET DOMAIN events
  OBVIOUS
<1>4. IsFiniteSet(S) /\ (\A x \in R : f[x] \in Nat /\ f[x] = events[x].count) /\ Total(events, S) \in Nat
  BY <1>1, <1>2, <1>3, Entries
<1>5. SumFunctionOnSet(f, S \cup {n}) = f[n] + SumFunctionOnSet(f, S)
  BY <1>4, SumAdd
<1>6. f[n] = events[n].count /\ f[n] \in Nat
  BY <1>4
<1>7. Total(events, S) = SumFunctionOnSet(f, S) /\ Total(events, R) = SumFunctionOnSet(f, R)
  BY <1>2 DEF Total
<1> QED
  BY <1>4, <1>5, <1>6, <1>7

LEMMA AttributeJudges ==
  ASSUME IInv, AttributionInv, AttributeType
  PROVE  AttributionInv'
<1>1. /\ pc = "attribute" /\ pc' = "attribute" /\ i \in DOMAIN events /\ i' = i + 1 /\ i \in Nat \ {0}
      /\ UNCHANGED <<object, events>> /\ events \in Seq(Event)
  BY DEF IInv, TypeOK, AttributeType, Round, Rounds, typeVars
<1>2. PICK k, n : k = events[i].kind /\ n = events[i].count
  OBVIOUS
<1>3. PICK t : t = IF Own(events[i]) THEN "public" ELSE "third_party"
  OBVIOUS
<1>4. events[i] \in Event
  BY <1>1
<1>5. k \in ChangeKind \ SymbolKinds /\ n \in Nat /\ t \in Tally
  BY <1>2, <1>3, <1>4 DEF Event, Tally
<1>6. \A u \in Tally, l \in ChangeKind :
        counts'[u][l] = IF u = t /\ l = k THEN counts[t][k] + n ELSE counts[u][l]
  <2>1. counts \in [Tally -> Tallies] /\ counts[t] \in Tallies
    BY <1>5 DEF TypeOK, IInv
  <2>2. PICK c : c = Add(counts[t], k, n)
    OBVIOUS
  <2>3. \A l \in ChangeKind : c[l] = IF l = k THEN counts[t][k] + n ELSE counts[t][l]
    BY <1>5, <2>1, <2>2, AddIs
  <2>4. counts' = [counts EXCEPT ![t] = c]
    BY <1>2, <1>3, <2>2 DEF AttributeType
  <2> QED
    BY <2>1, <2>3, <2>4
<1>7. PICK J : J = Judged
  OBVIOUS
<1>8. J = {m \in DOMAIN events : m < i} /\ Judged' = {m \in DOMAIN events : m < i + 1}
  BY <1>1, <1>7 DEF Judged
<1>9. Judged' = J \cup {i} /\ i \notin J /\ J \subseteq DOMAIN events
  <2>1. \A m \in DOMAIN events : m \in Nat
    BY <1>1
  <2> QED
    BY <1>1, <1>8, <2>1
<1>10. ASSUME NEW l \in TypeKinds
       PROVE  /\ counts'["public"][l] = Total(events, OwnAmong(J \cup {i}, l))
              /\ counts'["third_party"][l] = Total(events, ForeignAmong(J \cup {i}, l))
  <2>1. PICK P, F, P2, F2 : /\ P = OwnAmong(J, l) /\ F = ForeignAmong(J, l)
                            /\ P2 = OwnAmong(J \cup {i}, l) /\ F2 = ForeignAmong(J \cup {i}, l)
    OBVIOUS
  <2>2. counts["public"][l] = Total(events, P) /\ counts["third_party"][l] = Total(events, F)
    BY <1>7, <2>1 DEF AttributionInv, OwnAmong, ForeignAmong
  <2>3. P \in SUBSET DOMAIN events /\ F \in SUBSET DOMAIN events /\ i \notin P /\ i \notin F
    BY <1>9, <2>1 DEF OwnAmong, ForeignAmong
  <2>4. /\ counts'["public"][l] = IF "public" = t /\ l = k THEN counts[t][k] + n ELSE counts["public"][l]
        /\ counts'["third_party"][l] =
             IF "third_party" = t /\ l = k THEN counts[t][k] + n ELSE counts["third_party"][l]
    BY <1>6, TypeKindsAre DEF Tally
  <2>5. CASE l = k /\ Own(events[i])
    <3>1. P2 = P \cup {i} /\ F2 = F
      BY <1>2, <2>1, <2>5 DEF OwnAmong, ForeignAmong
    <3>2. Total(events, P2) = Total(events, P) + n /\ t = "public"
      BY <1>1, <1>2, <1>3, <2>3, <2>5, <3>1, OneMore
    <3> QED
      BY <2>1, <2>2, <2>4, <2>5, <3>1, <3>2
  <2>6. CASE l = k /\ ~Own(events[i])
    <3>1. F2 = F \cup {i} /\ P2 = P
      BY <1>2, <2>1, <2>6 DEF OwnAmong, ForeignAmong
    <3>2. Total(events, F2) = Total(events, F) + n /\ t = "third_party"
      BY <1>1, <1>2, <1>3, <2>3, <2>6, <3>1, OneMore
    <3> QED
      BY <2>1, <2>2, <2>4, <2>6, <3>1, <3>2
  <2>7. CASE l # k
    <3>1. F2 = F /\ P2 = P
      BY <1>2, <2>1, <2>7 DEF OwnAmong, ForeignAmong
    <3> QED
      BY <2>1, <2>2, <2>4, <2>7, <3>1
  <2> QED
    BY <2>5, <2>6, <2>7
<1>11. \A l : /\ {m \in Judged' : events'[m].kind = l /\ Own(events[m])'} = OwnAmong(J \cup {i}, l)
              /\ {m \in Judged' : events'[m].kind = l /\ ~Own(events[m])'} = ForeignAmong(J \cup {i}, l)
  BY <1>1, <1>9 DEF OwnAmong, ForeignAmong, Own
<1>12. \A S : Total(events', S) = Total(events, S)
  BY <1>1
<1> QED
  BY <1>10, <1>11, <1>12 DEF AttributionInv

LEMMA AttributionStep ==
  ASSUME IInv, AttributionInv, [Next]_vars
  PROVE  AttributionInv'
<1>1. CASE AttributeType
  BY <1>1, AttributeJudges
<1>2. CASE Load \/ LoadFails \/ Visit
  <2>1. pc \in {"load", "types"} /\ pc' \in {"types", "failed"} /\ counts' = counts
    BY <1>2 DEF Load, LoadFails, Visit, Round
  <2>2. Judged = {} /\ Judged' = {}
    BY <2>1 DEF Judged
  <2> QED
    BY <2>1, <2>2, AttributionEarly
<1>3. CASE EndLoop
  <2>1. /\ UNCHANGED <<object, events, counts>> /\ i > Rounds(pc) /\ pc' = After[pc] /\ i' = 1
        /\ pc \in {"types", "attribute", "signatures", "renames", "removed", "added", "changed"}
    BY <1>3 DEF EndLoop, typeVars, After
  <2>2. TypeCountsSame
    BY <2>1 DEF TypeCountsSame
  <2>3. \A n \in DOMAIN events : n \in Nat /\ ~(n < 1)
    BY DEF IInv, TypeOK
  <2>4. Judged' = Judged
    <3>1. CASE pc = "types"
      <4>1. pc' = "attribute"
        BY <2>1, <3>1 DEF After
      <4>2. {n \in DOMAIN events : n < 1} = {}
        BY <2>3
      <4> QED
        BY <2>1, <3>1, <4>1, <4>2 DEF Judged
    <3>2. CASE pc = "attribute"
      <4>1. pc' = "collect" /\ i > Len(events) /\ i \in Nat
        BY <2>1, <3>2 DEF After, Rounds, IInv, TypeOK
      <4>2. \A n \in DOMAIN events : n < i
        BY <4>1 DEF IInv, TypeOK
      <4> QED
        BY <2>1, <3>2, <4>1, <4>2 DEF Judged
    <3>3. CASE pc \notin {"types", "attribute"}
      <4>1. pc' \notin {"load", "types", "failed", "attribute"} /\ pc \notin {"load", "types", "failed", "attribute"}
        BY <2>1, <3>3 DEF After
      <4> QED
        BY <2>1, <4>1 DEF Judged
    <3> QED
      BY <3>1, <3>2, <3>3
  <2> QED
    BY <2>1, <2>2, <2>4, AttributionSame
<1>4. CASE UNCHANGED vars
  <2>1. UNCHANGED <<object, events, counts>> /\ pc' = pc /\ i' = i
    BY <1>4 DEF vars
  <2>2. Judged' = Judged
    BY <2>1 DEF Judged
  <2> QED
    BY <2>1, <2>2, AttributionSame DEF TypeCountsSame
<1>5. CASE \/ CollectSymbols \/ PairSignature \/ NoSignature \/ PairRename \/ NoRename
           \/ RecordRemoved \/ RecordAdded \/ TallyRenames \/ RecordChanged
  <2>1. /\ UNCHANGED <<object, events>>
        /\ pc \notin {"load", "types", "failed", "attribute"} /\ pc' \notin {"load", "types", "failed", "attribute"}
    BY <1>5 DEF CollectSymbols, PairSignature, NoSignature, PairRename, NoRename,
                RecordRemoved, RecordAdded, RecordPlain, TallyRenames, RecordChanged, Round, typeVars
  <2>2. Judged' = Judged
    BY <2>1 DEF Judged
  <2>3. TypeOK
    BY DEF IInv
  <2>4. TypeCountsSame
    <3>1. CASE CollectSymbols \/ NoSignature \/ PairRename \/ NoRename
      BY <3>1 DEF CollectSymbols, NoSignature, PairRename, NoRename, TypeCountsSame
    <3>2. CASE \/ PairSignature \/ RecordRemoved \/ RecordAdded \/ RecordChanged
      <4>1. \/ counts' = counts
            \/ \E s, k : k \in SymbolKinds /\ Count(s, k)
        BY <3>2, KindsAre DEF PairSignature, RecordRemoved, RecordAdded, RecordPlain, RecordChanged
      <4> QED
        BY <2>3, <4>1, CountApart DEF TypeCountsSame
    <3>3. CASE TallyRenames
      <4>1. PICK t, k : t = "public" /\ k = "symbol_version_renamed"
        OBVIOUS
      <4>2. counts' = [counts EXCEPT ![t] = Add(@, k, renamed)]
        BY <3>3, <4>1 DEF TallyRenames
      <4>3. t \in Tally /\ k \in SymbolKinds /\ renamed \in Nat
        BY <2>3, <4>1, KindsAre DEF Tally, TypeOK
      <4> QED
        BY <2>3, <4>2, <4>3, SymbolsApart
    <3> QED
      BY <1>5, <3>1, <3>2, <3>3
  <2> QED
    BY <2>1, <2>2, <2>4, AttributionSame
<1> QED
  BY <1>1, <1>2, <1>3, <1>4, <1>5 DEF Next, Ended

\* Every type event is in one tally of the two: in that of third parties when there are headers and the
\* declaring file is known and none of them (compare.cpp:690-703).
LEMMA JudgedAttributed ==
  ASSUME IInv, AttributionInv
  PROVE  TypesAttributed
<1> SUFFICES ASSUME Attributed, NEW k \in TypeKinds
             PROVE  LET foreign == {n \in DOMAIN events : events[n].kind = k /\ events[n].declared \in Headers \ object.headers}
                        all == {n \in DOMAIN events : events[n].kind = k}
                    IN  /\ counts["third_party"][k] = IF object.headers = {} THEN 0 ELSE Total(events, foreign)
                        /\ counts["public"][k] + counts["third_party"][k] = Total(events, all)
  BY DEF TypesAttributed
<1>1. Judged = DOMAIN events
  BY DEF Attributed, Typed, Judged
<1>2. PICK P, F, A : P = OwnAmong(DOMAIN events, k) /\ F = ForeignAmong(DOMAIN events, k)
                     /\ A = {n \in DOMAIN events : events[n].kind = k}
  OBVIOUS
<1>3. counts["public"][k] = Total(events, P) /\ counts["third_party"][k] = Total(events, F)
  BY <1>1, <1>2 DEF AttributionInv, OwnAmong, ForeignAmong
<1>4. events \in Seq(Event)
  BY DEF IInv, TypeOK
<1>5. \A n \in DOMAIN events : events[n].declared \in Headers \cup {NoHeader}
  <2> SUFFICES ASSUME NEW n \in DOMAIN events PROVE events[n].declared \in Headers \cup {NoHeader}
    OBVIOUS
  <2>1. events[n] \in Event
    BY <1>4
  <2> QED
    BY <2>1 DEF Event
<1>6. A = P \cup F /\ P \cap F = {} /\ P \in SUBSET DOMAIN events /\ F \in SUBSET DOMAIN events
      /\ A \in SUBSET DOMAIN events
  BY <1>2 DEF OwnAmong, ForeignAmong
<1>7. Total(events, A) = Total(events, P) + Total(events, F)
  <2>1. PICK f : f = [x \in DOMAIN events |-> events[x].count]
    OBVIOUS
  <2>2. IsFiniteSet(P) /\ IsFiniteSet(F)
    BY <1>4, <1>6, <2>1, Entries
  <2>3. \A n \in P \cup F : f[n] \in Nat
    BY <1>4, <1>6, <2>1, Entries
  <2>4. SumFunctionOnSet(f, P \cup F) = SumFunctionOnSet(f, P) + SumFunctionOnSet(f, F)
    BY <1>6, <2>2, <2>3, SumUnion
  <2> QED
    BY <1>6, <2>1, <2>4 DEF Total
<1>8. counts["third_party"][k] = IF object.headers = {} THEN 0
        ELSE Total(events, {n \in DOMAIN events : events[n].kind = k /\ events[n].declared \in Headers \ object.headers})
  <2>1. CASE object.headers = {}
    <3>1. F = {}
      BY <1>2, <2>1 DEF ForeignAmong, Own
    <3> QED
      BY <1>3, <2>1, <3>1, SumEmpty DEF Total
  <2>2. CASE object.headers # {}
    <3>1. F = {n \in DOMAIN events : events[n].kind = k /\ events[n].declared \in Headers \ object.headers}
      BY <1>2, <1>5, <2>2, CompareAssumption DEF ForeignAmong, Own
    <3> QED
      BY <1>3, <2>2, <3>1
  <2> QED
    BY <2>1, <2>2
<1> QED
  BY <1>2, <1>3, <1>7, <1>8

\* Types of the library and of others are told apart by the headers it ships (compare.cpp:690-703).
THEOREM TypesFindTheirTally == Spec => []TypesAttributed
<1>1. Init => AttributionInv
  <2> SUFFICES ASSUME Init, NEW k \in TypeKinds
               PROVE  /\ counts["public"][k] = Total(events, {n \in Judged : events[n].kind = k /\ Own(events[n])})
                      /\ counts["third_party"][k] = Total(events, {n \in Judged : events[n].kind = k /\ ~Own(events[n])})
    BY DEF AttributionInv
  <2>1. pc = "load" /\ counts["public"][k] = 0 /\ counts["third_party"][k] = 0
    BY TypeKindsAre DEF Init, NoCounts, Tally
  <2>2. Judged = {}
    BY <2>1 DEF Judged
  <2>3. \A s : Total(s, {}) = 0
    BY SumEmpty DEF Total
  <2>4. /\ {n \in Judged : events[n].kind = k /\ Own(events[n])} = {}
        /\ {n \in Judged : events[n].kind = k /\ ~Own(events[n])} = {}
    BY <2>2
  <2> QED
    BY <2>1, <2>3, <2>4
<1>2. IInv /\ AttributionInv /\ [Next]_vars => AttributionInv'
  BY AttributionStep
<1>3. IInv /\ AttributionInv => TypesAttributed
  BY JudgedAttributed
<1> QED
  BY <1>1, <1>2, <1>3, CompareInvariance, PTL DEF Spec
=============================================================================
