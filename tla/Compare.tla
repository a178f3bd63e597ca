------------------------------ MODULE Compare ------------------------------
(***************************************************************************)
(* abi::compare on one pair of shared objects: the corpora are read, the   *)
(* diff tree is walked and every changed type counted, type events are     *)
(* attributed by header, and symbol events are classified: signature       *)
(* changes hidden in a removal and an addition, renames by policy, plain   *)
(* removals and additions, changed declarations.                           *)
(*                                                                         *)
(* What libabigail finds is a value chosen at the start; it visits a node  *)
(* of the diff tree any number of times, reports some of the members that  *)
(* moved, and gives its maps of symbols in any order.                      *)
(***************************************************************************)
EXTENDS ChangeKinds, Sequences, FiniteSets, FiniteSetsExt, Functions

CONSTANTS
  Types,          \* canonical types
  Headers,        \* basenames of declaring files
  NoHeader,       \* declared_in of a type whose file is not known
  Members,        \* names of data members and of member functions
  Names,          \* qualified names without parameters, the key of pairing
  Texts,          \* pretty representations
  Stems,          \* linkage names without their digits
  Objects,        \* the inputs considered
  MassRenameMin,  \* Options::mass_rename_min
  EventCap        \* symbol events kept, 2000 in the code

\* A node of the diff tree, of a class, a union, an enum or something else.  first and second map the
\* data members of the two sides to the name a caller writes for their types (peeled_name) and their
\* offsets, slots1 and slots2 the virtual functions to their slots; bases counts the bases inserted,
\* deleted or changed.  reported are the members in the changed and subtype-changed maps of
\* the library: all whose type changed, and any others.
TypeDiff(d) ==
  LET common == DOMAIN d.first \cap DOMAIN d.second
  IN  /\ d.kind \in {"class", "union", "enum", "other"} /\ d.changes \in BOOLEAN
      /\ d.type \in Types /\ d.declared \in Headers \cup {NoHeader}
      /\ DOMAIN d.first \cup DOMAIN d.second \cup DOMAIN d.slots1 \cup DOMAIN d.slots2 \subseteq Members
      /\ {d.bases, d.casesAdded, d.casesRemoved} \subseteq Nat /\ d.resized \in BOOLEAN
      /\ d.reported \subseteq common
      /\ \A m \in common : d.first[m].type # d.second[m].type => m \in d.reported

\* A symbol: its linkage name is a stem and a number, 0 for none; digits_blind
\* keeps the stem and whether there is a number.
Symbol ==
  [stem : Stems, number : Nat, pretty : Texts, pairing : Names,
   private : BOOLEAN, is_function : BOOLEAN, generated : BOOLEAN]

\* A function on both sides: whether its version node is private and whether the number of its
\* parameters or the name of one of its types differs.
Changed == [private : BOOLEAN, signature : BOOLEAN]

\* What the library finds: visits in the order of the traversal, headers shipped on either
\* side, the symbols of one side only and of both.
Object(o) ==
  /\ o.visits \in Seq({o.visits[n] : n \in DOMAIN o.visits})
  /\ \A n \in DOMAIN o.visits : TypeDiff(o.visits[n])
  /\ o.headers \subseteq Headers
  /\ o.deleted \cup o.added \subseteq Symbol /\ o.changed \in Seq(Changed)
  /\ IsFiniteSet(o.deleted) /\ IsFiniteSet(o.added)
  /\ o.exported \in Nat /\ o.mangled \in 0 .. o.exported

ASSUME CompareAssumption ==
  /\ MassRenameMin \in Nat /\ EventCap \in Nat
  /\ IsFiniteSet(Members)
  /\ NoHeader \notin Headers
  /\ \A o \in Objects : Object(o)

VARIABLES
  object,      \* never changes
  pc,          \* where compare is
  i,           \* index of the loop it is in
  seen,        \* seen_: types already counted
  events,      \* type_events
  counts,      \* public_counts, third_party_counts, private_node_counts
  language,
  removed, added,         \* SymbolSide vectors
  remUsed, addUsed,       \* indices of symbols paired already
  signatures,             \* history: signature changes found by pairing
  renamed,                \* symbols_version_renamed
  plain,                  \* removals and additions counted as such
  recorded,               \* symbol_events: how many are kept
  massRename

vars == <<object, pc, i, seen, events, counts, language, removed, added, remUsed, addUsed,
          signatures, renamed, plain, recorded, massRename>>
typeVars == <<seen, events>>
symbolVars == <<removed, added, remUsed, addUsed, signatures, renamed, plain, recorded, massRename>>

Pcs == {"load", "types", "attribute", "collect", "signatures", "renames", "removed", "added",
        "mass", "changed", "done", "failed"}
Tally == {"public", "third_party", "private_node"}
Event == [kind : ChangeKind \ SymbolKinds, type : Types, declared : Headers \cup {NoHeader}, count : Nat]

Init ==
  /\ object \in Objects
  /\ pc = "load" /\ i = 1
  /\ seen = {} /\ events = <<>>
  /\ counts = [t \in Tally |-> NoCounts]
  /\ language = "unknown"
  /\ removed = <<>> /\ added = <<>> /\ remUsed = {} /\ addUsed = {}
  /\ signatures = 0 /\ renamed = 0 /\ plain = 0 /\ recorded = 0 /\ massRename = FALSE
-----------------------------------------------------------------------------
\* The loops in their order, and how many rounds each makes.
After == [types |-> "attribute", attribute |-> "collect", signatures |-> "renames",
          renames |-> "removed", removed |-> "added", added |-> "mass", changed |-> "done"]
Rounds(p) ==
  CASE p = "types" -> Len(object.visits)
    [] p = "attribute" -> Len(events)
    [] p \in {"signatures", "renames", "removed"} -> Len(removed)
    [] p = "added" -> Len(added)
    [] p = "changed" -> Len(object.changed)

Round(p) == pc = p /\ i <= Rounds(p) /\ i' = i + 1 /\ pc' = pc

EndLoop ==
  /\ pc \in DOMAIN After /\ i > Rounds(pc)
  /\ pc' = After[pc] /\ i' = 1
  /\ UNCHANGED <<object, typeVars, counts, language, symbolVars>>

\* language_and_coverage and the fraction of 0.2 (cxx_mangled_fraction).
LanguageOf(o) ==
  IF o.exported = 0 THEN "unknown" ELSE IF 5 * o.mangled >= o.exported THEN "cxx" ELSE "c"

\* Both corpora are read and the diff is computed; any of it may fail.
Load ==
  /\ pc = "load" /\ pc' = "types"
  /\ language' = LanguageOf(object)
  /\ UNCHANGED <<object, i, typeVars, counts, symbolVars>>

LoadFails ==
  /\ pc = "load" /\ pc' = "failed"
  /\ UNCHANGED <<object, i, typeVars, counts, language, symbolVars>>
-----------------------------------------------------------------------------
\* The TypeVisitor.
Emit(k, d, n) ==
  IF n = 0 THEN <<>> ELSE <<[kind |-> k, type |-> d.type, declared |-> d.declared, count |-> n]>>

Common(d) == DOMAIN d.first \cap DOMAIN d.second
Moved(d, S) == {m \in S : d.first[m].offset # d.second[m].offset}

\* (Seeded fault: a member the library reports is looked at again in the walk over both sides.)
OffsetsTwice(d) == Cardinality(Moved(d, d.reported)) + Cardinality(Moved(d, Common(d)))

\* The members the library reports, then the others of both sides.
OffsetsChanged(d) == Cardinality(Moved(d, d.reported)) + Cardinality(Moved(d, Common(d) \ d.reported))

TypesChanged(d) == Cardinality({m \in d.reported : d.first[m].type # d.second[m].type})

LayoutEvents(d) ==
  Emit("field_added_to_struct", d, Cardinality(DOMAIN d.second \ DOMAIN d.first))
  \o Emit("field_removed_from_struct", d, Cardinality(DOMAIN d.first \ DOMAIN d.second))
  \o Emit("field_type_changed", d, TypesChanged(d))
  \o Emit("member_offset_changed", d, OffsetsChanged(d))
  \o Emit("type_size_changed", d, IF d.resized THEN 1 ELSE 0)

EnumEvents(d) ==
  Emit("enum_case_added", d, d.casesAdded) \o Emit("enum_case_removed", d, d.casesRemoved)
  \o Emit("type_size_changed", d, IF d.resized THEN 1 ELSE 0)

\* A vtable that appears or vanishes, virtual functions inserted, deleted or made (non-)virtual,
\* and those whose slot moved.
SlotEvents(d) ==
  LET gone == DOMAIN d.slots1 \ DOMAIN d.slots2
      new == DOMAIN d.slots2 \ DOMAIN d.slots1
      moved == {m \in DOMAIN d.slots1 \cap DOMAIN d.slots2 : d.slots1[m] # d.slots2[m]}
  IN  Cardinality(gone \cup new \cup moved)
        + (IF (DOMAIN d.slots1 = {}) # (DOMAIN d.slots2 = {}) THEN 1 ELSE 0)

ClassEvents(d) == Emit("base_class_changed", d, d.bases) \o Emit("vtable_changed", d, SlotEvents(d))

FirstTime(d) == d.type \notin seen

\* One visit.  The bases and the vtable of a class are looked at outside first_time.
Visit ==
  /\ Round("types")
  /\ LET d == object.visits[i]
         once(e) == IF FirstTime(d) THEN e ELSE <<>>
         found == CASE d.kind = "class" -> once(LayoutEvents(d)) \o ClassEvents(d)
                    [] d.kind = "union" -> once(LayoutEvents(d))
                    [] d.kind = "enum" -> once(EnumEvents(d))
                    [] d.kind = "other" -> <<>>
     IN  /\ events' = IF d.changes THEN events \o found ELSE events
         /\ seen' = IF d.changes /\ d.kind # "other" THEN seen \cup {d.type} ELSE seen
  /\ UNCHANGED <<object, counts, language, symbolVars>>

\* (Seeded fault: a type of unknown origin is taken for a foreign one.)
OwnKnown(e) == object.headers = {} \/ e.declared \in object.headers

\* Without headers, or without a declaring file, a type is the library's own.
Own(e) == object.headers = {} \/ e.declared \in object.headers \cup {NoHeader}

AttributeType ==
  /\ Round("attribute")
  /\ LET t == IF Own(events[i]) THEN "public" ELSE "third_party"
     IN  counts' = [counts EXCEPT ![t] = Add(@, events[i].kind, events[i].count)]
  /\ UNCHANGED <<object, typeVars, language, symbolVars>>
-----------------------------------------------------------------------------
\* classify_symbols.  The vectors hold the symbols of the maps that the compiler did not generate,
\* in the order of the maps, functions before variables.
Kept(S) == {s \in S : ~s.generated}
Orders(S) ==
  {v \in [1 .. Cardinality(S) -> S] :
     \A p, q \in DOMAIN v : /\ v[p] = v[q] => p = q
                            /\ v[p].is_function /\ ~v[q].is_function => p < q}

CollectSymbols ==
  /\ pc = "collect" /\ pc' = "signatures"
  /\ removed' \in Orders(Kept(object.deleted))
  /\ added' \in Orders(Kept(object.added))
  /\ UNCHANGED <<object, i, typeVars, counts, language, remUsed, addUsed, signatures, renamed,
                 plain, recorded, massRename>>

TallyOf(s) == IF s.private THEN "private_node" ELSE "public"

\* One symbol event, counted, and kept for the reviewer up to the cap.
Count(s, k) ==
  /\ counts' = [counts EXCEPT ![TallyOf(s)] = Add(@, k, 1)]
  /\ recorded' = IF recorded < EventCap THEN recorded + 1 ELSE recorded

Pair(r, j) == remUsed' = remUsed \cup {r} /\ addUsed' = addUsed \cup {j}

\* (Seeded fault: what is paired already is offered again.)
StillThere(r) == DOMAIN added

Unpaired(r) == DOMAIN added \ addUsed

\* Signature changes: a function of the same qualified name and another text.
Candidates(r) ==
  {j \in Unpaired(r) : /\ removed[r].is_function /\ added[j].is_function
                       /\ added[j].pairing = removed[r].pairing
                       /\ added[j].pretty # removed[r].pretty}

PairSignature ==
  /\ Round("signatures")
  /\ \E j \in Candidates(i) : (\A k \in Candidates(i) : j <= k) /\ Pair(i, j)
  /\ signatures' = signatures + 1
  /\ Count(removed[i], "function_signature_changed")
  /\ UNCHANGED <<object, typeVars, language, removed, added, renamed, plain, massRename>>

NoSignature ==
  /\ Round("signatures") /\ Candidates(i) = {}
  /\ UNCHANGED <<object, typeVars, counts, language, symbolVars>>

\* Renames by policy: the same name but for the digits, whatever kind of symbol.
Blind(s) == <<s.stem, s.number # 0>>
\* (Seeded fault: only functions are looked at.)
FunctionRenamings(r) ==
  {j \in Unpaired(r) : r \notin remUsed /\ added[j].is_function /\ Blind(added[j]) = Blind(removed[r])}

Renamings(r) == {j \in Unpaired(r) : r \notin remUsed /\ Blind(added[j]) = Blind(removed[r])}

PairRename ==
  /\ Round("renames")
  /\ \E j \in Renamings(i) : Pair(i, j)
  /\ renamed' = renamed + 1
  /\ UNCHANGED <<object, typeVars, counts, language, removed, added, signatures, plain, recorded,
                 massRename>>

NoRename ==
  /\ Round("renames") /\ Renamings(i) = {}
  /\ UNCHANGED <<object, typeVars, counts, language, symbolVars>>

\* What is left counts as a plain removal or addition.
RecordPlain(p, v, used, k) ==
  /\ Round(p)
  /\ IF i \in used
     THEN UNCHANGED <<counts, recorded, plain>>
     ELSE Count(v[i], k) /\ plain' = plain + 1
  /\ UNCHANGED <<object, typeVars, language, removed, added, remUsed, addUsed, signatures, renamed,
                 massRename>>

RecordRemoved == RecordPlain("removed", removed, remUsed, "symbol_removed")
RecordAdded == RecordPlain("added", added, addUsed, "symbol_added")

\* (Seeded fault: the threshold alone decides.)
MassRenameAlone == renamed >= MassRenameMin

IsMassRename == renamed >= MassRenameMin /\ renamed >= plain

\* All renamed symbols are public, and leave no symbol event.
TallyRenames ==
  /\ pc = "mass" /\ pc' = "changed"
  /\ counts' = [counts EXCEPT !["public"] = Add(@, "symbol_version_renamed", renamed)]
  /\ massRename' = IsMassRename
  /\ UNCHANGED <<object, i, typeVars, language, removed, added, remUsed, addUsed, signatures,
                 renamed, plain, recorded>>

\* The same symbol on both sides.
RecordChanged ==
  /\ Round("changed")
  /\ IF object.changed[i].signature
     THEN Count(object.changed[i], "function_signature_changed")
     ELSE UNCHANGED <<counts, recorded>>
  /\ UNCHANGED <<object, typeVars, language, removed, added, remUsed, addUsed, signatures, renamed,
                 plain, massRename>>

Ended == pc \in {"done", "failed"} /\ UNCHANGED vars

Next ==
  \/ Load \/ LoadFails \/ Visit \/ AttributeType \/ CollectSymbols \/ EndLoop
  \/ PairSignature \/ NoSignature \/ PairRename \/ NoRename
  \/ RecordRemoved \/ RecordAdded \/ TallyRenames \/ RecordChanged
  \/ Ended

Spec == Init /\ [][Next]_vars
-----------------------------------------------------------------------------
TypeOK ==
  /\ pc \in Pcs /\ i \in Nat \ {0}
  /\ seen \subseteq Types /\ events \in Seq(Event)
  /\ counts \in [Tally -> Tallies]
  /\ language \in {"unknown", "c", "cxx"}
  /\ removed \in Seq(Symbol) /\ added \in Seq(Symbol)
  /\ remUsed \subseteq DOMAIN removed /\ addUsed \subseteq DOMAIN added
  /\ {signatures, renamed, plain, recorded} \subseteq Nat
  /\ massRename \in BOOLEAN

Typed == pc \notin {"load", "types", "failed"}
Attributed == Typed /\ pc # "attribute"
Signed == Attributed /\ pc \notin {"collect", "signatures"}
Renamed == Signed /\ pc # "renames"

\* What the first visit of a changed type finds on the two sides, however the library splits it.
FirstVisit(t) ==
  object.visits[Min({n \in DOMAIN object.visits : LET d == object.visits[n]
                                                  IN  d.type = t /\ d.changes /\ d.kind # "other"})]
Expected(d, k) ==
  LET differ(f) == Cardinality({m \in Common(d) : d.first[m][f] # d.second[m][f]})
      record == d.kind \in {"class", "union"}
  IN  CASE k = "field_type_changed" -> IF record THEN differ("type") ELSE 0
        [] k = "member_offset_changed" -> IF record THEN differ("offset") ELSE 0
        [] k = "field_added_to_struct" ->
             IF record THEN Cardinality(DOMAIN d.second) - Cardinality(Common(d)) ELSE 0
        [] k = "field_removed_from_struct" ->
             IF record THEN Cardinality(DOMAIN d.first) - Cardinality(Common(d)) ELSE 0
        [] k = "type_size_changed" -> IF d.resized THEN 1 ELSE 0
        [] k = "enum_case_added" -> IF d.kind = "enum" THEN d.casesAdded ELSE 0
        [] k = "enum_case_removed" -> IF d.kind = "enum" THEN d.casesRemoved ELSE 0

\* The entries of s for a type and a kind, and what a set of entries comes to.
Of(s, t, k) == {n \in DOMAIN s : s[n].type = t /\ s[n].kind = k}
Total(s, S) == SumFunctionOnSet([n \in DOMAIN s |-> s[n].count], S)

\* A changed type counts once, with each member that changed its type or its place counted
\* once, however often the type is visited and whichever members the library reports
\* (compare.cpp:224-307; the bases and the vtable are not under this dedupe).
TypesCountedOnce ==
  \A t \in seen, k \in MemberKinds \cup EnumKinds :
    Total(events, Of(events, t, k)) = Expected(FirstVisit(t), k)

\* Every type event is in exactly one of the public and the third-party tally, the latter only
\* when the library ships headers and none of them declares the type (compare.cpp:690-703).
TypeKinds == LayoutKinds \cup EnumKinds \cup {"vtable_changed"}
TypesAttributed ==
  Attributed =>
    \A k \in TypeKinds :
      LET foreign == {n \in DOMAIN events : events[n].kind = k /\ events[n].declared \in Headers \ object.headers}
          all == {n \in DOMAIN events : events[n].kind = k}
      IN  /\ counts["third_party"][k] = IF object.headers = {} THEN 0 ELSE Total(events, foreign)
          /\ counts["public"][k] + counts["third_party"][k] = Total(events, all)

InTallies(k) == counts["public"][k] + counts["private_node"][k]

\* Every symbol of one side only is accounted for exactly once: in a signature change, in a rename or
\* as a plain removal or addition; the symbol events kept are all of them but the renames, up
\* to the cap (compare.cpp:459-571).  compare.hpp:89 and 99-100 say that every counted event is kept;
\* the renames are counted at compare.cpp:536-537 without one.
SymbolsConserved ==
  pc = "done" =>
    /\ Len(removed) = signatures + renamed + InTallies("symbol_removed")
    /\ Len(added) = signatures + renamed + InTallies("symbol_added")
    /\ InTallies("symbol_version_renamed") = renamed
    /\ LET n == InTallies("function_signature_changed") + InTallies("symbol_removed")
                 + InTallies("symbol_added")
       IN  recorded = IF n < EventCap THEN n ELSE EventCap

\* The greedy pairing leaves no two symbols that it could still pair: neither a removed and an added
\* function of one name and different texts, nor two symbols that differ in digits only
\* (compare.cpp:468-517).
NothingLeftToPair ==
  /\ Signed => \A r \in DOMAIN removed \ remUsed : Candidates(r) = {}
  /\ Renamed => \A r \in DOMAIN removed, j \in DOMAIN added :
                  Blind(removed[r]) = Blind(added[j]) => r \in remUsed \/ j \in addUsed

\* An object set aside for a mass rename renames at least as many symbols as it removes and adds
\* otherwise, counted over the symbols themselves, and at least MassRenameMin (compare.cpp:538).
\* compare.hpp:86 says as many as all other symbol events; the code leaves the signature
\* changes of both passes out of the comparison, so nothing is promised about them.
MassRenameMeansMost ==
  massRename =>
    /\ renamed >= MassRenameMin
    /\ 3 * renamed + 2 * signatures >= Len(removed) + Len(added)

\* Why the first two hold: the types seen are those of the visits made that have changes, the events
\* are about types seen; the tallies hold the events judged so far.
Visited ==
  CASE pc \in {"load", "failed"} -> {}
    [] pc = "types" -> {n \in DOMAIN object.visits : n < i}
    [] OTHER -> DOMAIN object.visits
Changing(n) == object.visits[n].changes /\ object.visits[n].kind # "other"
VisitsInv ==
  /\ seen = {object.visits[n].type : n \in {m \in Visited : Changing(m)}}
  /\ \A n \in DOMAIN events : events[n].type \in seen
  /\ TypesCountedOnce

Judged ==
  CASE pc \in {"load", "types", "failed"} -> {}
    [] pc = "attribute" -> {n \in DOMAIN events : n < i}
    [] OTHER -> DOMAIN events
AttributionInv ==
  \A k \in TypeKinds :
    /\ counts["public"][k] = Total(events, {n \in Judged : events[n].kind = k /\ Own(events[n])})
    /\ counts["third_party"][k] = Total(events, {n \in Judged : events[n].kind = k /\ ~Own(events[n])})

\* METHODOLOGY.md:98-99: the visitor "counts each changed type once (dedupe by canonical type)"; for the
\* bases and the virtual slots of a class, which on_class counts at every visit.
EachTypeOnce ==
  Typed =>
    \A t \in seen :
      LET d == FirstVisit(t)
          of(k) == Total(events, Of(events, t, k))
      IN  /\ of("base_class_changed") = IF d.kind = "class" THEN d.bases ELSE 0
          /\ of("vtable_changed") = IF d.kind = "class" THEN SlotEvents(d) ELSE 0
=============================================================================
