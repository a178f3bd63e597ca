---------------------------- MODULE ChangeKinds ----------------------------
(***************************************************************************)
(* The taxonomy of abi/model.hpp: the kinds of change, what each of the    *)
(* three framings of the study takes for a break, the mechanism that would *)
(* absorb a kind, and tallies (ChangeCounts: an absent key is a zero).     *)
(***************************************************************************)
EXTENDS Integers

MemberKinds ==
  {"field_added_to_struct", "field_removed_from_struct", "field_type_changed",
   "member_offset_changed", "type_size_changed"}
LayoutKinds == MemberKinds \cup {"base_class_changed"}
EnumKinds == {"enum_case_added", "enum_case_removed"}
HeaderKinds == {"inline_body_changed", "macro_value_changed"}
SymbolKinds == {"function_signature_changed", "symbol_removed", "symbol_added", "symbol_version_renamed"}
ChangeKind == LayoutKinds \cup EnumKinds \cup HeaderKinds \cup SymbolKinds \cup {"vtable_changed"}

\* The framings: is_binary_breaking, is_evolution_relevant, is_evolution_or_inline.
BinaryBreaking == LayoutKinds \cup {"vtable_changed", "function_signature_changed", "symbol_removed"}
\* (Seeded fault: enum cases in place of the vtable.)
EvolutionWithoutDispatch == (BinaryBreaking \ {"vtable_changed"}) \cup EnumKinds

EvolutionRelevant == BinaryBreaking \cup EnumKinds

EvolutionOrInline == EvolutionRelevant \cup {"inline_body_changed"}

\* mechanism_for, the mechanisms of the rescue tables first.
Mechanisms == {"opaque_layout", "non_frozen_enum", "resilient_dispatch", "no_implicit_inlining"}
MechanismFor(k) ==
  CASE k \in LayoutKinds -> "opaque_layout"
    [] k \in EnumKinds -> "non_frozen_enum"
    [] k = "vtable_changed" -> "resilient_dispatch"
    [] k \in HeaderKinds -> "no_implicit_inlining"
    [] k \in {"function_signature_changed", "symbol_removed"} -> "none"
    [] OTHER -> "not_applicable"
Absorbed(k) == MechanismFor(k) \in Mechanisms

\* ChangeCounts.
Tallies == [ChangeKind -> Nat]
NoCounts == [k \in ChangeKind |-> 0]
Add(c, k, n) == [c EXCEPT ![k] = @ + n]
Present(c) == {k \in ChangeKind : c[k] > 0}
=============================================================================
