------------------------------ MODULE MCStudy ------------------------------
(***************************************************************************)
(* An instance of Study for TLC: a transition of each of two libraries,    *)
(* with records of every kind.                                             *)
(***************************************************************************)
EXTENDS Study

CONSTANTS i1, i2, l1, l2

MCIds == {i1, i2}
MCSources == {l1, l2}
MCSourceOf == [i \in MCIds |-> IF i = i1 THEN l1 ELSE l2]

\* One event of each kind of K.
Tallied(K) == [k \in ChangeKind |-> IF k \in K THEN 1 ELSE 0]
Shared(l, K, f, so, m) ==
  [language |-> l, public |-> Tallied(K), third_party |-> Tallied(f), private_node |-> Tallied({}),
   soname_changed |-> so, mass_rename |-> m, debug_info_missing |-> so]
Record(objs) == [file |-> "pair", error |-> FALSE, objects |-> objs]

Layout == Shared("c", {"type_size_changed", "field_added_to_struct"}, {}, FALSE, FALSE)
Dispatch == Shared("cxx", {"vtable_changed"}, {"vtable_changed"}, FALSE, FALSE)
Removed == Shared("c", {"symbol_removed"}, {"enum_case_removed"}, TRUE, FALSE)
Quiet == Shared("unknown", {"symbol_added", "enum_case_added"}, {}, FALSE, FALSE)
Mass == Shared("cxx", {"symbol_version_renamed", "symbol_removed"}, {}, TRUE, TRUE)

\* A record with an error has no objects either.
MCPairs ==
  {NoFile, Unreadable, Record(<<>>), Record(<<Layout, Quiet>>),
   Record(<<Dispatch>>), Record(<<Removed, Layout>>), Record(<<Mass>>)}

Changes(b, m) ==
  [file |-> "header", diff |-> TRUE, coverage |-> [s \in {1, 2} |->
     [parsed |-> 3, with_errors |-> 0, with_fatal_error |-> b + m]],
   changes |-> [definitions_common |-> 1, inline_body_changed |-> b, macro_value_changed |-> m,
                macro_value_changed_nonversion |-> m]]

MCHeaderData ==
  {NoFile, [file |-> "header", diff |-> FALSE], Changes(1, 1)}
=============================================================================
