---------------------------- MODULE HeaderIndex ----------------------------
(***************************************************************************)
(* hdr::index on the headers of two releases, hdr::compare on the two      *)
(* indexes, and what of it all the record of the pair keeps on disk.       *)
(*                                                                         *)
(* A header is parsed by itself, with all it includes: one definition is   *)
(* met in many units, and a unit may see another body than the last one    *)
(* did, for what its own header defined before.  libclang is a choice:     *)
(* whether the unit is created, its worst diagnostic and what it declares. *)
(***************************************************************************)
EXTENDS Integers, FiniteSets, Functions

CONSTANTS
  Keys,        \* USRs of definitions
  Templates,   \* those of templates
  Bodies,      \* fingerprints of bodies
  Signatures,  \* fingerprints of declarations
  Macros,      \* object-like macros of the public headers
  Stamps,      \* those named like a version or a build stamp
  Values,      \* fingerprints of their values
  Units,       \* what libclang makes of one header
  MaxHeaders,  \* bound: headers of a release
  MaxFiles     \* Options::max_files

Definition == [decl : Signatures, body : Bodies]
Maps(K, V) == UNION {[S -> V] : S \in SUBSET K}

\* The worst diagnostic of a unit, the definitions and the macros with a value that are met in it,
\* and those of them that a file of this very package declares.
Unit == [worst : {"clean", "error", "fatal"}, definitions : Maps(Keys, Definition),
         macros : Maps(Macros, Values), own : SUBSET (Keys \cup Macros)]

ASSUME IndexAssumption ==
  /\ Units \subseteq Unit
  /\ IsFiniteSet(Keys) /\ Templates \subseteq Keys
  /\ IsFiniteSet(Macros) /\ Stamps \subseteq Macros
  /\ MaxHeaders \in Nat /\ MaxFiles \in Nat

VARIABLES
  pc,      \* which release is indexed, or what comes after
  files,   \* headers of that release not looked at yet
  index,   \* HeaderIndex of either release
  bodies,  \* history: the bodies met for a key in a release
  record   \* what the pair record holds once it is written

vars == <<pc, files, index, bodies, record>>

Sides == {1, 2}
NoCoverage == [header_files |-> 0, parsed |-> 0, with_fatal_error |-> 0, with_errors |-> 0,
               skipped_by_limit |-> 0]
None == [k \in {} |-> 0]
Empty == [definitions |-> None, macros |-> None, coverage |-> NoCoverage, done |-> 0, failed |-> 0]
Nothing == [written |-> FALSE]

Init ==
  /\ pc = "list1" /\ files = 0
  /\ index = [s \in Sides |-> Empty]
  /\ bodies = [s \in Sides |-> [k \in Keys |-> {}]]
  /\ record = Nothing
-----------------------------------------------------------------------------
Listing(s) == pc = IF s = 1 THEN "list1" ELSE "list2"
Parsing(s) == pc = IF s = 1 THEN "parse1" ELSE "parse2"

\* index: all headers under the root, in the order of their names.
ListHeaders(s) ==
  /\ Listing(s)
  /\ \E n \in 0 .. MaxHeaders :
       /\ files' = n
       /\ index' = [index EXCEPT ![s].coverage.header_files = n]
  /\ pc' = IF s = 1 THEN "parse1" ELSE "parse2"
  /\ UNCHANGED <<bodies, record>>

\* clang_createIndex fails: the release has no index, the pair no comparison.
NoIndex(s) ==
  /\ Listing(s) /\ pc' = "failed"
  /\ UNCHANGED <<files, index, bodies, record>>

\* (Seeded fault: a header over the limit is skipped unseen.)
DropHeader(s) ==
  /\ Parsing(s) /\ files > 0
  /\ index[s].done >= MaxFiles
  /\ files' = files - 1
  /\ UNCHANGED <<pc, index, bodies, record>>

SkipHeader(s) ==
  /\ Parsing(s) /\ files > 0
  /\ index[s].done >= MaxFiles
  /\ files' = files - 1
  /\ index' = [index EXCEPT ![s].coverage.skipped_by_limit = @ + 1]
  /\ UNCHANGED <<pc, bodies, record>>

\* visit: only what a file of the package declares, whichever unit includes it.
OwnOf(m, u) == Restrict(m, DOMAIN m \cap u.own)

\* The unit met last decides.
Overwrite(old, new) ==
  [k \in DOMAIN old \cup DOMAIN new |-> IF k \in DOMAIN new THEN new[k] ELSE old[k]]

AddUnit(c, worst) ==
  [c EXCEPT !.parsed = @ + 1,
            !.with_fatal_error = @ + (IF worst = "fatal" THEN 1 ELSE 0),
            !.with_errors = @ + (IF worst \in {"error", "fatal"} THEN 1 ELSE 0)]

AddHeader(x, u) ==
  [x EXCEPT !.done = @ + 1,
            !.coverage = AddUnit(@, u.worst),
            !.definitions = Overwrite(@, OwnOf(u.definitions, u)),
            !.macros = Overwrite(@, OwnOf(u.macros, u))]

ParseHeader(s) ==
  /\ Parsing(s) /\ files > 0
  /\ index[s].done < MaxFiles
  /\ files' = files - 1
  /\ \E u \in Units : LET found == OwnOf(u.definitions, u) IN
       /\ index' = [index EXCEPT ![s] = AddHeader(@, u)]
       /\ bodies' = [bodies EXCEPT ![s] =
            [k \in Keys |-> IF k \in DOMAIN found THEN @[k] \cup {found[k].body} ELSE @[k]]]
  /\ UNCHANGED <<pc, record>>

\* The unit is not created: no counter says so.
ParseFails(s) ==
  /\ Parsing(s) /\ files > 0
  /\ index[s].done < MaxFiles
  /\ files' = files - 1
  /\ index' = [index EXCEPT ![s].done = @ + 1, ![s].failed = @ + 1]
  /\ UNCHANGED <<pc, bodies, record>>

EndIndex(s) ==
  /\ Parsing(s) /\ files = 0
  /\ pc' = IF s = 1 THEN "list2" ELSE "compare"
  /\ UNCHANGED <<files, index, bodies, record>>
-----------------------------------------------------------------------------
\* hdr::compare.
Common(a, b) == DOMAIN a \cap DOMAIN b
Differ(a, b, f) == {k \in Common(a, b) : a[k][f] # b[k][f]}
MacrosDiffer(a, b) == {m \in Common(a, b) : a[m] # b[m]}

\* (Seeded fault: a declaration that differs makes another definition.)
BodiesOfSameDeclaration(a, b) == Differ(a, b, "body") \ Differ(a, b, "decl")

BodiesDiffer(a, b) == Differ(a, b, "body")

Compared(a, b) ==
  LET d == a.definitions
      e == b.definitions
      changed == BodiesDiffer(d, e)
  IN  [definitions_1 |-> Cardinality(DOMAIN d), definitions_2 |-> Cardinality(DOMAIN e),
       definitions_common |-> Cardinality(Common(d, e)),
       definitions_removed |-> Cardinality(DOMAIN d \ DOMAIN e),
       definitions_added |-> Cardinality(DOMAIN e \ DOMAIN d),
       inline_body_changed |-> Cardinality(changed),
       inline_body_changed_template |-> Cardinality(changed \cap Templates),
       inline_decl_changed |-> Cardinality(Differ(d, e, "decl")),
       macros_1 |-> Cardinality(DOMAIN a.macros), macros_2 |-> Cardinality(DOMAIN b.macros),
       macros_common |-> Cardinality(Common(a.macros, b.macros)),
       macro_value_changed |-> Cardinality(MacrosDiffer(a.macros, b.macros)),
       macro_value_changed_nonversion |-> 0]

\* to_json and from_json: a coverage loses its errors, and a difference has the
\* macros that changed for those that changed and are no stamps.
StoredCoverage(c) == [c EXCEPT !.with_errors = 0]
StoredDiff(d) == [d EXCEPT !.macro_value_changed_nonversion = d.macro_value_changed]

\* The comparison, the record and what a reader makes of it.
Compare ==
  /\ pc = "compare" /\ pc' = "done"
  /\ record' = [written |-> TRUE,
                diff |-> StoredDiff(Compared(index[1], index[2])),
                coverage |-> [s \in Sides |-> StoredCoverage(index[s].coverage)]]
  /\ UNCHANGED <<files, index, bodies>>

Ended == pc \in {"done", "failed"} /\ UNCHANGED vars

Next ==
  \/ \E s \in Sides : ListHeaders(s) \/ NoIndex(s) \/ SkipHeader(s) \/ ParseHeader(s)
                        \/ ParseFails(s) \/ EndIndex(s)
  \/ Compare \/ Ended

Spec == Init /\ [][Next]_vars
-----------------------------------------------------------------------------
\* What index.hpp states after index() and compare(), for the record on disk: no header and no
\* definition is lost between the counters (index.hpp:81-82, 119; index.cpp:275-371).
CountersAddUp ==
  record.written =>
    LET d == record.diff
    IN  /\ \A s \in Sides :
             LET c == record.coverage[s]
             IN  /\ c.header_files = c.parsed + index[s].failed + c.skipped_by_limit
                 /\ c.with_fatal_error <= c.parsed
        /\ d.definitions_1 = d.definitions_common + d.definitions_removed
        /\ d.definitions_2 = d.definitions_common + d.definitions_added
        /\ d.inline_body_changed <= d.definitions_common
        /\ d.inline_body_changed_template <= d.inline_body_changed
        /\ d.macro_value_changed <= d.macros_common

\* What the units of a release agree on is compared as they saw it: a definition whose units all
\* met one body on each side counts as changed exactly if the two differ; only one whose units
\* disagree is left to the order of the headers (index.cpp:214, 332-360).
AgreedBodiesDecide ==
  record.written =>
    LET agreed == {k \in Keys : \A s \in Sides : Cardinality(bodies[s][k]) = 1}
        shared == {k \in Keys : \A s \in Sides : bodies[s][k] # {}}
        changed == {k \in agreed : bodies[1][k] # bodies[2][k]}
    IN  /\ record.diff.definitions_common = Cardinality(shared)
        /\ record.diff.inline_body_changed >= Cardinality(changed)
        /\ record.diff.inline_body_changed <= Cardinality(changed) + Cardinality(shared \ agreed)

\* METHODOLOGY.md:141-144: macros are reported "both in full and with version/build stamps excluded".
StampsExcluded ==
  record.written =>
    record.diff.macro_value_changed_nonversion =
      Cardinality(MacrosDiffer(index[1].macros, index[2].macros) \ Stamps)
=============================================================================
