----------------------------- MODULE MCCompare -----------------------------
(***************************************************************************)
(* Instances of Compare for TLC: objects with any two visits and no        *)
(* symbols, and objects with any few symbols and no visits.                *)
(***************************************************************************)
EXTENDS Compare

CONSTANTS t1, t2, own, other, none

MCTypes == {t1, t2}
MCHeaders == {own, other}
MCMembers == {"m", "n"}

Node(k, t, h, f, s, r, b, s1, s2, n) ==
  [kind |-> k, changes |-> TRUE, type |-> t, declared |-> h, first |-> f, second |-> s, reported |-> r,
   resized |-> f # s, bases |-> b, slots1 |-> s1, slots2 |-> s2, casesAdded |-> n, casesRemoved |-> b]

NoMembers == [m \in {} |-> 0]
Small == {[x \in S |-> [type |-> t[x], offset |-> o[x]]] :
            S \in SUBSET MCMembers, t \in [MCMembers -> {"int", "long"}], o \in [MCMembers -> 0 .. 1]}

Reports(f, s) ==
  {r \in SUBSET (DOMAIN f \cap DOMAIN s) : \A m \in DOMAIN f \cap DOMAIN s : f[m].type # s[m].type => m \in r}

Layout == [x \in MCMembers |-> [type |-> "int", offset |-> IF x = "m" THEN 0 ELSE 1]]

\* Every change of a layout of two members, whatever of it is reported.
Records ==
  UNION {{Node(k, t1, own, Layout, s, r, 0, NoMembers, NoMembers, 0) : r \in Reports(Layout, s)} :
           s \in Small, k \in {"union"}}

Virtual == {NoMembers, [x \in {"m"} |-> 0], [x \in {"m"} |-> 1], [x \in MCMembers |-> 0]}
Classes ==
  {Node("class", t, h, Layout, [Layout EXCEPT !["n"].offset = 2], {}, b, s1, s2, 0) :
     t \in {t1, t2}, h \in {own, other, none}, b \in 0 .. 1, s1 \in Virtual, s2 \in Virtual}
Enums == {Node("enum", t2, h, NoMembers, NoMembers, {}, b, NoMembers, NoMembers, n) :
            h \in {own, other}, b \in 0 .. 1, n \in 0 .. 2}
Plain == {[e EXCEPT !.kind = "other"] : e \in Enums} \cup {[e EXCEPT !.changes = FALSE] : e \in Enums}

Visits ==
  {<<a, b>> : a \in Records, b \in Enums} \cup {<<a, a>> : a \in Records \cup Classes}
    \cup {<<a, b, a>> : a \in Enums \cup Plain, b \in {c \in Classes : c.bases = 1 /\ c.declared # own}}

TypeObjects ==
  {[visits |-> v, headers |-> h, deleted |-> {}, added |-> {}, changed |-> <<>>,
    exported |-> 10, mangled |-> 2] : v \in Visits, h \in {{}, {own}}}

Sym(st, n, t, p, pr, fn, g) ==
  [stem |-> st, number |-> n, pretty |-> t, pairing |-> p, private |-> pr, is_function |-> fn, generated |-> g]

\* f(int), f(long) and f(char) of one name, C symbols that differ in digits, a private one, a variable, a vtable.
Universe ==
  {Sym("f", 1, "int", "f", FALSE, TRUE, FALSE), Sym("f", 2, "long", "f", FALSE, TRUE, FALSE),
   Sym("g", 1, "char", "f", TRUE, TRUE, FALSE), Sym("g", 0, "int", "f", FALSE, TRUE, FALSE),
   Sym("h", 71, "int", "h1", FALSE, TRUE, FALSE), Sym("h", 72, "int", "h2", TRUE, TRUE, FALSE),
   Sym("h", 73, "int", "h3", FALSE, FALSE, FALSE), Sym("v", 0, "int", "f", FALSE, FALSE, TRUE)}

UpTo(S, n) == {T \in SUBSET S : Cardinality(T) <= n}

SymbolObjects ==
  UNION {{[visits |-> <<>>, headers |-> {}, deleted |-> d, added |-> a, changed |-> c,
           exported |-> 0, mangled |-> 0] :
            a \in UpTo(Universe \ d, 3),
            c \in {<<>>, <<[private |-> TRUE, signature |-> TRUE], [private |-> FALSE, signature |-> FALSE]>>}} :
         d \in UpTo(Universe, 3)}

\* Two or fewer renames beside up to three plain events.
C(st, n) == Sym(st, n, "int", "c", FALSE, TRUE, FALSE)
RenameObjects ==
  {[visits |-> <<>>, headers |-> {}, deleted |-> {C("h", 1), C("g", 1)} \cup d,
    added |-> {C("h", n), C("g", 2)} \cup a, changed |-> <<>>, exported |-> 9, mangled |-> 1] :
     n \in {0, 2}, d \in SUBSET {C("f", 0)}, a \in SUBSET {C("f", 3), C("v", 0)}}

MCObjects == RenameObjects \cup TypeObjects \cup SymbolObjects
=============================================================================
