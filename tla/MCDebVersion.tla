---------------------------- MODULE MCDebVersion ----------------------------
(***************************************************************************)
(* Instances of DebVersion for TLC: every pair of upstream versions of up  *)
(* to four characters, and every pair of some versions with epochs and    *)
(* revisions, malformed ones included.                                     *)
(***************************************************************************)
EXTENDS DebVersion

\* Over ~ . a 0 1, and longer ones over ~ a 0 1.
Short == UNION {[1 .. n -> {126, 46, 97, 48, 49}] : n \in 1 .. 3}
Longer == UNION {[1 .. n -> {126, 97, 48, 49}] : n \in 3 .. 4}

Heads == {<<>>, <<49, 58>>, <<48, 58>>, <<49, 48, 58>>, <<58>>, <<97, 58>>}
Tails == {<<>>, <<45>>, <<45, 48>>, <<45, 49>>, <<45, 49, 45, 49>>, <<45, 126>>}
Whole == {h \o u \o t : h \in Heads, u \in {<<>>, <<49>>, <<49, 126>>}, t \in Tails}

MCInputs == (Short \X Short) \cup (Longer \X Longer) \cup (Whole \X Whole)
=============================================================================
