----------------------------- MODULE DebVersion -----------------------------
(***************************************************************************)
(* The order of Debian versions (core/version.cpp): a version string is    *)
(* split into epoch, upstream part and revision, and two versions are      *)
(* compared part by part, each part run by run.  Two strings are compared  *)
(* both ways at once.                                                      *)
(***************************************************************************)
EXTENDS Integers, Sequences, FiniteSetsExt, SequencesExt

CONSTANTS
  Inputs,    \* pairs of strings to compare; a character is its ASCII code
  MaxEpoch   \* the largest epoch, 2^32 - 1 in the code

ASSUME VersionAssumption ==
  /\ MaxEpoch \in Nat
  /\ Inputs \subseteq Seq(1 .. 127) \X Seq(1 .. 127)

VARIABLES
  input,   \* the two strings; never changes
  parsed,  \* the two versions, or <<>>
  pc,      \* "parse", "compare", "done", "rejected"
  walk     \* walk[1] compares the first version with the second, walk[2] the other way

vars == <<input, parsed, pc, walk>>

Digits == 48 .. 57
IsDigit(c) == c \in Digits
IsAlpha(c) == c \in 65 .. 90 \cup 97 .. 122
Tilde == 126
Colon == 58
Hyphen == 45

weight(c) == IF c = Tilde THEN -1 ELSE IF IsAlpha(c) THEN c ELSE c + 256
Sign(n) == IF n < 0 THEN -1 ELSE IF n > 0 THEN 1 ELSE 0
-----------------------------------------------------------------------------
\* DebianVersion::parse.
Found(s, c) == {k \in DOMAIN s : s[k] = c}
NumberOf(s) == FoldLeft(LAMBDA n, c : 10 * n + c - 48, 0, s)

\* An epoch is digits and nothing else, and fits its type; without a colon it is 0.
EpochText(s) == SubSeq(s, 1, Min(Found(s, Colon)) - 1)
EpochOK(s) ==
  LET e == EpochText(s)
  IN  e # <<>> /\ (\A k \in DOMAIN e : IsDigit(e[k])) /\ NumberOf(e) \in 0 .. MaxEpoch
Epoch(s) == IF Found(s, Colon) = {} THEN 0 ELSE NumberOf(EpochText(s))
AfterEpoch(s) == IF Found(s, Colon) = {} THEN s ELSE SubSeq(s, Min(Found(s, Colon)) + 1, Len(s))

\* (Seeded fault: the revision begins at the first hyphen.)
FirstHyphen(r) == Min(Found(r, Hyphen))

Split(r) == Max(Found(r, Hyphen))

Upstream(s) ==
  LET r == AfterEpoch(s) IN IF Found(r, Hyphen) = {} THEN r ELSE SubSeq(r, 1, Split(r) - 1)
Revision(s) ==
  LET r == AfterEpoch(s) IN IF Found(r, Hyphen) = {} THEN <<>> ELSE SubSeq(r, Split(r) + 1, Len(r))

Accepted(s) ==
  /\ s # <<>>
  /\ Found(s, Colon) # {} => EpochOK(s)
  /\ Upstream(s) # <<>>
Version(s) == [epoch |-> Epoch(s), upstream |-> Upstream(s), revision |-> Revision(s)]

Start == [at |-> "epoch", i |-> 1, j |-> 1, result |-> 0]

Init ==
  /\ input \in Inputs
  /\ parsed = <<>> /\ pc = "parse" /\ walk = <<Start, Start>>

Parse ==
  /\ pc = "parse"
  /\ \A n \in 1 .. 2 : Accepted(input[n])
  /\ parsed' = <<Version(input[1]), Version(input[2])>>
  /\ pc' = "compare"
  /\ UNCHANGED <<input, walk>>

ParseFails ==
  /\ pc = "parse"
  /\ \E n \in 1 .. 2 : ~Accepted(input[n])
  /\ pc' = "rejected"
  /\ UNCHANGED <<input, parsed, walk>>
-----------------------------------------------------------------------------
\* compare_fragment on a and b: w.i and w.j are where it stands.
NonDigitAt(s, k) == k <= Len(s) /\ ~IsDigit(s[k])
WeightAt(s, k) == IF NonDigitAt(s, k) THEN weight(s[k]) ELSE 0
PastRun(s, k, chars) == Min({n \in k .. Len(s) + 1 : n = Len(s) + 1 \/ s[n] \notin chars})

Decide(w, n) == [at |-> "done", i |-> w.i, j |-> w.j, result |-> Sign(n)]
MoveTo(w, at, i, j) == [at |-> at, i |-> i, j |-> j, result |-> w.result]

\* A round of the loop over the non-digit runs.
LetterStep(w, a, b) ==
  LET d == WeightAt(a, w.i) - WeightAt(b, w.j)
  IN  IF d # 0 THEN Decide(w, d)
      ELSE MoveTo(w, w.at, IF NonDigitAt(a, w.i) THEN w.i + 1 ELSE w.i,
                           IF NonDigitAt(b, w.j) THEN w.j + 1 ELSE w.j)

\* (Seeded fault: the zeros are not skipped.)
WithZeros(s, k) == k

PastZeros(s, k) == PastRun(s, k, {48})

\* The digit runs, without their zeros: the longer is the greater, then the first digit that differs.
NumberStep(w, a, b) ==
  LET si == PastZeros(a, w.i)
      sj == PastZeros(b, w.j)
      i == PastRun(a, si, Digits)
      j == PastRun(b, sj, Digits)
      differ == {n \in 0 .. i - si - 1 : a[si + n] # b[sj + n]}
  IN  IF i - si # j - sj THEN Decide(w, (i - si) - (j - sj))
      ELSE IF differ # {} THEN Decide(w, a[si + Min(differ)] - b[sj + Min(differ)])
      ELSE MoveTo(w, w.at, i, j)

\* (Seeded fault: only the first string is looked at.)
FirstInLetters(w, a, b) == NonDigitAt(a, w.i)

InLetters(w, a, b) == NonDigitAt(a, w.i) \/ NonDigitAt(b, w.j)

\* (Seeded fault: the end is taken for a character.)
PastTheEnd(w, a, b) == w.i <= Len(a) + 1 \/ w.j <= Len(b)

NotAtEnd(w, a, b) == w.i <= Len(a) \/ w.j <= Len(b)

FragmentStep(w, a, b, then) ==
  IF InLetters(w, a, b) THEN LetterStep(w, a, b)
  ELSE IF NotAtEnd(w, a, b) THEN NumberStep(w, a, b)
  ELSE MoveTo(w, then, 1, 1)

\* operator<=>.
StepOf(w, v, u) ==
  CASE w.at = "epoch" -> IF v.epoch # u.epoch THEN Decide(w, v.epoch - u.epoch)
                                              ELSE MoveTo(w, "upstream", w.i, w.j)
    [] w.at = "upstream" -> FragmentStep(w, v.upstream, u.upstream, "revision")
    [] w.at = "revision" -> FragmentStep(w, v.revision, u.revision, "done")
    [] w.at = "done" -> w

Compare ==
  /\ pc = "compare"
  /\ walk' = <<StepOf(walk[1], parsed[1], parsed[2]), StepOf(walk[2], parsed[2], parsed[1])>>
  /\ pc' = IF \A n \in 1 .. 2 : walk'[n].at = "done" THEN "done" ELSE "compare"
  /\ UNCHANGED <<input, parsed>>

Ended == pc \in {"done", "rejected"} /\ UNCHANGED vars

Next == Parse \/ ParseFails \/ Compare \/ Ended

Spec == Init /\ [][Next]_vars

\* Nothing but the comparison runs, so it takes its steps.
FairSpec == Spec /\ WF_vars(Next)
-----------------------------------------------------------------------------

\* What deb-version(7) says: non-digit runs compare by the weights of their characters, digit runs as
\* numbers, and what is missing counts as 0.  Key holds the weights of a run, a 0 that ends
\* it, a number, and so on.
KeyStart == [runs |-> <<>>, digits |-> FALSE]
KeyStep(k, c) ==
  IF ~IsDigit(c) THEN [runs |-> Append(k.runs, weight(c)), digits |-> FALSE]
  ELSE IF k.digits THEN [k EXCEPT !.runs[Len(k.runs)] = 10 * @ + c - 48]
  ELSE [runs |-> k.runs \o <<0, c - 48>>, digits |-> TRUE]
KeyOf(s) == FoldLeft(KeyStep, KeyStart, s).runs
At(k, n) == IF n <= Len(k) THEN k[n] ELSE 0
OrderOf(k, m) ==
  LET differ == {n \in 1 .. Len(k) + Len(m) : At(k, n) # At(m, n)}
  IN  IF differ = {} THEN 0 ELSE Sign(At(k, Min(differ)) - At(m, Min(differ)))
\* The first of the orders that is not 0.
FirstOf(orders) == LET d == {n \in DOMAIN orders : orders[n] # 0} IN IF d = {} THEN 0 ELSE orders[Min(d)]

\* The comparison gives the order of deb-version(7), for every pair of strings
\* (version.hpp:57-67, version.cpp:32-66, 100-106); so it is a strict weak order, and two
\* versions compare equal iff the three parts do.
AsDebVersion ==
  pc = "done" =>
    walk[1].result =
      LET v == parsed[1]
          u == parsed[2]
      IN  FirstOf(<<Sign(v.epoch - u.epoch), OrderOf(KeyOf(v.upstream), KeyOf(u.upstream)),
                    OrderOf(KeyOf(v.revision), KeyOf(u.revision))>>)

\* The two ways to compare go through the same places and give opposite results, so a version
\* compared with itself is equal (version.cpp:32-66, 100-106).
Antisymmetric ==
  /\ walk[1].at = walk[2].at /\ walk[1].i = walk[2].j /\ walk[1].j = walk[2].i
  /\ walk[1].result = -walk[2].result
  /\ input[1] = input[2] => walk[1].result = 0

\* The parts put together again are the string: nothing of it is lost or in two parts, and only the upstream
\* part has hyphens of its own (version.cpp:74-92).
PartsAreTheString ==
  parsed # <<>> =>
    \A n \in 1 .. 2 :
      LET v == parsed[n]
          r == AfterEpoch(input[n])
      IN  /\ r \in {v.upstream, v.upstream \o <<Hyphen>> \o v.revision}
          /\ r = v.upstream => Found(r, Hyphen) = {}
          /\ Found(v.revision, Hyphen) = {} /\ v.upstream # <<>>

\* Every comparison ends (version.cpp:35-64: each round moves on or returns).
Terminates == <>(pc \in {"done", "rejected"})
=============================================================================
