-------------------------- MODULE DebVersionProofs --------------------------
(***************************************************************************)
(* Proofs about the versions of any two strings: how a string is split,    *)
(* that the two ways to compare mirror each other, and that the walk over  *)
(* two strings gives the order of their keys.                              *)
(***************************************************************************)
EXTENDS DebVersion, Inductions, SequenceTheorems, WellFoundedInduction, TLAPS

Chars == 1 .. 127
VersionType == [epoch : Nat, upstream : Seq(Chars), revision : Seq(Chars)]

Places == {"epoch", "upstream", "revision", "done"}
Walk == [at : Places, i : Nat, j : Nat, result : Int]
Inside(w, a, b) == w \in Walk /\ w.i \in 1 .. Len(a) + 1 /\ w.j \in 1 .. Len(b) + 1

\* Where a comparison of v with u is.
WalkOK(w, v, u) ==
  /\ w \in Walk
  /\ w.at = "epoch" => w.i = 1 /\ w.j = 1
  /\ w.at = "upstream" => Inside(w, v.upstream, u.upstream)
  /\ w.at = "revision" => Inside(w, v.revision, u.revision)

\* The comparison the other way.
Mirror(w) == [at |-> w.at, i |-> w.j, j |-> w.i, result |-> -w.result]
Even(w) == w.i = w.j /\ w.result = 0

IInv ==
  /\ input \in Inputs
  /\ pc \in {"parse", "compare", "done", "rejected"}
  /\ pc \in {"parse", "rejected"} => parsed = <<>> /\ walk = <<Start, Start>>
  /\ pc \in {"compare", "done"} =>
       /\ \A n \in 1 .. 2 : Accepted(input[n])
       /\ parsed = <<Version(input[1]), Version(input[2])>>
       /\ WalkOK(walk[1], parsed[1], parsed[2])
       /\ walk = <<walk[1], Mirror(walk[1])>>
       /\ input[1] = input[2] => Even(walk[1])

(***************************************************************************)
(* The smallest and the greatest of some numbers.                          *)
(***************************************************************************)
LEMMA LessThan == OpToRel(<, Nat) = {ss \in Nat \X Nat : ss[1] < ss[2]}
BY Zenon DEF OpToRel

LEMMA MinIn ==
  ASSUME NEW S, S \subseteq Nat, S # {}
  PROVE  Min(S) \in S /\ \A y \in S : Min(S) <= y
<1> DEFINE R == OpToRel(<, Nat)
<1>1. IsWellFoundedOn(R, Nat)
  BY NatLessThanWellFounded
<1>2. R = {ss \in Nat \X Nat : ss[1] < ss[2]}
  BY LessThan
<1> HIDE DEF R
<1>3. PICK x \in S : \A y \in S : ~ (<<y, x>> \in R)
  BY <1>1, WFMin
<1>4. \A y \in S : x <= y
  <2> SUFFICES ASSUME NEW y \in S, ~ (x <= y) PROVE FALSE
    OBVIOUS
  <2>1. y < x /\ y \in Nat /\ x \in Nat
    OBVIOUS
  <2>2. <<y, x>> \in {ss \in Nat \X Nat : ss[1] < ss[2]}
    BY <2>1
  <2> QED
    BY <1>2, <1>3, <2>2
<1> QED
  BY <1>4 DEF Min

LEMMA MaxIn ==
  ASSUME NEW n \in Nat, NEW S, S \subseteq 1 .. n, S # {}
  PROVE  Max(S) \in S /\ \A y \in S : y <= Max(S)
<1> DEFINE T == {m \in 0 .. n : n - m \in S}
<1>1. T \subseteq Nat
  OBVIOUS
<1>2. T # {}
  <2>1. PICK y \in S : TRUE
    OBVIOUS
  <2>2. y \in 1 .. n
    OBVIOUS
  <2>3. n - y \in 0 .. n /\ n - (n - y) = y
    BY <2>2
  <2> QED
    BY <2>1, <2>3
<1>3. Min(T) \in T /\ \A m \in T : Min(T) <= m
  BY <1>1, <1>2, MinIn
<1> DEFINE x == n - Min(T)
<1>4. x \in S
  BY <1>3
<1>5. \A y \in S : y <= x
  <2> SUFFICES ASSUME NEW y \in S PROVE y <= x
    OBVIOUS
  <2>1. y \in 1 .. n
    OBVIOUS
  <2>2. n - y \in T
    <3>1. n - y \in 0 .. n /\ n - (n - y) = y
      BY <2>1
    <3> QED
      BY <3>1
  <2>3. Min(T) <= n - y /\ Min(T) \in 0 .. n
    BY <1>3, <2>2
  <2> QED
    BY <2>1, <2>3
<1> HIDE DEF x
<1>6. \E z \in S : \A y \in S : z >= y
  <2>1. \A y \in S : x >= y
    <3> SUFFICES ASSUME NEW y \in S PROVE x >= y
      OBVIOUS
    <3>1. y <= x
      BY <1>5
    <3> QED
      BY <3>1
  <2> QED
    BY <1>4, <2>1
<1>7. Max(S) \in S /\ \A y \in S : Max(S) >= y
  BY <1>6 DEF Max
<1> QED
  BY <1>7

(***************************************************************************)
(* DebianVersion::parse.                                                   *)
(***************************************************************************)
LEMMA FoundIn ==
  ASSUME NEW s \in Seq(Chars), NEW c
  PROVE  Found(s, c) \subseteq 1 .. Len(s) /\ Len(s) \in Nat
BY DEF Found

LEMMA PartTyped ==
  ASSUME NEW s \in Seq(Chars), NEW m \in Nat \ {0}, NEW n \in 0 .. Len(s)
  PROVE  /\ SubSeq(s, m, n) \in Seq(Chars)
         /\ Len(SubSeq(s, m, n)) = IF m <= n THEN n - m + 1 ELSE 0
         /\ \A k \in 1 .. n - m + 1 : SubSeq(s, m, n)[k] = s[m + k - 1]
<1>1. \A k \in m .. n : s[k] \in Chars
  OBVIOUS
<1> QED
  BY <1>1, SubSeqProperties

LEMMA AfterEpochTyped ==
  ASSUME NEW s \in Seq(Chars)
  PROVE  AfterEpoch(s) \in Seq(Chars)
<1>1. CASE Found(s, Colon) = {}
  BY <1>1 DEF AfterEpoch
<1>2. CASE Found(s, Colon) # {}
  <2>1. Min(Found(s, Colon)) \in 1 .. Len(s) /\ Len(s) \in Nat
    <3>1. Found(s, Colon) \subseteq 1 .. Len(s) /\ Len(s) \in Nat
      BY FoundIn
    <3>2. Found(s, Colon) \subseteq Nat
      BY <3>1
    <3> QED
      BY <1>2, <3>1, <3>2, MinIn
  <2>2. Min(Found(s, Colon)) + 1 \in Nat \ {0} /\ Len(s) \in 0 .. Len(s)
    BY <2>1
  <2> QED
    BY <1>2, <2>2, PartTyped DEF AfterEpoch
<1> QED
  BY <1>1, <1>2

\* The last hyphen divides what follows the epoch.
LEMMA SplitParts ==
  ASSUME NEW r \in Seq(Chars), Found(r, Hyphen) # {}
  PROVE  /\ SubSeq(r, 1, Split(r) - 1) \in Seq(Chars)
         /\ SubSeq(r, Split(r) + 1, Len(r)) \in Seq(Chars)
         /\ r = SubSeq(r, 1, Split(r) - 1) \o <<Hyphen>> \o SubSeq(r, Split(r) + 1, Len(r))
         /\ Found(SubSeq(r, Split(r) + 1, Len(r)), Hyphen) = {}
<1>1. Found(r, Hyphen) \subseteq 1 .. Len(r) /\ Len(r) \in Nat
  BY FoundIn
<1>2. Max(Found(r, Hyphen)) \in Found(r, Hyphen) /\ \A y \in Found(r, Hyphen) : y <= Max(Found(r, Hyphen))
  BY <1>1, MaxIn
<1>3. PICK k : k = Split(r)
  OBVIOUS
<1>4. k \in 1 .. Len(r) /\ r[k] = Hyphen /\ \A y \in 1 .. Len(r) : r[y] = Hyphen => y <= k
  BY <1>1, <1>2, <1>3 DEF Split, Found
<1>5. PICK n : n = Len(r)
  OBVIOUS
<1> DEFINE U == SubSeq(r, 1, k - 1)
           R == SubSeq(r, k + 1, n)
<1>6. /\ U \in Seq(Chars) /\ Len(U) = k - 1 /\ \A q \in 1 .. k - 1 : U[q] = r[q]
  <2>1. k - 1 \in 0 .. Len(r) /\ 1 \in Nat \ {0} /\ k \in Nat
    BY <1>1, <1>4
  <2>2. /\ U \in Seq(Chars) /\ Len(U) = IF 1 <= k - 1 THEN k - 1 - 1 + 1 ELSE 0
        /\ \A q \in 1 .. k - 1 - 1 + 1 : U[q] = r[1 + q - 1]
    BY <2>1, PartTyped
  <2>3. Len(U) = k - 1
    BY <1>1, <1>4, <2>2
  <2>4. \A q \in 1 .. k - 1 : U[q] = r[q]
    <3> SUFFICES ASSUME NEW q \in 1 .. k - 1 PROVE U[q] = r[q]
      OBVIOUS
    <3>1. q \in 1 .. k - 1 - 1 + 1 /\ 1 + q - 1 = q
      BY <2>1
    <3> QED
      BY <2>2, <3>1
  <2> QED
    BY <2>2, <2>3, <2>4
<1>7. /\ R \in Seq(Chars) /\ Len(R) = n - k /\ \A q \in 1 .. n - k : R[q] = r[k + q]
  <2>1. n \in 0 .. Len(r) /\ k + 1 \in Nat \ {0} /\ k \in Nat /\ n \in Nat
    BY <1>1, <1>4, <1>5
  <2>2. /\ R \in Seq(Chars) /\ Len(R) = IF k + 1 <= n THEN n - (k + 1) + 1 ELSE 0
        /\ \A q \in 1 .. n - (k + 1) + 1 : R[q] = r[k + 1 + q - 1]
    BY <2>1, PartTyped
  <2>3. Len(R) = n - k
    BY <1>1, <1>4, <1>5, <2>2
  <2>4. \A q \in 1 .. n - k : R[q] = r[k + q]
    <3> SUFFICES ASSUME NEW q \in 1 .. n - k PROVE R[q] = r[k + q]
      OBVIOUS
    <3>1. q \in 1 .. n - (k + 1) + 1 /\ k + 1 + q - 1 = k + q
      BY <2>1
    <3> QED
      BY <2>2, <3>1
  <2> QED
    BY <2>2, <2>3, <2>4
<1> HIDE DEF U, R
<1>8. Found(R, Hyphen) = {}
  <2> SUFFICES ASSUME NEW q \in 1 .. n - k, R[q] = Hyphen PROVE FALSE
    BY <1>7 DEF Found
  <2>1. k + q \in 1 .. Len(r) /\ r[k + q] = Hyphen /\ ~ (k + q <= k)
    BY <1>1, <1>4, <1>5, <1>7
  <2> QED
    BY <1>4, <2>1
<1>9. r = U \o <<Hyphen>> \o R
  <2> DEFINE t == U \o <<Hyphen>> \o R
  <2>1. Hyphen \in Chars
    BY DEF Hyphen, Chars
  <2>2. t \in Seq(Chars) /\ Len(t) = n
    BY <1>1, <1>4, <1>5, <1>6, <1>7, <2>1
  <2>3. \A q \in 1 .. n : t[q] = r[q]
    <3> SUFFICES ASSUME NEW q \in 1 .. n PROVE t[q] = r[q]
      OBVIOUS
    <3>1. CASE q < k
      <4>1. q \in 1 .. k - 1 /\ q \in 1 .. Len(U)
        BY <1>4, <1>6, <3>1
      <4>2. t[q] = U[q]
        BY <1>6, <1>7, <4>1
      <4> QED
        BY <1>6, <4>1, <4>2
    <3>2. CASE q = k
      BY <1>1, <1>4, <1>5, <1>6, <1>7, <3>2
    <3>3. CASE q > k
      <4>1. q - k \in 1 .. n - k /\ k + (q - k) = q
        BY <1>1, <1>4, <1>5, <3>3
      <4>2. t[q] = R[q - k]
        BY <1>1, <1>4, <1>5, <1>6, <1>7, <3>3
      <4> QED
        BY <1>7, <4>1, <4>2
    <3>4. q \in Nat /\ k \in Nat
      BY <1>4
    <3>5. q < k \/ q = k \/ q > k
      BY <3>4
    <3> QED
      BY <3>1, <3>2, <3>3, <3>5
  <2> HIDE DEF t
  <2>4. t = r
    BY <1>5, <2>2, <2>3
  <2> QED
    BY <2>4 DEF t
<1> QED
  BY <1>3, <1>5, <1>6, <1>7, <1>8, <1>9 DEF U, R

LEMMA PartsTyped ==
  ASSUME NEW s \in Seq(Chars)
  PROVE  Upstream(s) \in Seq(Chars) /\ Revision(s) \in Seq(Chars)
<1>1. AfterEpoch(s) \in Seq(Chars) /\ <<>> \in Seq(Chars)
  BY AfterEpochTyped
<1>2. CASE Found(AfterEpoch(s), Hyphen) = {}
  BY <1>1, <1>2 DEF Upstream, Revision
<1>3. CASE Found(AfterEpoch(s), Hyphen) # {}
  BY <1>1, <1>3, SplitParts DEF Upstream, Revision
<1> QED
  BY <1>2, <1>3

LEMMA VersionTyped ==
  ASSUME NEW s \in Seq(Chars), Accepted(s)
  PROVE  Version(s) \in VersionType
<1>1. Epoch(s) \in Nat
  BY VersionAssumption DEF Accepted, Epoch, EpochOK
<1> QED
  BY <1>1, PartsTyped DEF Version, VersionType

(***************************************************************************)
(* compare_fragment on a and b, and on b and a.                            *)
(***************************************************************************)
LEMMA SignTwoWays ==
  ASSUME NEW n \in Int
  PROVE  Sign(n) \in Int /\ Sign(-n) = -Sign(n)
BY DEF Sign

LEMMA WalkFields ==
  ASSUME NEW w \in Walk
  PROVE  /\ w.at \in Places /\ w.i \in Nat /\ w.j \in Nat
         /\ w.result \in Int /\ -w.result \in Int
         /\ w = [at |-> w.at, i |-> w.i, j |-> w.j, result |-> w.result]
         /\ Mirror(w) \in Walk
<1>1. /\ w.at \in Places /\ w.i \in Nat /\ w.j \in Nat
      /\ w.result \in Int
      /\ w = [at |-> w.at, i |-> w.i, j |-> w.j, result |-> w.result]
  BY DEF Walk
<1>2. -w.result \in Int
  BY <1>1
<1>3. [at |-> w.at, i |-> w.j, j |-> w.i, result |-> -w.result] \in Walk
  BY <1>1, <1>2 DEF Walk
<1> QED
  BY <1>1, <1>2, <1>3 DEF Mirror

LEMMA MirrorDecide ==
  ASSUME NEW w \in Walk, NEW n \in Int
  PROVE  /\ Decide(w, n) \in Walk /\ Decide(w, n).at = "done"
         /\ Decide(Mirror(w), -n) = Mirror(Decide(w, n))
         /\ Decide(w, n).i = w.i /\ Decide(w, n).j = w.j
<1>1. PICK r, m : r = Sign(n) /\ m = Sign(-n)
  OBVIOUS
<1>2. r \in Int /\ m = -r
  <2>1. Sign(n) \in Int /\ Sign(-n) = -Sign(n)
    BY SignTwoWays
  <2> QED
    BY <1>1, <2>1
<1>3. w.i \in Nat /\ w.j \in Nat /\ w = [at |-> w.at, i |-> w.i, j |-> w.j, result |-> w.result]
  BY WalkFields
<1>4. Decide(w, n) = [at |-> "done", i |-> w.i, j |-> w.j, result |-> r]
  BY <1>1 DEF Decide
<1>5. Decide(Mirror(w), -n) = [at |-> "done", i |-> w.j, j |-> w.i, result |-> m]
  BY <1>1 DEF Decide, Mirror
<1>6. [at |-> "done", i |-> w.i, j |-> w.j, result |-> r] \in Walk
  BY <1>2, <1>3 DEF Walk, Places
<1> QED
  BY <1>2, <1>4, <1>5, <1>6 DEF Mirror

LEMMA MirrorMove ==
  ASSUME NEW w \in Walk, NEW at \in Places, NEW i \in Nat, NEW j \in Nat
  PROVE  /\ MoveTo(w, at, i, j) \in Walk
         /\ MoveTo(w, at, i, j).at = at /\ MoveTo(w, at, i, j).i = i /\ MoveTo(w, at, i, j).j = j
         /\ MoveTo(w, at, i, j).result = w.result
         /\ MoveTo(Mirror(w), at, j, i) = Mirror(MoveTo(w, at, i, j))
<1>1. w.result \in Int
  BY WalkFields
<1>2. MoveTo(w, at, i, j) \in Walk
  BY <1>1 DEF Walk, MoveTo
<1> QED
  BY <1>2 DEF Mirror, MoveTo

LEMMA WeightTyped ==
  ASSUME NEW s \in Seq(Chars), NEW k \in Nat \ {0}
  PROVE  WeightAt(s, k) \in Int
<1>1. CASE NonDigitAt(s, k)
  <2>1. k \in 1 .. Len(s)
    BY <1>1 DEF NonDigitAt
  <2>2. PICK c \in Chars : c = s[k]
    BY <2>1
  <2>3. c \in Int /\ c + 256 \in Int /\ -1 \in Int
    BY DEF Chars
  <2>4. weight(c) \in Int
    BY <2>3 DEF weight
  <2> QED
    BY <1>1, <2>2, <2>4 DEF WeightAt
<1>2. CASE ~NonDigitAt(s, k)
  BY <1>2 DEF WeightAt
<1> QED
  BY <1>1, <1>2

LEMMA PastRunIn ==
  ASSUME NEW s \in Seq(Chars), NEW k \in 1 .. Len(s) + 1, NEW chars
  PROVE  PastRun(s, k, chars) \in k .. Len(s) + 1
<1> DEFINE S == {n \in k .. Len(s) + 1 : n = Len(s) + 1 \/ s[n] \notin chars}
<1>1. S \subseteq Nat /\ Len(s) + 1 \in S
  OBVIOUS
<1>2. Min(S) \in S
  BY <1>1, MinIn
<1> QED
  BY <1>2 DEF PastRun

LEMMA LetterMirror ==
  ASSUME NEW a \in Seq(Chars), NEW b \in Seq(Chars), NEW w, Inside(w, a, b), InLetters(w, a, b)
  PROVE  /\ LetterStep(w, a, b) \in Walk
         /\ LetterStep(w, a, b).at # "done" => Inside(LetterStep(w, a, b), a, b) /\ LetterStep(w, a, b).at = w.at
         /\ LetterStep(Mirror(w), b, a) = Mirror(LetterStep(w, a, b))
<1>0. /\ w \in Walk /\ w.i \in 1 .. Len(a) + 1 /\ w.j \in 1 .. Len(b) + 1 /\ w.i \in Nat \ {0} /\ w.j \in Nat \ {0}
      /\ Mirror(w).i = w.j /\ Mirror(w).j = w.i /\ Mirror(w).at = w.at
  BY DEF Inside, Mirror
<1>1. PICK x : x = WeightAt(a, w.i)
  OBVIOUS
<1>2. PICK y : y = WeightAt(b, w.j)
  OBVIOUS
<1>3. x \in Int /\ y \in Int /\ x - y \in Int /\ y - x = -(x - y)
  <2>1. x \in Int
    BY <1>0, <1>1, WeightTyped
  <2>2. y \in Int
    BY <1>0, <1>2, WeightTyped
  <2> QED
    BY <2>1, <2>2
<1>4. CASE x - y # 0
  <2>1. PICK n \in Int : n = x - y
    BY <1>3
  <2>2. LetterStep(w, a, b) = Decide(w, n)
    BY <1>1, <1>2, <1>4, <2>1 DEF LetterStep
  <2>3. LetterStep(Mirror(w), b, a) = Decide(Mirror(w), -n)
    BY <1>0, <1>1, <1>2, <1>3, <1>4, <2>1 DEF LetterStep
  <2>4. /\ Decide(w, n) \in Walk /\ Decide(w, n).at = "done"
        /\ Decide(Mirror(w), -n) = Mirror(Decide(w, n))
    BY <1>0, <2>1, MirrorDecide
  <2> QED
    BY <2>2, <2>3, <2>4
<1>5. CASE x - y = 0
  <2>1. PICK i, j : /\ i = IF NonDigitAt(a, w.i) THEN w.i + 1 ELSE w.i
                    /\ j = IF NonDigitAt(b, w.j) THEN w.j + 1 ELSE w.j
    OBVIOUS
  <2>2. i \in 1 .. Len(a) + 1 /\ j \in 1 .. Len(b) + 1
    BY <1>0, <2>1 DEF NonDigitAt
  <2>3. LetterStep(w, a, b) = MoveTo(w, w.at, i, j)
    BY <1>1, <1>2, <1>5, <2>1 DEF LetterStep
  <2>4. LetterStep(Mirror(w), b, a) = MoveTo(Mirror(w), w.at, j, i)
    BY <1>0, <1>1, <1>2, <1>3, <1>5, <2>1 DEF LetterStep
  <2>5. i \in Nat /\ j \in Nat
    BY <2>2
  <2>6. w.at \in Places
    BY <1>0, WalkFields
  <2>7. PICK t \in Places, p \in Nat, q \in Nat : t = w.at /\ p = i /\ q = j
    BY <2>5, <2>6
  <2>8. /\ MoveTo(w, t, p, q) \in Walk
        /\ MoveTo(w, t, p, q).at = t /\ MoveTo(w, t, p, q).i = p /\ MoveTo(w, t, p, q).j = q
        /\ MoveTo(Mirror(w), t, q, p) = Mirror(MoveTo(w, t, p, q))
    <3>1. t \in Places /\ p \in Nat /\ q \in Nat
      BY <2>7
    <3>2. w.result \in Int
      BY <1>0, WalkFields
    <3>3. MoveTo(w, t, p, q) \in Walk
      BY <3>1, <3>2 DEF Walk, MoveTo
    <3> QED
      BY <3>3 DEF MoveTo, Mirror
  <2> QED
    BY <2>2, <2>3, <2>4, <2>7, <2>8 DEF Inside
<1> QED
  BY <1>4, <1>5

LEMMA NumberMirror ==
  ASSUME NEW a \in Seq(Chars), NEW b \in Seq(Chars), NEW w, Inside(w, a, b)
  PROVE  /\ NumberStep(w, a, b) \in Walk
         /\ NumberStep(w, a, b).at # "done" => Inside(NumberStep(w, a, b), a, b) /\ NumberStep(w, a, b).at = w.at
         /\ NumberStep(Mirror(w), b, a) = Mirror(NumberStep(w, a, b))
<1>0. /\ w \in Walk /\ w.i \in 1 .. Len(a) + 1 /\ w.j \in 1 .. Len(b) + 1
      /\ Mirror(w) \in Walk /\ Mirror(w).i = w.j /\ Mirror(w).j = w.i /\ Mirror(w).at = w.at
      /\ Len(a) \in Nat /\ Len(b) \in Nat
  BY DEF Inside, Mirror, Walk
<1>1. PICK si, sj : si = PastZeros(a, w.i) /\ sj = PastZeros(b, w.j)
  OBVIOUS
<1>2. si \in 1 .. Len(a) + 1 /\ sj \in 1 .. Len(b) + 1
  <2>1. si \in w.i .. Len(a) + 1 /\ sj \in w.j .. Len(b) + 1
    BY <1>0, <1>1, PastRunIn DEF PastZeros
  <2> QED
    BY <1>0, <2>1
<1>3. PICK i, j : i = PastRun(a, si, Digits) /\ j = PastRun(b, sj, Digits)
  OBVIOUS
<1>4. i \in si .. Len(a) + 1 /\ j \in sj .. Len(b) + 1
  BY <1>2, <1>3, PastRunIn
<1>5. PICK D : D = {n \in 0 .. i - si - 1 : a[si + n] # b[sj + n]}
  OBVIOUS
<1>6. NumberStep(w, a, b) =
        IF i - si # j - sj THEN Decide(w, (i - si) - (j - sj))
        ELSE IF D # {} THEN Decide(w, a[si + Min(D)] - b[sj + Min(D)])
        ELSE MoveTo(w, w.at, i, j)
  BY <1>1, <1>3, <1>5 DEF NumberStep
<1>7. PICK E : E = {n \in 0 .. j - sj - 1 : b[sj + n] # a[si + n]}
  OBVIOUS
<1>8. NumberStep(Mirror(w), b, a) =
        IF j - sj # i - si THEN Decide(Mirror(w), (j - sj) - (i - si))
        ELSE IF E # {} THEN Decide(Mirror(w), b[sj + Min(E)] - a[si + Min(E)])
        ELSE MoveTo(Mirror(w), w.at, j, i)
  BY <1>0, <1>1, <1>3, <1>7 DEF NumberStep
<1>9. CASE i - si # j - sj
  <2>1. (i - si) - (j - sj) \in Int /\ (j - sj) - (i - si) = -((i - si) - (j - sj))
    BY <1>2, <1>4
  <2>2. PICK n \in Int : n = (i - si) - (j - sj)
    BY <2>1
  <2>3. NumberStep(w, a, b) = Decide(w, n) /\ NumberStep(Mirror(w), b, a) = Decide(Mirror(w), -n)
    BY <1>6, <1>8, <1>9, <2>1, <2>2
  <2>4. /\ Decide(w, n) \in Walk /\ Decide(w, n).at = "done"
        /\ Decide(Mirror(w), -n) = Mirror(Decide(w, n))
    BY <1>0, <2>2, MirrorDecide
  <2> QED
    BY <2>3, <2>4
<1>10. CASE i - si = j - sj /\ D # {}
  <2>1. E = D
    BY <1>5, <1>7, <1>10
  <2>2. D \subseteq Nat
    BY <1>2, <1>4, <1>5
  <2>3. PICK m : m = Min(D)
    OBVIOUS
  <2>4. m \in 0 .. i - si - 1
    BY <1>5, <1>10, <2>2, <2>3, MinIn
  <2>5. a[si + m] \in Chars /\ b[sj + m] \in Chars
    <3>1. si + m \in 1 .. Len(a) /\ sj + m \in 1 .. Len(b)
      BY <1>0, <1>2, <1>4, <1>10, <2>4
    <3> QED
      BY <3>1
  <2>6. PICK n : n = a[si + m] - b[sj + m]
    OBVIOUS
  <2>7. n \in Int /\ b[sj + m] - a[si + m] = -n
    <3>1. PICK x, y : x = a[si + m] /\ y = b[sj + m]
      OBVIOUS
    <3>2. x \in Int /\ y \in Int
      <4>1. \A c \in Chars : c \in Int
        BY DEF Chars
      <4> QED
        BY <2>5, <3>1, <4>1
    <3>3. x - y \in Int /\ y - x = -(x - y)
      BY <3>2
    <3> QED
      BY <2>6, <3>1, <3>3
  <2>8. NumberStep(w, a, b) = Decide(w, n)
    BY <1>6, <1>10, <2>3, <2>6
  <2>9. NumberStep(Mirror(w), b, a) = Decide(Mirror(w), -n)
    BY <1>8, <1>10, <2>1, <2>3, <2>7
  <2>10. /\ Decide(w, n) \in Walk /\ Decide(w, n).at = "done"
         /\ Decide(Mirror(w), -n) = Mirror(Decide(w, n))
    BY <1>0, <2>7, MirrorDecide
  <2> QED
    BY <2>8, <2>9, <2>10
<1>11. CASE i - si = j - sj /\ D = {}
  <2>1. E = {}
    BY <1>5, <1>7, <1>11
  <2>2. NumberStep(w, a, b) = MoveTo(w, w.at, i, j)
    BY <1>6, <1>11
  <2>3. NumberStep(Mirror(w), b, a) = MoveTo(Mirror(w), w.at, j, i)
    BY <1>8, <1>11, <2>1
  <2>4. i \in 1 .. Len(a) + 1 /\ j \in 1 .. Len(b) + 1
    BY <1>0, <1>2, <1>4
  <2>5. i \in Nat /\ j \in Nat
    BY <2>4
  <2>6. w.at \in Places
    BY <1>0, WalkFields
  <2>7. PICK t \in Places, p \in Nat, q \in Nat : t = w.at /\ p = i /\ q = j
    BY <2>5, <2>6
  <2>8. /\ MoveTo(w, t, p, q) \in Walk
        /\ MoveTo(w, t, p, q).at = t /\ MoveTo(w, t, p, q).i = p /\ MoveTo(w, t, p, q).j = q
        /\ MoveTo(Mirror(w), t, q, p) = Mirror(MoveTo(w, t, p, q))
    <3>1. t \in Places /\ p \in Nat /\ q \in Nat
      BY <2>7
    <3>2. w.result \in Int
      BY <1>0, WalkFields
    <3>3. MoveTo(w, t, p, q) \in Walk
      BY <3>1, <3>2 DEF Walk, MoveTo
    <3> QED
      BY <3>3 DEF MoveTo, Mirror
  <2> QED
    BY <2>2, <2>3, <2>4, <2>7, <2>8 DEF Inside
<1> QED
  BY <1>9, <1>10, <1>11

LEMMA FragmentMirror ==
  ASSUME NEW a \in Seq(Chars), NEW b \in Seq(Chars), NEW w, Inside(w, a, b),
         NEW then \in {"revision", "done"}
  PROVE  /\ FragmentStep(w, a, b, then) \in Walk
         /\ FragmentStep(w, a, b, then).at \in {w.at, then, "done"}
         /\ \/ FragmentStep(w, a, b, then).at = "done"
            \/ FragmentStep(w, a, b, then).at = w.at /\ Inside(FragmentStep(w, a, b, then), a, b)
            \/ /\ FragmentStep(w, a, b, then).at = then
               /\ FragmentStep(w, a, b, then).i = 1 /\ FragmentStep(w, a, b, then).j = 1
         /\ FragmentStep(Mirror(w), b, a, then) = Mirror(FragmentStep(w, a, b, then))
<1>0. w \in Walk /\ Mirror(w).i = w.j /\ Mirror(w).j = w.i /\ Mirror(w).at = w.at
  BY DEF Inside, Mirror
<1>1. InLetters(Mirror(w), b, a) <=> InLetters(w, a, b)
  BY <1>0 DEF InLetters
<1>2. NotAtEnd(Mirror(w), b, a) <=> NotAtEnd(w, a, b)
  BY <1>0 DEF NotAtEnd
<1>3. CASE InLetters(w, a, b)
  <2>1. /\ FragmentStep(w, a, b, then) = LetterStep(w, a, b)
        /\ FragmentStep(Mirror(w), b, a, then) = LetterStep(Mirror(w), b, a)
    BY <1>1, <1>3 DEF FragmentStep
  <2> QED
    BY <1>3, <2>1, LetterMirror
<1>4. CASE ~InLetters(w, a, b) /\ NotAtEnd(w, a, b)
  <2>1. /\ FragmentStep(w, a, b, then) = NumberStep(w, a, b)
        /\ FragmentStep(Mirror(w), b, a, then) = NumberStep(Mirror(w), b, a)
    BY <1>1, <1>2, <1>4 DEF FragmentStep
  <2> QED
    BY <2>1, NumberMirror
<1>5. CASE ~InLetters(w, a, b) /\ ~NotAtEnd(w, a, b)
  <2>1. /\ FragmentStep(w, a, b, then) = MoveTo(w, then, 1, 1)
        /\ FragmentStep(Mirror(w), b, a, then) = MoveTo(Mirror(w), then, 1, 1)
    BY <1>1, <1>2, <1>5 DEF FragmentStep
  <2>2. 1 \in Nat /\ then \in Places
    BY DEF Places
  <2>3. PICK one \in Nat : one = 1
    OBVIOUS
  <2>4. /\ MoveTo(w, then, one, one) \in Walk
        /\ MoveTo(w, then, one, one).at = then
        /\ MoveTo(w, then, one, one).i = one /\ MoveTo(w, then, one, one).j = one
        /\ MoveTo(Mirror(w), then, one, one) = Mirror(MoveTo(w, then, one, one))
    BY <1>0, <2>2, MirrorMove
  <2> QED
    BY <2>1, <2>3, <2>4
<1> QED
  BY <1>3, <1>4, <1>5

\* A step of one comparison mirrors the step of the other.
LEMMA StepMirror ==
  ASSUME NEW v \in VersionType, NEW u \in VersionType, NEW w, WalkOK(w, v, u)
  PROVE  /\ WalkOK(StepOf(w, v, u), v, u)
         /\ StepOf(Mirror(w), u, v) = Mirror(StepOf(w, v, u))
<1>0. /\ w \in Walk /\ Mirror(w).at = w.at /\ Mirror(w).i = w.j /\ Mirror(w).j = w.i
      /\ v.epoch \in Nat /\ v.upstream \in Seq(Chars) /\ v.revision \in Seq(Chars)
      /\ u.epoch \in Nat /\ u.upstream \in Seq(Chars) /\ u.revision \in Seq(Chars)
  BY DEF WalkOK, VersionType, Mirror
<1>1. w.at \in Places
  BY <1>0, WalkFields
<1>2. CASE w.at = "epoch"
  <2>1. CASE v.epoch # u.epoch
    <3>1. PICK n \in Int : n = v.epoch - u.epoch /\ u.epoch - v.epoch = -n
      <4>1. PICK x \in Nat, y \in Nat : x = v.epoch /\ y = u.epoch
        BY <1>0
      <4>2. x - y \in Int /\ y - x = -(x - y)
        BY <4>1
      <4> QED
        BY <4>1, <4>2
    <3>2. StepOf(w, v, u) = Decide(w, n) /\ StepOf(Mirror(w), u, v) = Decide(Mirror(w), -n)
      BY <1>0, <1>2, <2>1, <3>1 DEF StepOf
    <3>3. /\ Decide(w, n) \in Walk /\ Decide(w, n).at = "done"
          /\ Decide(Mirror(w), -n) = Mirror(Decide(w, n))
      BY <1>0, MirrorDecide
    <3> QED
      BY <3>2, <3>3 DEF WalkOK
  <2>2. CASE v.epoch = u.epoch
    <3>1. w.i = 1 /\ w.j = 1 /\ 1 \in Nat
      BY <1>2 DEF WalkOK
    <3>2. /\ StepOf(w, v, u) = MoveTo(w, "upstream", 1, 1)
          /\ StepOf(Mirror(w), u, v) = MoveTo(Mirror(w), "upstream", 1, 1)
      BY <1>0, <1>2, <2>2, <3>1 DEF StepOf
    <3>3. PICK c : c = MoveTo(w, "upstream", 1, 1)
      OBVIOUS
    <3>4. /\ c \in Walk /\ c.at = "upstream" /\ c.i = 1 /\ c.j = 1
          /\ MoveTo(Mirror(w), "upstream", 1, 1) = Mirror(c)
      <4>1. PICK one \in Nat, t \in Places : one = 1 /\ t = "upstream"
        <5>1. "upstream" \in Places
          BY DEF Places
        <5> QED
          BY <5>1
      <4>2. /\ MoveTo(w, t, one, one) \in Walk
            /\ MoveTo(w, t, one, one).at = t
            /\ MoveTo(w, t, one, one).i = one /\ MoveTo(w, t, one, one).j = one
            /\ MoveTo(Mirror(w), t, one, one) = Mirror(MoveTo(w, t, one, one))
        <5>1. t \in Places /\ one \in Nat
          BY <4>1
        <5>2. w.result \in Int
          BY <1>0, WalkFields
        <5>3. MoveTo(w, t, one, one) \in Walk
          BY <5>1, <5>2 DEF Walk, MoveTo
        <5> QED
          BY <5>3 DEF MoveTo, Mirror
      <4> QED
        BY <3>3, <4>1, <4>2
    <3>5. 1 \in 1 .. Len(v.upstream) + 1 /\ 1 \in 1 .. Len(u.upstream) + 1
      BY <1>0
    <3> QED
      BY <3>2, <3>3, <3>4, <3>5 DEF WalkOK, Inside
  <2> QED
    BY <2>1, <2>2
<1>3. CASE w.at = "upstream"
  <2>1. Inside(w, v.upstream, u.upstream)
    BY <1>3 DEF WalkOK
  <2>2. PICK c : c = FragmentStep(w, v.upstream, u.upstream, "revision")
    OBVIOUS
  <2>3. StepOf(w, v, u) = c
    BY <1>3, <2>2 DEF StepOf
  <2>4. StepOf(Mirror(w), u, v) = FragmentStep(Mirror(w), u.upstream, v.upstream, "revision")
    BY <1>0, <1>3 DEF StepOf
  <2>5. /\ c \in Walk
        /\ \/ c.at = "done"
           \/ c.at = w.at /\ Inside(c, v.upstream, u.upstream)
           \/ c.at = "revision" /\ c.i = 1 /\ c.j = 1
        /\ FragmentStep(Mirror(w), u.upstream, v.upstream, "revision") = Mirror(c)
    BY <1>0, <2>1, <2>2, FragmentMirror
  <2>6. 1 \in 1 .. Len(v.revision) + 1 /\ 1 \in 1 .. Len(u.revision) + 1
    BY <1>0
  <2>7. WalkOK(c, v, u)
    BY <1>3, <2>5, <2>6 DEF WalkOK, Inside
  <2> QED
    BY <2>3, <2>4, <2>5, <2>7
<1>4. CASE w.at = "revision"
  <2>1. Inside(w, v.revision, u.revision)
    BY <1>4 DEF WalkOK
  <2>2. PICK c : c = FragmentStep(w, v.revision, u.revision, "done")
    OBVIOUS
  <2>3. StepOf(w, v, u) = c
    BY <1>4, <2>2 DEF StepOf
  <2>4. StepOf(Mirror(w), u, v) = FragmentStep(Mirror(w), u.revision, v.revision, "done")
    BY <1>0, <1>4 DEF StepOf
  <2>5. /\ c \in Walk
        /\ \/ c.at = "done"
           \/ c.at = w.at /\ Inside(c, v.revision, u.revision)
        /\ FragmentStep(Mirror(w), u.revision, v.revision, "done") = Mirror(c)
    BY <1>0, <2>1, <2>2, FragmentMirror
  <2>7. WalkOK(c, v, u)
    BY <1>4, <2>5 DEF WalkOK
  <2> QED
    BY <2>3, <2>4, <2>5, <2>7
<1>5. CASE w.at = "done"
  BY <1>0, <1>5 DEF StepOf
<1> QED
  BY <1>1, <1>2, <1>3, <1>4, <1>5 DEF Places

\* A version compared with itself: neither side gets ahead, and nothing is decided.
LEMMA StepEven ==
  ASSUME NEW v \in VersionType, NEW w, WalkOK(w, v, v), Even(w)
  PROVE  Even(StepOf(w, v, v))
<1>0. /\ w \in Walk /\ w.i = w.j /\ w.result = 0 /\ w.i \in Nat
      /\ v.epoch \in Nat /\ v.upstream \in Seq(Chars) /\ v.revision \in Seq(Chars)
  BY WalkFields DEF WalkOK, VersionType, Even
<1>1. w.at \in Places
  BY <1>0, WalkFields
<1>2. ASSUME NEW a \in Seq(Chars), Inside(w, a, a), NEW then
      PROVE  Even(FragmentStep(w, a, a, then))
  <2>1. CASE InLetters(w, a, a)
    <3>1. PICK x : x = WeightAt(a, w.i)
      OBVIOUS
    <3>2. w.i \in Nat \ {0}
      BY <1>2 DEF Inside
    <3>3. x \in Int /\ x - x = 0
      BY <1>2, <3>1, <3>2, WeightTyped
    <3>4. PICK k : k = IF NonDigitAt(a, w.i) THEN w.i + 1 ELSE w.i
      OBVIOUS
    <3>5. LetterStep(w, a, a) = MoveTo(w, w.at, k, k)
      BY <1>0, <3>1, <3>3, <3>4 DEF LetterStep
    <3>6. k \in Nat
      BY <1>0, <3>4
    <3>7. MoveTo(w, w.at, k, k).i = k /\ MoveTo(w, w.at, k, k).j = k /\ MoveTo(w, w.at, k, k).result = w.result
      BY DEF MoveTo
    <3> QED
      BY <1>0, <2>1, <3>5, <3>7 DEF Even, FragmentStep
  <2>2. CASE ~InLetters(w, a, a) /\ NotAtEnd(w, a, a)
    <3>1. PICK s : s = PastZeros(a, w.i)
      OBVIOUS
    <3>2. PICK k : k = PastRun(a, s, Digits)
      OBVIOUS
    <3>3. NumberStep(w, a, a) = MoveTo(w, w.at, k, k)
      BY <1>0, <3>1, <3>2 DEF NumberStep
    <3>4. s \in 1 .. Len(a) + 1
      <4>1. w.i \in 1 .. Len(a) + 1 /\ Len(a) \in Nat
        BY <1>2 DEF Inside
      <4>2. s \in w.i .. Len(a) + 1
        BY <3>1, <4>1, <1>2, PastRunIn DEF PastZeros
      <4> QED
        BY <4>1, <4>2
    <3>5. k \in s .. Len(a) + 1
      BY <1>2, <3>2, <3>4, PastRunIn
    <3>6. k \in Nat
      BY <3>4, <3>5
    <3>7. MoveTo(w, w.at, k, k).i = k /\ MoveTo(w, w.at, k, k).j = k /\ MoveTo(w, w.at, k, k).result = w.result
      BY DEF MoveTo
    <3> QED
      BY <1>0, <2>2, <3>3, <3>7 DEF Even, FragmentStep
  <2>3. CASE ~InLetters(w, a, a) /\ ~NotAtEnd(w, a, a)
    <3>1. FragmentStep(w, a, a, then) = MoveTo(w, then, 1, 1)
      BY <2>3 DEF FragmentStep
    <3>2. MoveTo(w, then, 1, 1).i = 1 /\ MoveTo(w, then, 1, 1).j = 1 /\ MoveTo(w, then, 1, 1).result = w.result
      BY DEF MoveTo
    <3> QED
      BY <1>0, <3>1, <3>2 DEF Even
  <2> QED
    BY <2>1, <2>2, <2>3
<1>3. CASE w.at = "epoch"
  <2>1. StepOf(w, v, v) = MoveTo(w, "upstream", w.i, w.j)
    BY <1>3 DEF StepOf
  <2>2. PICK c : c = MoveTo(w, "upstream", w.i, w.j)
    OBVIOUS
  <2>3. c.i = w.i /\ c.j = w.j /\ c.result = w.result
    BY <2>2 DEF MoveTo
  <2> QED
    BY <1>0, <2>1, <2>2, <2>3 DEF Even
<1>4. CASE w.at = "upstream"
  <2>1. Inside(w, v.upstream, v.upstream)
    BY <1>4 DEF WalkOK
  <2>2. StepOf(w, v, v) = FragmentStep(w, v.upstream, v.upstream, "revision")
    BY <1>4 DEF StepOf
  <2> QED
    BY <1>0, <1>2, <2>1, <2>2
<1>5. CASE w.at = "revision"
  <2>1. Inside(w, v.revision, v.revision)
    BY <1>5 DEF WalkOK
  <2>2. StepOf(w, v, v) = FragmentStep(w, v.revision, v.revision, "done")
    BY <1>5 DEF StepOf
  <2> QED
    BY <1>0, <1>2, <2>1, <2>2
<1>6. CASE w.at = "done"
  BY <1>6 DEF StepOf
<1> QED
  BY <1>1, <1>3, <1>4, <1>5, <1>6 DEF Places

(***************************************************************************)
(* The key of a string, after each of its characters.  IsKeyFold is the    *)
(* recursive function by which FoldLeft defines it.                        *)
(***************************************************************************)
IsKeyFold(g, s) ==
  g = [S \in SUBSET DOMAIN s |-> IF S = {} THEN KeyStart ELSE KeyStep(g[S \ {Max(S)}], s[Max(S)])]

KeyStates(f, s) ==
  /\ f[0] = KeyStart
  /\ \A n \in 1 .. Len(s) : f[n] = KeyStep(f[n - 1], s[n])
  /\ KeyOf(s) = f[Len(s)].runs

LEMMA KeyByDefinition ==
  ASSUME NEW s
  PROVE  KeyOf(s) = (CHOOSE g : IsKeyFold(g, s))[DOMAIN s].runs
BY Zenon DEF KeyOf, FoldLeft, MapThenFoldSet, IsKeyFold

\* There is such a function; it is built for the subsets of up to n positions.
LEMMA KeyFoldExists ==
  ASSUME NEW s \in Seq(Chars)
  PROVE  \E g : IsKeyFold(g, s)
<1> DEFINE P == DOMAIN s
           Small(n) == {S \in SUBSET P : Cardinality(S) <= n}
           Fits(g, n) == g = [S \in Small(n) |-> IF S = {} THEN KeyStart ELSE KeyStep(g[S \ {Max(S)}], s[Max(S)])]
           B == {n \in Nat : \E g : Fits(g, n)}
<1>0. P = 1 .. Len(s) /\ Len(s) \in Nat /\ IsFiniteSet(P)
  BY FS_Interval
<1>1. \A S \in SUBSET P : IsFiniteSet(S) /\ Cardinality(S) \in Nat
  BY <1>0, FS_Subset, FS_CardinalityType
<1>2. ASSUME NEW S \in SUBSET P, S # {}
      PROVE  S \ {Max(S)} \in SUBSET P /\ Cardinality(S \ {Max(S)}) = Cardinality(S) - 1
  <2>1. Max(S) \in S
    BY <1>0, <1>2, MaxIn
  <2> QED
    BY <1>1, <2>1, FS_RemoveElement
<1> HIDE DEF P
<1>3. 0 \in B
  <2> DEFINE g == [S \in Small(0) |-> KeyStart]
  <2>1. \A S \in Small(0) : S = {}
    BY <1>1, FS_EmptySet
  <2>2. Fits(g, 0)
    BY <2>1
  <2> QED
    BY <2>2
<1>4. ASSUME NEW n \in B PROVE n + 1 \in B
  <2>1. PICK g : Fits(g, n)
    OBVIOUS
  <2> DEFINE h == [S \in Small(n + 1) |-> IF S = {} THEN KeyStart ELSE KeyStep(g[S \ {Max(S)}], s[Max(S)])]
  <2>2. Small(n) \subseteq Small(n + 1)
    BY <1>1
  <2>3. \A S \in Small(n) : h[S] = g[S]
    BY <2>1, <2>2
  <2>4. ASSUME NEW S \in Small(n + 1), S # {} PROVE S \ {Max(S)} \in Small(n)
    BY <1>1, <1>2, <2>4
  <2>5. \A S \in Small(n + 1) : S # {} => h[S \ {Max(S)}] = g[S \ {Max(S)}]
    BY <2>3, <2>4
  <2>6. Fits(h, n + 1)
    BY <2>5
  <2>7. \E k : Fits(k, n + 1)
    <3> HIDE DEF h, Fits
    <3> QED
      BY <2>6
  <2> HIDE DEF Fits
  <2> QED
    BY <2>7
<1>5. B = Nat
  <2> HIDE DEF B
  <2>1. B \in SUBSET Nat
    BY DEF B
  <2> QED
    BY <1>3, <1>4, <2>1, Induction
<1>6. PICK g : Fits(g, Cardinality(P))
  BY <1>1, <1>5
<1>7. Small(Cardinality(P)) = SUBSET P
  BY <1>0, <1>1, FS_Subset
<1>8. IsKeyFold(g, s)
  BY <1>6, <1>7 DEF IsKeyFold, P
<1> QED
  BY <1>8

LEMMA KeyStatesExist ==
  ASSUME NEW s \in Seq(Chars)
  PROVE  \E f : KeyStates(f, s)
<1>1. PICK g : g = (CHOOSE k : IsKeyFold(k, s))
  OBVIOUS
<1>2. IsKeyFold(g, s)
  BY <1>1, KeyFoldExists
<1>3. KeyOf(s) = g[DOMAIN s].runs
  BY <1>1, KeyByDefinition
<1>4. PICK N \in Nat : N = Len(s) /\ DOMAIN s = 1 .. N
  OBVIOUS
<1> DEFINE f == [n \in 0 .. N |-> g[1 .. n]]
<1>5. \A S \in SUBSET (1 .. N) : g[S] = IF S = {} THEN KeyStart ELSE KeyStep(g[S \ {Max(S)}], s[Max(S)])
  BY <1>2, <1>4 DEF IsKeyFold
<1>6. f[0] = KeyStart
  <2>1. 1 .. 0 = {} /\ {} \in SUBSET (1 .. N) /\ 0 \in 0 .. N
    OBVIOUS
  <2>2. g[{}] = KeyStart
    BY <1>5, <2>1
  <2> QED
    BY <2>1, <2>2
<1>7. ASSUME NEW n \in 1 .. N PROVE f[n] = KeyStep(f[n - 1], s[n])
  <2>1. PICK S : S = 1 .. n
    OBVIOUS
  <2>2. S \in SUBSET (1 .. N) /\ S # {} /\ n \in Nat /\ n \in S
    BY <2>1
  <2>3. Max(S) = n
    <3>1. Max(S) \in S /\ \A y \in S : y <= Max(S)
      BY <2>2, MaxIn
    <3> QED
      BY <2>1, <2>2, <3>1
  <2>4. S \ {n} = 1 .. n - 1
    BY <2>1, <2>2
  <2>5. g[S] = KeyStep(g[S \ {n}], s[n])
    BY <1>5, <2>2, <2>3
  <2>6. f[n] = g[S] /\ f[n - 1] = g[S \ {n}]
    BY <2>1, <2>4
  <2> QED
    BY <2>5, <2>6
<1>8. KeyOf(s) = f[N].runs
  BY <1>3, <1>4
<1> HIDE DEF f
<1>9. KeyStates(f, s)
  BY <1>4, <1>6, <1>7, <1>8 DEF KeyStates
<1> QED
  BY <1>9

KeyState == [runs : Seq(Int), digits : BOOLEAN]

LEMMA WeightOf ==
  ASSUME NEW c \in Chars
  PROVE  c \in Int /\ weight(c) \in Int /\ weight(c) # 0
BY DEF Chars, weight, Tilde, IsAlpha

LEMMA KeyStepLetter ==
  ASSUME NEW k \in KeyState, NEW c \in Chars, ~IsDigit(c), NEW z, z = KeyStep(k, c), NEW L, L = Len(k.runs)
  PROVE  /\ z \in KeyState /\ ~z.digits /\ Len(z.runs) = L + 1 /\ z.runs[L + 1] = weight(c)
         /\ \A q \in 1 .. L : z.runs[q] = k.runs[q]
<1>1. PICK r : r = k.runs
  OBVIOUS
<1>2. r \in Seq(Int) /\ L \in Nat /\ L = Len(r)
  BY <1>1 DEF KeyState
<1>3. PICK x \in Int : x = weight(c)
  BY WeightOf
<1>4. z = [runs |-> Append(r, x), digits |-> FALSE]
  BY <1>1, <1>3 DEF KeyStep
<1>5. /\ Append(r, x) \in Seq(Int) /\ Len(Append(r, x)) = L + 1 /\ Append(r, x)[L + 1] = x
      /\ \A q \in 1 .. L : Append(r, x)[q] = r[q]
  BY <1>2
<1> QED
  BY <1>1, <1>3, <1>4, <1>5 DEF KeyState

LEMMA KeyStepFirst ==
  ASSUME NEW k \in KeyState, NEW c \in Chars, IsDigit(c), ~k.digits, NEW z, z = KeyStep(k, c),
         NEW L, L = Len(k.runs)
  PROVE  /\ z \in KeyState /\ z.digits /\ z.runs # <<>>
         /\ Len(z.runs) = L + 2 /\ z.runs[L + 1] = 0 /\ z.runs[L + 2] = c - 48
         /\ \A q \in 1 .. L : z.runs[q] = k.runs[q]
<1>1. PICK r : r = k.runs
  OBVIOUS
<1>2. r \in Seq(Int) /\ L \in Nat /\ L = Len(r)
  BY <1>1 DEF KeyState
<1>3. PICK x \in Int : x = c - 48
  BY WeightOf
<1>4. PICK t : t = r \o <<0, x>>
  OBVIOUS
<1>5. z = [runs |-> t, digits |-> TRUE]
  BY <1>1, <1>3, <1>4 DEF KeyStep
<1>6. /\ t \in Seq(Int) /\ Len(t) = L + 2 /\ t[L + 1] = 0 /\ t[L + 2] = x
      /\ \A q \in 1 .. L : t[q] = r[q]
  BY <1>2, <1>4
<1>7. t # <<>>
  BY <1>2, <1>6
<1> QED
  BY <1>1, <1>3, <1>5, <1>6, <1>7 DEF KeyState

LEMMA KeyStepMore ==
  ASSUME NEW k \in KeyState, NEW c \in Chars, IsDigit(c), k.digits, k.runs # <<>>, NEW z, z = KeyStep(k, c),
         NEW L, L = Len(k.runs)
  PROVE  /\ z \in KeyState /\ z.digits /\ z.runs # <<>>
         /\ Len(z.runs) = L /\ z.runs[L] = 10 * k.runs[L] + c - 48
         /\ \A q \in 1 .. L - 1 : z.runs[q] = k.runs[q]
<1>1. PICK r : r = k.runs
  OBVIOUS
<1>2. r \in Seq(Int) /\ L \in Nat /\ L = Len(r) /\ L \in 1 .. L /\ r[L] \in Int
  BY <1>1 DEF KeyState
<1>3. PICK x \in Int : x = 10 * r[L] + c - 48
  <2>1. PICK y \in Int : y = r[L]
    BY <1>2
  <2> QED
    BY <1>1, <2>1, WeightOf
<1>4. PICK t : t = [r EXCEPT ![L] = x]
  OBVIOUS
<1>5. z = [runs |-> t, digits |-> TRUE]
  <2>1. z = [k EXCEPT !.runs[Len(k.runs)] = 10 * @ + c - 48]
    BY DEF KeyStep
  <2>2. z = [k EXCEPT !.runs = t]
    BY <1>1, <1>3, <1>4, <2>1
  <2>3. k = [runs |-> r, digits |-> TRUE]
    BY <1>1 DEF KeyState
  <2> QED
    BY <2>2, <2>3
<1>6. t \in Seq(Int) /\ Len(t) = L /\ t[L] = x /\ \A q \in 1 .. L - 1 : t[q] = r[q]
  BY <1>2, <1>3, <1>4
<1>7. t # <<>>
  BY <1>2, <1>6
<1> QED
  BY <1>1, <1>3, <1>5, <1>6, <1>7 DEF KeyState

LEMMA KeyStepPrefix ==
  ASSUME NEW k \in KeyState, NEW c \in Chars, IsDigit(c), k.digits, k.runs # <<>>
  PROVE  /\ KeyStep(k, c).digits /\ Len(KeyStep(k, c).runs) = Len(k.runs)
         /\ \A q \in 1 .. Len(k.runs) - 1 : KeyStep(k, c).runs[q] = k.runs[q]
<1>1. PICK z : z = KeyStep(k, c)
  OBVIOUS
<1>2. PICK L : L = Len(k.runs)
  OBVIOUS
<1>3. z.digits /\ Len(z.runs) = L /\ \A q \in 1 .. L - 1 : z.runs[q] = k.runs[q]
  BY <1>1, <1>2, KeyStepMore
<1> QED
  BY <1>1, <1>2, <1>3, Zenon

LEMMA KeyStepLast ==
  ASSUME NEW k \in KeyState, NEW c \in Chars, IsDigit(c), k.digits, k.runs # <<>>
  PROVE  KeyStep(k, c).runs[Len(k.runs)] = 10 * k.runs[Len(k.runs)] + c - 48
BY KeyStepMore

LEMMA KeyStepTyped ==
  ASSUME NEW k \in KeyState, NEW c \in Chars, k.digits => k.runs # <<>>, NEW z, z = KeyStep(k, c)
  PROVE  z \in KeyState /\ (z.digits <=> IsDigit(c)) /\ (z.digits => z.runs # <<>>)
<1>1. CASE ~IsDigit(c)
  BY <1>1, KeyStepLetter
<1>2. CASE IsDigit(c) /\ k.digits
  BY <1>2, KeyStepMore
<1>3. CASE IsDigit(c) /\ ~k.digits
  BY <1>3, KeyStepFirst
<1> QED
  BY <1>1, <1>2, <1>3

LEMMA KeyStatesTyped ==
  ASSUME NEW s \in Seq(Chars), NEW f, KeyStates(f, s)
  PROVE  \A n \in 0 .. Len(s) :
           /\ f[n] \in KeyState /\ (f[n].digits => f[n].runs # <<>>)
           /\ n > 0 => (f[n].digits <=> IsDigit(s[n]))
<1> DEFINE P(n) == /\ f[n] \in KeyState /\ (f[n].digits => f[n].runs # <<>>)
                   /\ n > 0 => (f[n].digits <=> IsDigit(s[n]))
           B == {n \in Nat : n <= Len(s) => P(n)}
<1>1. 0 \in B
  <2>1. KeyStart \in KeyState /\ ~KeyStart.digits
    BY DEF KeyStart, KeyState
  <2> QED
    BY <2>1 DEF KeyStates
<1>2. ASSUME NEW n \in B PROVE n + 1 \in B
  <2> SUFFICES ASSUME n + 1 <= Len(s) PROVE P(n + 1)
    OBVIOUS
  <2>1. PICK k : k = f[n]
    OBVIOUS
  <2>2. k \in KeyState /\ (k.digits => k.runs # <<>>)
    BY <2>1
  <2>3. PICK m : m = n + 1
    OBVIOUS
  <2>4. m \in 1 .. Len(s) /\ m - 1 = n /\ m > 0
    BY <2>3
  <2>5. PICK c \in Chars : c = s[m]
    BY <2>4
  <2>6. f[m] = KeyStep(k, c)
    BY <2>1, <2>4, <2>5 DEF KeyStates
  <2>7. KeyStep(k, c) \in KeyState /\ (KeyStep(k, c).digits <=> IsDigit(c))
        /\ (KeyStep(k, c).digits => KeyStep(k, c).runs # <<>>)
    BY <2>2, KeyStepTyped
  <2> QED
    BY <2>3, <2>5, <2>6, <2>7
<1>3. B = Nat
  <2> HIDE DEF B
  <2>1. B \in SUBSET Nat
    BY DEF B
  <2> QED
    BY <1>1, <1>2, <2>1, Induction
<1>4. \A n \in 0 .. Len(s) : n \in Nat /\ n <= Len(s)
  OBVIOUS
<1> QED
  BY <1>3, <1>4

\* What comes later leaves the key alone up to p, if no number is being read.
Closed(f, s, m) == m = Len(s) \/ ~f[m].digits \/ ~IsDigit(s[m + 1])

LEMMA KeyGrows ==
  ASSUME NEW s \in Seq(Chars), NEW f, KeyStates(f, s), NEW m \in 0 .. Len(s), Closed(f, s, m)
  PROVE  \A n \in m .. Len(s) :
           /\ Len(f[m].runs) <= Len(f[n].runs)
           /\ \A q \in 1 .. Len(f[m].runs) : f[n].runs[q] = f[m].runs[q]
<1> DEFINE r == f[m].runs
           L == Len(r)
           P(n) == /\ L <= Len(f[n].runs)
                   /\ \A q \in 1 .. L : f[n].runs[q] = r[q]
                   /\ f[n].digits /\ n < Len(s) /\ IsDigit(s[n + 1]) => L < Len(f[n].runs)
           B == {e \in Nat : m + e <= Len(s) => P(m + e)}
<1>0. m \in Nat /\ L \in Nat /\ Len(s) \in Nat
  BY KeyStatesTyped DEF KeyState
<1>1. 0 \in B
  <2>1. m + 0 = m
    BY <1>0
  <2>2. P(m)
    BY <1>0 DEF Closed
  <2> QED
    BY <2>1, <2>2
<1>2. ASSUME NEW e \in B PROVE e + 1 \in B
  <2> SUFFICES ASSUME m + (e + 1) <= Len(s) PROVE P(m + (e + 1))
    OBVIOUS
  <2>1. PICK n \in Nat : n = m + e
    BY <1>0
  <2>2. n + 1 = m + (e + 1) /\ n + 1 <= Len(s) /\ n <= Len(s)
    BY <1>0, <2>1
  <2>3. P(n)
    BY <2>1, <2>2
  <2>4. PICK k, c : k = f[n] /\ c = s[n + 1]
    OBVIOUS
  <2>5. k \in KeyState /\ (k.digits => k.runs # <<>>) /\ c \in Chars
    BY <2>2, <2>4, KeyStatesTyped
  <2>6. PICK z : z = f[n + 1]
    OBVIOUS
  <2>7. z = KeyStep(k, c)
    <3>1. n + 1 \in 1 .. Len(s) /\ (n + 1) - 1 = n
      BY <2>2
    <3> QED
      BY <2>4, <2>6, <3>1 DEF KeyStates
  <2>8. PICK K \in Nat : K = Len(k.runs)
    BY <2>5 DEF KeyState
  <2>9. L <= K /\ (\A q \in 1 .. L : k.runs[q] = r[q]) /\ (k.digits /\ IsDigit(c) => L < K)
    BY <2>2, <2>3, <2>4, <2>8
  <2>10. /\ L <= Len(z.runs) /\ (\A q \in 1 .. L : z.runs[q] = r[q])
         /\ z.digits => L < Len(z.runs)
    <3> HIDE DEF L, r
    <3>1. CASE ~IsDigit(c)
      <4>1. /\ ~z.digits /\ Len(z.runs) = K + 1 /\ \A q \in 1 .. K : z.runs[q] = k.runs[q]
        BY <2>5, <2>7, <2>8, <3>1, KeyStepLetter, SMTT(30)
      <4> QED
        BY <1>0, <2>9, <4>1
    <3>2. CASE IsDigit(c) /\ k.digits
      <4>1. Len(z.runs) = K /\ \A q \in 1 .. K - 1 : z.runs[q] = k.runs[q]
        BY <2>5, <2>7, <2>8, <3>2, KeyStepPrefix
      <4>2. L < K
        BY <2>9, <3>2
      <4>3. 1 .. L \subseteq 1 .. K - 1 /\ 1 .. L \subseteq 1 .. K
        BY <1>0, <4>2
      <4>4. \A q \in 1 .. L : z.runs[q] = r[q]
        BY <2>9, <4>1, <4>3
      <4>5. L <= Len(z.runs) /\ L < Len(z.runs)
        BY <4>1, <4>2, <2>9
      <4> QED
        BY <4>4, <4>5, Zenon
    <3>3. CASE IsDigit(c) /\ ~k.digits
      <4>1. Len(z.runs) = K + 2 /\ \A q \in 1 .. K : z.runs[q] = k.runs[q]
        BY <2>5, <2>7, <2>8, <3>3, KeyStepFirst, SMTT(30)
      <4> QED
        BY <1>0, <2>9, <4>1
    <3> QED
      BY <3>1, <3>2, <3>3
  <2> QED
    BY <2>2, <2>6, <2>10
<1>3. B = Nat
  <2> HIDE DEF B
  <2>1. B \in SUBSET Nat
    BY DEF B
  <2> QED
    BY <1>1, <1>2, <2>1, Induction
<1>4. ASSUME NEW n \in m .. Len(s) PROVE P(n)
  <2>1. n - m \in Nat /\ m + (n - m) = n /\ n <= Len(s)
    BY <1>0
  <2> HIDE DEF P
  <2>2. n - m \in B
    BY <1>3, <2>1
  <2> QED
    BY <2>1, <2>2
<1> QED
  BY <1>4

LEMMA KeyTyped ==
  ASSUME NEW s \in Seq(Chars)
  PROVE  KeyOf(s) \in Seq(Int) /\ Len(KeyOf(s)) \in Nat /\ \A n \in Nat \ {0} : At(KeyOf(s), n) \in Int
<1>1. PICK f : KeyStates(f, s)
  BY KeyStatesExist
<1>2. f[Len(s)] \in KeyState
  BY <1>1, KeyStatesTyped
<1>3. KeyOf(s) \in Seq(Int)
  BY <1>1, <1>2 DEF KeyStates, KeyState
<1> QED
  BY <1>3 DEF At

\* The key is closed before s[i], with p of its entries.
Sits(f, s, i, p) == Closed(f, s, i - 1) /\ Len(f[i - 1].runs) = p

LEMMA SitsFacts ==
  ASSUME NEW s \in Seq(Chars), NEW f, KeyStates(f, s), NEW i \in 1 .. Len(s) + 1, NEW p, Sits(f, s, i, p)
  PROVE  /\ p \in Nat /\ p <= Len(KeyOf(s))
         /\ \A q \in 1 .. p : At(KeyOf(s), q) = f[i - 1].runs[q]
         /\ i = Len(s) + 1 => p = Len(KeyOf(s))
<1>1. i - 1 \in 0 .. Len(s) /\ Len(s) \in (i - 1) .. Len(s)
  OBVIOUS
<1>2. PICK m : m = i - 1
  OBVIOUS
<1>3. KeyOf(s) = f[Len(s)].runs
  BY DEF KeyStates
<1>4. Len(f[m].runs) <= Len(f[Len(s)].runs) /\ \A q \in 1 .. Len(f[m].runs) : f[Len(s)].runs[q] = f[m].runs[q]
  BY <1>1, <1>2, KeyGrows DEF Sits
<1>5. f[m].runs \in Seq(Int) /\ Len(f[m].runs) = p
  BY <1>1, <1>2, KeyStatesTyped DEF KeyState, Sits
<1>6. p \in Nat /\ p <= Len(KeyOf(s)) /\ Len(KeyOf(s)) \in Nat
  BY <1>3, <1>4, <1>5, KeyTyped
<1>7. \A q \in 1 .. p : At(KeyOf(s), q) = f[m].runs[q]
  BY <1>3, <1>4, <1>5, <1>6 DEF At
<1>8. i = Len(s) + 1 => m = Len(s)
  BY <1>2
<1> QED
  BY <1>2, <1>3, <1>5, <1>6, <1>7, <1>8

\* A comparison that stands before s[i] has gone by p entries of the key, or past its end.
Stands(s, i, p) ==
  \E f : /\ KeyStates(f, s)
         /\ Sits(f, s, i, p) \/ (i = Len(s) + 1 /\ p \in Nat /\ Len(KeyOf(s)) <= p)

LEMMA StandsFirst == ASSUME NEW s \in Seq(Chars) PROVE Stands(s, 1, 0)
<1>1. PICK f : KeyStates(f, s)
  BY KeyStatesExist
<1>2. f[0] = KeyStart
  BY <1>1 DEF KeyStates
<1>3. ~f[0].digits /\ Len(f[0].runs) = 0
  BY <1>2 DEF KeyStart
<1>4. PICK z : z = 1 - 1
  OBVIOUS
<1>5. z = 0
  BY <1>4
<1>6. Sits(f, s, 1, 0)
  BY <1>3, <1>4, <1>5 DEF Sits, Closed
<1> QED
  BY <1>1, <1>6 DEF Stands

LEMMA StandsTyped ==
  ASSUME NEW s \in Seq(Chars), NEW i \in 1 .. Len(s) + 1, NEW p, Stands(s, i, p)
  PROVE  p \in Nat /\ (i = Len(s) + 1 => Len(KeyOf(s)) <= p)
<1>1. PICK f : /\ KeyStates(f, s)
               /\ Sits(f, s, i, p) \/ (i = Len(s) + 1 /\ p \in Nat /\ Len(KeyOf(s)) <= p)
  BY DEF Stands
<1>2. Sits(f, s, i, p) => p \in Nat /\ (i = Len(s) + 1 => p = Len(KeyOf(s)))
  BY <1>1, SitsFacts
<1>3. Len(KeyOf(s)) \in Nat
  BY KeyTyped
<1> QED
  BY <1>1, <1>2, <1>3

\* At the end the key has no more entries.
LEMMA StandsAtEnd ==
  ASSUME NEW s \in Seq(Chars), NEW p, Stands(s, Len(s) + 1, p), NEW n \in Nat, n > p
  PROVE  At(KeyOf(s), n) = 0
<1>1. PICK i \in 1 .. Len(s) + 1 : i = Len(s) + 1
  OBVIOUS
<1>2. p \in Nat /\ Len(KeyOf(s)) <= p /\ Len(KeyOf(s)) \in Nat
  BY <1>1, StandsTyped, KeyTyped
<1> QED
  BY <1>2 DEF At

\* A character that is no digit is the next entry.
LEMMA StandsLetter ==
  ASSUME NEW s \in Seq(Chars), NEW i \in 1 .. Len(s), NEW p, Stands(s, i, p), ~IsDigit(s[i])
  PROVE  Stands(s, i + 1, p + 1) /\ At(KeyOf(s), p + 1) = weight(s[i])
<1>1. PICK f : KeyStates(f, s) /\ Sits(f, s, i, p)
  BY DEF Stands
<1>2. i \in 1 .. Len(s) + 1 /\ i - 1 \in 0 .. Len(s) /\ i \in 0 .. Len(s)
  OBVIOUS
<1>3. PICK k, c : k = f[i - 1] /\ c = s[i]
  OBVIOUS
<1>4. k \in KeyState /\ (k.digits => k.runs # <<>>) /\ c \in Chars /\ Len(k.runs) = p /\ p \in Nat
  BY <1>1, <1>2, <1>3, KeyStatesTyped, SitsFacts DEF Sits
<1>5. f[i] = KeyStep(k, c)
  BY <1>1, <1>3 DEF KeyStates
<1>6. PICK z : z = f[i]
  OBVIOUS
<1>7. ~z.digits /\ Len(z.runs) = p + 1 /\ z.runs[p + 1] = weight(c)
  <2>1. PICK L : L = Len(k.runs)
    OBVIOUS
  <2>2. z = KeyStep(k, c) /\ ~IsDigit(c)
    BY <1>3, <1>5, <1>6
  <2>3. ~z.digits /\ Len(z.runs) = L + 1 /\ z.runs[L + 1] = weight(c)
    BY <1>4, <2>1, <2>2, KeyStepLetter, SMTT(30)
  <2> QED
    BY <1>4, <2>1, <2>2, <2>3
<1>8. PICK j, q : j = i + 1 /\ q = p + 1
  OBVIOUS
<1>9. PICK y : y = j - 1
  OBVIOUS
<1>10. j \in 1 .. Len(s) + 1 /\ y = i
  BY <1>8, <1>9
<1>11. Sits(f, s, j, q)
  BY <1>6, <1>7, <1>8, <1>9, <1>10 DEF Sits, Closed
<1>12. At(KeyOf(s), q) = f[i].runs[q]
  <2>1. \A e \in 1 .. q : At(KeyOf(s), e) = f[y].runs[e]
    BY <1>1, <1>9, <1>10, <1>11, SitsFacts
  <2>2. q \in 1 .. q
    BY <1>4, <1>8
  <2> QED
    BY <1>10, <2>1, <2>2
<1>13. Stands(s, j, q)
  BY <1>1, <1>11 DEF Stands
<1> QED
  BY <1>3, <1>6, <1>7, <1>8, <1>12, <1>13

\* x[m] is the number that the first m characters from s[i] on write.
Digital(s, i, n) == \A m \in 1 .. n : IsDigit(s[i + m - 1])
Reads(x, s, i, n) == x[0] = 0 /\ \A m \in 1 .. n : x[m] = 10 * x[m - 1] + s[i + m - 1] - 48

\* A run of digits, which the end of the string may be, is a 0 and a number.
LEMMA StandsDigits ==
  ASSUME NEW s \in Seq(Chars), NEW i \in 1 .. Len(s) + 1, NEW p, Stands(s, i, p),
         NEW n \in Nat, i + n <= Len(s) + 1, Digital(s, i, n),
         i + n = Len(s) + 1 \/ ~IsDigit(s[i + n]), n = 0 => i = Len(s) + 1
  PROVE  /\ Stands(s, i + n, p + 2) /\ At(KeyOf(s), p + 1) = 0
         /\ \E x : Reads(x, s, i, n) /\ At(KeyOf(s), p + 2) = x[n]
<1>0. p \in Nat
  BY StandsTyped
<1>1. CASE n = 0
  <2>1. i = Len(s) + 1 /\ i + n = i
    BY <1>1
  <2>2. PICK f : KeyStates(f, s)
    BY DEF Stands
  <2>3. Len(KeyOf(s)) <= p /\ Len(KeyOf(s)) \in Nat
    BY <2>1, StandsTyped, KeyTyped
  <2>4. PICK q \in Nat : q = p + 2
    BY <1>0
  <2>5. Len(KeyOf(s)) <= q
    BY <1>0, <2>3, <2>4
  <2>6. Stands(s, i, q)
    BY <2>1, <2>2, <2>5 DEF Stands
  <2>7. At(KeyOf(s), p + 1) = 0 /\ At(KeyOf(s), p + 2) = 0
    BY <1>0, <2>3 DEF At
  <2> DEFINE x == [m \in 0 .. 0 |-> 0]
  <2>8. Reads(x, s, i, 0) /\ x[0] = 0
    BY DEF Reads
  <2> HIDE DEF x
  <2> QED
    BY <1>1, <2>1, <2>4, <2>6, <2>7, <2>8
<1>2. CASE n > 0
  <2>1. PICK f : KeyStates(f, s) /\ Sits(f, s, i, p)
    <3>1. i # Len(s) + 1
      BY <1>2
    <3> QED
      BY <3>1 DEF Stands
  <2> DEFINE P(m) == LET k == f[i + m - 1]
                     IN  /\ k.digits /\ Len(k.runs) = p + 2 /\ k.runs[p + 1] = 0
                         /\ k.runs[p + 2] = IF m = 1 THEN s[i] - 48
                                            ELSE 10 * f[i + m - 2].runs[p + 2] + s[i + m - 1] - 48
             B == {e \in Nat : e < n => P(e + 1)}
  <2>2. 0 \in B
    <3>1. i + (0 + 1) - 1 = i /\ 0 + 1 = 1 /\ i + 1 - 1 = i
      OBVIOUS
    <3>2. PICK k, c : k = f[i - 1] /\ c = s[i]
      OBVIOUS
    <3>3. i \in 1 .. Len(s) /\ i - 1 \in 0 .. Len(s)
      BY <1>2
    <3>4. IsDigit(c)
      <4>1. 1 \in 1 .. n
        BY <1>2
      <4> QED
        BY <3>1, <3>2, <4>1 DEF Digital
    <3>5. ~k.digits /\ Len(k.runs) = p
      <4>1. PICK y : y = i - 1
        OBVIOUS
      <4>2. y # Len(s) /\ y + 1 = i
        BY <3>3, <4>1
      <4> QED
        BY <2>1, <3>2, <3>4, <4>1, <4>2 DEF Sits, Closed
    <3>6. k \in KeyState /\ c \in Chars
      BY <2>1, <3>2, <3>3, KeyStatesTyped
    <3>7. f[i] = KeyStep(k, c)
      BY <2>1, <3>2, <3>3 DEF KeyStates
    <3>8. PICK z : z = f[i]
      OBVIOUS
    <3>9. z.digits /\ Len(z.runs) = p + 2 /\ z.runs[p + 1] = 0 /\ z.runs[p + 2] = c - 48
      <4>1. PICK L : L = Len(k.runs)
        OBVIOUS
      <4>2. z = KeyStep(k, c) /\ (k.digits => k.runs # <<>>)
        BY <3>5, <3>7, <3>8
      <4>3. /\ z.digits
            /\ Len(z.runs) = L + 2 /\ z.runs[L + 1] = 0 /\ z.runs[L + 2] = c - 48
        BY <3>4, <3>5, <3>6, <4>1, <4>2, KeyStepFirst, SMTT(30)
      <4> QED
        BY <3>4, <3>5, <4>1, <4>3
    <3>10. P(1)
      BY <3>1, <3>2, <3>8, <3>9
    <3>11. 0 \in Nat /\ P(0 + 1)
      <4> HIDE DEF P
      <4>1. PICK one : one = 0 + 1
        OBVIOUS
      <4>2. one = 1
        BY <4>1
      <4> QED
        BY <3>10, <4>1, <4>2
    <3> HIDE DEF P
    <3> QED
      BY <3>11
  <2>3. ASSUME NEW e \in B PROVE e + 1 \in B
    <3> SUFFICES ASSUME e + 1 < n PROVE P((e + 1) + 1)
      <4> HIDE DEF P
      <4>1. e + 1 \in Nat
        OBVIOUS
      <4> QED
        BY <4>1
    <3>1. PICK m \in Nat : m = (e + 1) + 1
      OBVIOUS
    <3>2. PICK h, j \in Nat : h = i + m - 2 /\ j = i + m - 1
      BY <3>1
    <3>3. j \in 1 .. Len(s) /\ j - 1 = h /\ h \in 0 .. Len(s) /\ m # 1 /\ m \in 1 .. n
      <4>1. i \in Nat /\ i >= 1 /\ Len(s) \in Nat
        OBVIOUS
      <4>2. m >= 2 /\ m <= n
        BY <3>1
      <4>3. j - 1 = h /\ j >= 1 /\ h >= 0 /\ j <= Len(s)
        BY <3>2, <4>1, <4>2
      <4> QED
        BY <3>2, <4>1, <4>2, <4>3
    <3>4. e \in Nat /\ e < n /\ P(e + 1) /\ i + (e + 1) - 1 = h
      BY <3>1, <3>2
    <3>5. PICK k, c : k = f[h] /\ c = s[j]
      OBVIOUS
    <3>6. k.digits /\ Len(k.runs) = p + 2 /\ k.runs[p + 1] = 0
      BY <3>4, <3>5
    <3>7. IsDigit(c)
      BY <3>2, <3>3, <3>5 DEF Digital
    <3>8. k \in KeyState /\ c \in Chars /\ (k.digits => k.runs # <<>>)
      BY <2>1, <3>3, <3>5, KeyStatesTyped
    <3>9. f[j] = KeyStep(k, c)
      BY <2>1, <3>3, <3>5 DEF KeyStates
    <3>10. PICK z : z = f[j]
      OBVIOUS
    <3>11. PICK q \in Nat : q = p + 2
      BY <1>0
    <3>12. /\ z.digits /\ Len(z.runs) = q /\ z.runs[q] = 10 * k.runs[q] + c - 48
           /\ \A t \in 1 .. q - 1 : z.runs[t] = k.runs[t]
      <4>1. z = KeyStep(k, c) /\ Len(k.runs) = q
        BY <3>6, <3>9, <3>10, <3>11
      <4> QED
        <5> HIDE DEF P, B
        <5>0. k \in KeyState /\ c \in Chars /\ k.digits /\ k.runs # <<>> /\ z = KeyStep(k, c)
          BY <3>6, <3>8, <4>1
        <5>1. PICK L, x : L = Len(k.runs) /\ x = 10 * k.runs[L] + c - 48
          OBVIOUS
        <5>2. z.digits /\ Len(z.runs) = L /\ \A t \in 1 .. L - 1 : z.runs[t] = k.runs[t]
          BY <3>7, <5>0, <5>1, KeyStepPrefix
        <5>3. z.runs[L] = x
          BY <3>7, <5>0, <5>1, KeyStepLast
        <5> QED
          BY <3>7, <4>1, <5>1, <5>2, <5>3
    <3>13. p + 1 \in 1 .. q - 1
      BY <1>0, <3>11
    <3>14. z.runs[p + 1] = 0
      BY <3>6, <3>12, <3>13
    <3> QED
      BY <3>1, <3>2, <3>3, <3>5, <3>10, <3>11, <3>12, <3>14
  <2>4. B = Nat
    <3> HIDE DEF B
    <3>1. B \in SUBSET Nat
      BY DEF B
    <3> QED
      BY <2>2, <2>3, <3>1, Induction
  <2>5. ASSUME NEW m \in 1 .. n PROVE P(m)
    <3>1. m - 1 \in Nat /\ m - 1 < n /\ (m - 1) + 1 = m
      OBVIOUS
    <3> HIDE DEF P
    <3>2. m - 1 \in B
      BY <2>4, <3>1
    <3> QED
      BY <3>1, <3>2
  <2> DEFINE x == [m \in 0 .. n |-> IF m = 0 THEN 0 ELSE f[i + m - 1].runs[p + 2]]
  <2>6. Reads(x, s, i, n)
    <3>1. x[0] = 0
      OBVIOUS
    <3>2. ASSUME NEW m \in 1 .. n PROVE x[m] = 10 * x[m - 1] + s[i + m - 1] - 48
      <4>1. x[m] = f[i + m - 1].runs[p + 2]
        OBVIOUS
      <4>2. x[m] = IF m = 1 THEN s[i] - 48 ELSE 10 * f[i + m - 2].runs[p + 2] + s[i + m - 1] - 48
        BY <2>5, <4>1
      <4>3. CASE m = 1
        <5>1. m - 1 = 0 /\ i + m - 1 = i
          BY <4>3
        <5>2. x[m - 1] = 0
          BY <3>1, <5>1
        <5>3. x[m] = s[i] - 48
          BY <4>2, <4>3
        <5>4. s[i] \in Int
          <6>1. i \in 1 .. Len(s)
            BY <1>2
          <6>2. s[i] \in Chars
            BY <6>1
          <6> QED
            BY <6>2, WeightOf
        <5>5. PICK c \in Int : c = s[i]
          BY <5>4
        <5>6. 10 * 0 + c - 48 = c - 48
          BY <5>5
        <5> QED
          BY <5>1, <5>2, <5>3, <5>5, <5>6
      <4>4. CASE m # 1
        <5>1. m - 1 \in 0 .. n /\ m - 1 # 0 /\ i + (m - 1) - 1 = i + m - 2
          BY <4>4
        <5>2. x[m - 1] = f[i + m - 2].runs[p + 2]
          BY <5>1
        <5> HIDE DEF x
        <5> QED
          BY <4>2, <4>4, <5>2
      <4> QED
        BY <4>3, <4>4
    <3> HIDE DEF x
    <3> QED
      BY <3>1, <3>2 DEF Reads
  <2>7. PICK t, q : t = i + n /\ q = p + 2
    OBVIOUS
  <2>8. PICK y : y = t - 1
    OBVIOUS
  <2>9. y = i + n - 1 /\ n \in 1 .. n /\ t \in 1 .. Len(s) + 1 /\ y + 1 = t /\ q \in Nat
    BY <1>0, <1>2, <2>7, <2>8
  <2>10. Len(f[y].runs) = q /\ f[y].runs[p + 1] = 0 /\ f[y].runs[q] = x[n]
    <3>0. n # 0 /\ n \in 0 .. n
      BY <1>2
    <3>1. P(n) /\ x[n] = f[i + n - 1].runs[p + 2]
      <4>1. P(n)
        <5> HIDE DEF P
        <5> QED
          BY <2>5, <2>9
      <4>2. x[n] = f[i + n - 1].runs[p + 2]
        BY <3>0
      <4> QED
        BY <4>1, <4>2
    <3>2. /\ Len(f[i + n - 1].runs) = p + 2 /\ f[i + n - 1].runs[p + 1] = 0
          /\ x[n] = f[i + n - 1].runs[p + 2]
      BY <3>1
    <3> HIDE DEF x, P
    <3> QED
      BY <2>7, <2>9, <3>2
  <2> HIDE DEF x, P, B
  <2>11. Sits(f, s, t, q)
    <3>1. t = Len(s) + 1 \/ ~IsDigit(s[t])
      BY <2>7
    <3>2. Closed(f, s, y)
      BY <2>9, <3>1 DEF Closed
    <3> QED
      BY <2>8, <2>10, <3>2 DEF Sits
  <2>12. At(KeyOf(s), p + 1) = 0 /\ At(KeyOf(s), q) = x[n]
    <3>1. \A e \in 1 .. q : At(KeyOf(s), e) = f[y].runs[e]
      BY <2>1, <2>8, <2>9, <2>11, SitsFacts
    <3>2. p + 1 \in 1 .. q /\ q \in 1 .. q
      BY <1>0, <2>7
    <3> QED
      BY <2>10, <3>1, <3>2
  <2>13. Stands(s, t, q)
    BY <2>1, <2>11 DEF Stands
  <2> QED
    BY <2>6, <2>7, <2>12, <2>13
<1> QED
  BY <1>1, <1>2

\* x[m] is the number that the first m of the digits d write.
Number(x, d, n) ==
  /\ d \in [0 .. n - 1 -> 0 .. 9] /\ x[0] = 0
  /\ \A m \in 0 .. n - 1 : x[m + 1] = 10 * x[m] + d[m]

LEMMA NumberNat ==
  ASSUME NEW n \in Nat, NEW d, NEW x, Number(x, d, n)
  PROVE  \A e \in 0 .. n : x[e] \in Nat
<1> DEFINE B == {e \in Nat : e <= n => x[e] \in Nat}
<1>1. 0 \in B
  BY DEF Number
<1>2. ASSUME NEW e \in B PROVE e + 1 \in B
  <2> SUFFICES ASSUME e + 1 <= n PROVE x[e + 1] \in Nat
    OBVIOUS
  <2>1. e \in 0 .. n - 1 /\ x[e] \in Nat
    OBVIOUS
  <2>2. PICK u \in Nat, c \in 0 .. 9 : u = x[e] /\ c = d[e]
    BY <2>1 DEF Number
  <2>3. x[e + 1] = 10 * u + c
    BY <2>1, <2>2 DEF Number
  <2>4. 10 * u + c \in Nat
    OBVIOUS
  <2> QED
    BY <2>3, <2>4
<1>3. B = Nat
  <2> HIDE DEF B
  <2>1. B \in SUBSET Nat
    BY DEF B
  <2> QED
    BY <1>1, <1>2, <2>1, Induction
<1>4. \A e \in 0 .. n : e \in Nat /\ e <= n
  OBVIOUS
<1> QED
  BY <1>3, <1>4

LEMMA NumberNext ==
  ASSUME NEW n \in Nat, NEW d, NEW x, Number(x, d, n), NEW e \in 0 .. n - 1
  PROVE  \E u \in Nat, c \in 0 .. 9 : u = x[e] /\ c = d[e] /\ x[e + 1] = 10 * u + c
<1>1. e \in 0 .. n
  OBVIOUS
<1>2. PICK u \in Nat, c \in 0 .. 9 : u = x[e] /\ c = d[e]
  BY <1>1, NumberNat DEF Number
<1>3. x[e + 1] = 10 * u + c
  BY <1>2 DEF Number
<1> QED
  BY <1>2, <1>3

\* Of two numbers without zeros at the front the longer is the greater,
LEMMA NumberLonger ==
  ASSUME NEW n \in Nat, NEW d, NEW x, Number(x, d, n), d[0] # 0,
         NEW m \in Nat, NEW g, NEW y, Number(y, g, m), n > m
  PROVE  x[n] > y[m]
<1> DEFINE B == {e \in Nat : e <= m => x[e + 1] > y[e]}
           C == {e \in Nat : m + 1 + e <= n => x[m + 1 + e] > y[m]}
<1>1. 0 \in B
  <2>1. PICK z : z = 0
    OBVIOUS
  <2>2. z \in 0 .. n - 1 /\ x[z] = 0 /\ y[0] = 0 /\ d[z] # 0
    BY <2>1 DEF Number
  <2>3. PICK u \in Nat, c \in 0 .. 9 : u = x[z] /\ c = d[z] /\ x[z + 1] = 10 * u + c
    BY <2>2, NumberNext
  <2>4. 10 * u + c > 0
    BY <2>2, <2>3
  <2> QED
    BY <2>1, <2>2, <2>3, <2>4
<1>2. ASSUME NEW e \in B PROVE e + 1 \in B
  <2> SUFFICES ASSUME e + 1 <= m PROVE x[(e + 1) + 1] > y[e + 1]
    OBVIOUS
  <2>1. PICK f \in Nat : f = e + 1
    OBVIOUS
  <2>2. f \in 0 .. n - 1 /\ e \in 0 .. m - 1 /\ x[f] > y[e]
    BY <2>1
  <2>3. PICK u \in Nat, c \in 0 .. 9 : u = x[f] /\ c = d[f] /\ x[f + 1] = 10 * u + c
    BY <2>2, NumberNext
  <2>4. PICK v \in Nat, h \in 0 .. 9 : v = y[e] /\ h = g[e] /\ y[e + 1] = 10 * v + h
    BY <2>2, NumberNext
  <2>5. u > v
    BY <2>2, <2>3, <2>4
  <2>6. 10 * u + c > 10 * v + h
    BY <2>5
  <2> QED
    BY <2>1, <2>3, <2>4, <2>6
<1>3. B = Nat
  <2> HIDE DEF B
  <2>1. B \in SUBSET Nat
    BY DEF B
  <2> QED
    BY <1>1, <1>2, <2>1, Induction
<1>4. x[m + 1] > y[m]
  BY <1>3
<1>5. 0 \in C
  <2>1. m + 1 + 0 = m + 1
    OBVIOUS
  <2> QED
    BY <1>4, <2>1
<1>6. ASSUME NEW e \in C PROVE e + 1 \in C
  <2> SUFFICES ASSUME m + 1 + (e + 1) <= n PROVE x[m + 1 + (e + 1)] > y[m]
    OBVIOUS
  <2>1. PICK f \in Nat : f = m + 1 + e
    OBVIOUS
  <2>2. f \in 0 .. n - 1 /\ m \in 0 .. m /\ x[f] > y[m] /\ f + 1 = m + 1 + (e + 1)
    BY <2>1
  <2>3. PICK u \in Nat, c \in 0 .. 9 : u = x[f] /\ c = d[f] /\ x[f + 1] = 10 * u + c
    BY <2>2, NumberNext
  <2>4. PICK v \in Nat : v = y[m]
    BY <2>2, NumberNat
  <2>5. u > v
    BY <2>2, <2>3, <2>4
  <2>6. 10 * u + c > v
    BY <2>5
  <2> QED
    BY <2>2, <2>3, <2>4, <2>6
<1>7. C = Nat
  <2> HIDE DEF C
  <2>1. C \in SUBSET Nat
    BY DEF C
  <2> QED
    BY <1>5, <1>6, <2>1, Induction
<1>8. n - (m + 1) \in C /\ m + 1 + (n - (m + 1)) = n
  <2>1. n - (m + 1) \in Nat /\ m + 1 + (n - (m + 1)) = n
    OBVIOUS
  <2> QED
    BY <1>7, <2>1
<1> QED
  BY <1>8

\* and of two that are as long, the one with the greater digit where they first differ.
LEMMA NumberAlike ==
  ASSUME NEW n \in Nat, NEW d, NEW x, Number(x, d, n), NEW g, NEW y, Number(y, g, n),
         NEW k \in 0 .. n, \A e \in 0 .. k - 1 : d[e] = g[e]
  PROVE  x[k] = y[k]
<1> DEFINE B == {e \in Nat : e <= k => x[e] = y[e]}
<1>1. 0 \in B
  BY DEF Number
<1>2. ASSUME NEW e \in B PROVE e + 1 \in B
  <2> SUFFICES ASSUME e + 1 <= k PROVE x[e + 1] = y[e + 1]
    OBVIOUS
  <2>1. e \in 0 .. n - 1 /\ e \in 0 .. k - 1 /\ x[e] = y[e] /\ d[e] = g[e]
    OBVIOUS
  <2>2. PICK u \in Nat, c \in 0 .. 9 : u = x[e] /\ c = d[e] /\ x[e + 1] = 10 * u + c
    BY <2>1, NumberNext
  <2>3. PICK v \in Nat, h \in 0 .. 9 : v = y[e] /\ h = g[e] /\ y[e + 1] = 10 * v + h
    BY <2>1, NumberNext
  <2> QED
    BY <2>1, <2>2, <2>3
<1>3. B = Nat
  <2> HIDE DEF B
  <2>1. B \in SUBSET Nat
    BY DEF B
  <2> QED
    BY <1>1, <1>2, <2>1, Induction
<1> QED
  BY <1>3

LEMMA NumberFirstDigit ==
  ASSUME NEW n \in Nat, NEW d, NEW x, Number(x, d, n), NEW g, NEW y, Number(y, g, n),
         NEW k \in 0 .. n - 1, \A e \in 0 .. k - 1 : d[e] = g[e], d[k] > g[k]
  PROVE  x[n] > y[n]
<1> DEFINE B == {e \in Nat : k + 1 + e <= n => x[k + 1 + e] > y[k + 1 + e]}
<1>1. 0 \in B
  <2>1. k \in 0 .. n /\ k + 1 + 0 = k + 1
    OBVIOUS
  <2>2. PICK u \in Nat, c \in 0 .. 9 : u = x[k] /\ c = d[k] /\ x[k + 1] = 10 * u + c
    BY NumberNext
  <2>3. PICK v \in Nat, h \in 0 .. 9 : v = y[k] /\ h = g[k] /\ y[k + 1] = 10 * v + h
    BY NumberNext
  <2>4. u = v
    BY <2>1, <2>2, <2>3, NumberAlike
  <2>5. 10 * u + c > 10 * v + h
    BY <2>2, <2>3, <2>4
  <2> QED
    BY <2>1, <2>2, <2>3, <2>5
<1>2. ASSUME NEW e \in B PROVE e + 1 \in B
  <2> SUFFICES ASSUME k + 1 + (e + 1) <= n PROVE x[k + 1 + (e + 1)] > y[k + 1 + (e + 1)]
    OBVIOUS
  <2>1. PICK f \in Nat : f = k + 1 + e
    OBVIOUS
  <2>2. f \in 0 .. n - 1 /\ x[f] > y[f] /\ f + 1 = k + 1 + (e + 1)
    BY <2>1
  <2>3. PICK u \in Nat, c \in 0 .. 9 : u = x[f] /\ c = d[f] /\ x[f + 1] = 10 * u + c
    BY <2>2, NumberNext
  <2>4. PICK v \in Nat, h \in 0 .. 9 : v = y[f] /\ h = g[f] /\ y[f + 1] = 10 * v + h
    BY <2>2, NumberNext
  <2>5. u > v
    BY <2>2, <2>3, <2>4
  <2>6. 10 * u + c > 10 * v + h
    BY <2>5
  <2> QED
    BY <2>2, <2>3, <2>4, <2>6
<1>3. B = Nat
  <2> HIDE DEF B
  <2>1. B \in SUBSET Nat
    BY DEF B
  <2> QED
    BY <1>1, <1>2, <2>1, Induction
<1>4. n - (k + 1) \in Nat /\ k + 1 + (n - (k + 1)) = n
  OBVIOUS
<1>5. n - (k + 1) \in B
  BY <1>3, <1>4
<1> QED
  BY <1>4, <1>5

\* Zeros at the front count for nothing.
Zeros(s, i, z) == \A m \in 1 .. z : s[i + m - 1] = 48

LEMMA NumberWithoutZeros ==
  ASSUME NEW s \in Seq(Chars), NEW i \in Nat \ {0}, NEW n \in Nat, NEW x, Reads(x, s, i, n),
         NEW z \in 0 .. n, Zeros(s, i, z), NEW h, h = i + z, NEW r, r = n - z
  PROVE  \E y : Reads(y, s, h, r) /\ y[r] = x[n]
<1> DEFINE B == {e \in Nat : e <= z => x[e] = 0}
<1>1. 0 \in B
  BY DEF Reads
<1>2. ASSUME NEW e \in B PROVE e + 1 \in B
  <2> SUFFICES ASSUME e + 1 <= z PROVE x[e + 1] = 0
    OBVIOUS
  <2>1. PICK m : m = e + 1
    OBVIOUS
  <2>2. m \in 1 .. n /\ m \in 1 .. z /\ m - 1 = e /\ x[e] = 0
    BY <2>1
  <2>3. x[m] = 10 * x[m - 1] + s[i + m - 1] - 48
    BY <2>2 DEF Reads
  <2>4. s[i + m - 1] = 48
    BY <2>2 DEF Zeros
  <2>5. x[m] = 10 * 0 + 48 - 48
    BY <2>2, <2>3, <2>4
  <2>6. x[m] = 0
    BY <2>5
  <2> QED
    BY <2>1, <2>6
<1>3. B = Nat
  <2> HIDE DEF B
  <2>1. B \in SUBSET Nat
    BY DEF B
  <2> QED
    BY <1>1, <1>2, <2>1, Induction
<1>4. x[z] = 0
  BY <1>3
<1> DEFINE y == [m \in 0 .. r |-> x[z + m]]
<1>5. y[0] = 0
  BY <1>4
<1>6. ASSUME NEW m \in 1 .. r
      PROVE  y[m] = 10 * y[m - 1] + s[h + m - 1] - 48
  <2>1. PICK k : k = z + m
    OBVIOUS
  <2>2. k \in 1 .. n /\ k - 1 = z + (m - 1) /\ i + k - 1 = h + m - 1 /\ m - 1 \in 0 .. r
    BY <2>1
  <2>3. x[k] = 10 * x[k - 1] + s[i + k - 1] - 48
    BY <2>2 DEF Reads
  <2>4. y[m] = x[k] /\ y[m - 1] = x[k - 1]
    BY <2>1, <2>2
  <2> HIDE DEF y
  <2> QED
    BY <2>2, <2>3, <2>4
<1>7. y[r] = x[n]
  <2>1. r \in 0 .. r /\ z + r = n
    OBVIOUS
  <2> QED
    BY <2>1
<1> HIDE DEF y
<1> QED
  BY <1>5, <1>6, <1>7 DEF Reads

\* What is read from a string is the number that its digits write.
DigitsOf(s, i, n) == [m \in 0 .. n - 1 |-> s[i + m] - 48]

LEMMA NumberRead ==
  ASSUME NEW s \in Seq(Chars), NEW i \in Nat \ {0}, NEW n \in Nat, Digital(s, i, n), NEW x, Reads(x, s, i, n)
  PROVE  Number(x, DigitsOf(s, i, n), n)
<1> DEFINE d == [m \in 0 .. n - 1 |-> s[i + m] - 48]
<1>1. ASSUME NEW m \in 0 .. n - 1
      PROVE  d[m] \in 0 .. 9 /\ x[m + 1] = 10 * x[m] + d[m]
  <2>1. PICK f : f = m + 1
    OBVIOUS
  <2>2. f \in 1 .. n /\ f - 1 = m /\ i + f - 1 = i + m
    BY <2>1
  <2>3. PICK k : k = s[i + m]
    OBVIOUS
  <2>4. k \in 48 .. 57
    <3>1. IsDigit(k)
      BY <2>2, <2>3 DEF Digital
    <3> QED
      BY <3>1 DEF IsDigit, Digits
  <2>5. d[m] = k - 48
    BY <2>3
  <2>6. x[f] = 10 * x[m] + k - 48
    BY <2>2, <2>3 DEF Reads
  <2> HIDE DEF d
  <2> QED
    BY <2>1, <2>4, <2>5, <2>6
<1>2. x[0] = 0
  BY DEF Reads
<1>3. d \in [0 .. n - 1 -> 0 .. 9]
  BY <1>1
<1> HIDE DEF d
<1>4. Number(x, d, n)
  BY <1>1, <1>2, <1>3 DEF Number
<1> QED
  BY <1>4 DEF d, DigitsOf

(***************************************************************************)
(* The order of two keys.                                                  *)
(***************************************************************************)
Agree(k, m, p) == \A n \in 1 .. p : At(k, n) = At(m, n)

LEMMA OrderDiffers ==
  ASSUME NEW a \in Seq(Chars), NEW b \in Seq(Chars), NEW p \in Nat, Agree(KeyOf(a), KeyOf(b), p),
         NEW x, x = At(KeyOf(a), p + 1), NEW y, y = At(KeyOf(b), p + 1), x # y
  PROVE  x \in Int /\ y \in Int /\ OrderOf(KeyOf(a), KeyOf(b)) = Sign(x - y)
<1>1. PICK k, m, q : k = KeyOf(a) /\ m = KeyOf(b) /\ q = p + 1
  OBVIOUS
<1>2. /\ k \in Seq(Int) /\ m \in Seq(Int) /\ q \in Nat \ {0} /\ x = At(k, q) /\ y = At(m, q)
      /\ x \in Int /\ y \in Int /\ Agree(k, m, p)
  BY <1>1, KeyTyped
<1>3. PICK D : D = {n \in 1 .. Len(k) + Len(m) : At(k, n) # At(m, n)}
  OBVIOUS
<1>4. q \in D
  <2>1. q <= Len(k) \/ q <= Len(m)
    BY <1>2 DEF At
  <2>2. q \in 1 .. Len(k) + Len(m)
    BY <1>2, <2>1
  <2> QED
    BY <1>2, <1>3, <2>2
<1>5. \A n \in D : n \in Nat /\ q <= n
  <2> SUFFICES ASSUME NEW n \in D, ~(q <= n) PROVE FALSE
    BY <1>2, <1>3
  <2>1. n \in 1 .. p /\ At(k, n) # At(m, n)
    BY <1>1, <1>3
  <2> QED
    BY <1>2, <2>1 DEF Agree
<1>6. Min(D) = q
  <2>1. D \subseteq Nat /\ D # {}
    BY <1>4, <1>5
  <2>2. Min(D) \in D /\ \A n \in D : Min(D) <= n
    BY <2>1, MinIn
  <2>3. Min(D) <= q /\ q <= Min(D) /\ Min(D) \in Nat
    BY <1>4, <1>5, <2>2
  <2> QED
    BY <1>2, <2>3
<1>7. OrderOf(k, m) = Sign(x - y)
  BY <1>2, <1>3, <1>4, <1>6 DEF OrderOf
<1> QED
  BY <1>1, <1>2, <1>7

LEMMA OrderSame ==
  ASSUME NEW a \in Seq(Chars), NEW b \in Seq(Chars), NEW p \in Nat, Agree(KeyOf(a), KeyOf(b), p),
         Len(KeyOf(a)) <= p, Len(KeyOf(b)) <= p
  PROVE  OrderOf(KeyOf(a), KeyOf(b)) = 0
<1>1. PICK k, m : k = KeyOf(a) /\ m = KeyOf(b)
  OBVIOUS
<1>2. k \in Seq(Int) /\ m \in Seq(Int) /\ Len(k) <= p /\ Len(m) <= p /\ Agree(k, m, p)
  BY <1>1, KeyTyped
<1>3. PICK D : D = {n \in 1 .. Len(k) + Len(m) : At(k, n) # At(m, n)}
  OBVIOUS
<1>4. D = {}
  <2> SUFFICES ASSUME NEW n \in D PROVE FALSE
    OBVIOUS
  <2>1. n \in 1 .. Len(k) + Len(m) /\ At(k, n) # At(m, n)
    BY <1>3
  <2>2. n \in Nat /\ (n <= Len(k) \/ n <= Len(m))
    BY <1>2, <2>1 DEF At
  <2>3. n \in 1 .. p
    BY <1>2, <2>1, <2>2
  <2> QED
    BY <1>2, <2>1, <2>3 DEF Agree
<1>5. OrderOf(k, m) = 0
  BY <1>3, <1>4 DEF OrderOf
<1> QED
  BY <1>1, <1>5

\* PastRun goes past the characters of the run, and no more.
LEMMA PastRunOf ==
  ASSUME NEW s \in Seq(Chars), NEW k \in 1 .. Len(s) + 1, NEW chars, NEW e, e = PastRun(s, k, chars)
  PROVE  /\ e \in k .. Len(s) + 1
         /\ \A q \in k .. e - 1 : s[q] \in chars
         /\ e = Len(s) + 1 \/ s[e] \notin chars
<1>1. PICK S : S = {n \in k .. Len(s) + 1 : n = Len(s) + 1 \/ s[n] \notin chars}
  OBVIOUS
<1>2. S \subseteq Nat /\ Len(s) + 1 \in S
  BY <1>1
<1>3. e \in S /\ \A n \in S : e <= n
  BY <1>1, <1>2, MinIn DEF PastRun
<1>4. e \in k .. Len(s) + 1 /\ (e = Len(s) + 1 \/ s[e] \notin chars)
  BY <1>1, <1>3
<1>5. ASSUME NEW q \in k .. e - 1, s[q] \notin chars PROVE FALSE
  <2>1. q \in k .. Len(s) + 1 /\ ~(e <= q)
    BY <1>4
  <2>2. q \in S
    BY <1>1, <1>5, <2>1
  <2> QED
    BY <1>3, <2>1, <2>2
<1> QED
  BY <1>4, <1>5

\* The digits from s[z] up to s[e], of which the first is no 0, are the key's entry p + 2.
IsRead(s, z, e, p) ==
  LET d == DigitsOf(s, z, e - z)
  IN  \E x : /\ Number(x, d, e - z) /\ At(KeyOf(s), p + 2) = x[e - z]
             /\ e - z > 0 => d[0] # 0

\* Where a comparison stands, a run of digits or the end of the string: the next two entries of the key.
LEMMA StandsNumber ==
  ASSUME NEW s \in Seq(Chars), NEW k \in 1 .. Len(s) + 1, ~NonDigitAt(s, k), NEW p, Stands(s, k, p),
         NEW z, z = PastZeros(s, k), NEW e, e = PastRun(s, z, Digits)
  PROVE  /\ z \in 1 .. Len(s) + 1 /\ e \in z .. Len(s) + 1
         /\ Stands(s, e, p + 2) /\ At(KeyOf(s), p + 1) = 0
         /\ IsRead(s, z, e, p)
<1>0. k \in Nat \ {0} /\ k <= Len(s) + 1 /\ Len(s) \in Nat
  OBVIOUS
<1>1. /\ z \in k .. Len(s) + 1 /\ z \in 1 .. Len(s) + 1 /\ z \in Nat \ {0} /\ k <= z
      /\ \A q \in k .. z - 1 : s[q] = 48
      /\ z = Len(s) + 1 \/ s[z] # 48
  <2>1. z = PastRun(s, k, {48})
    BY DEF PastZeros
  <2>2. /\ z \in k .. Len(s) + 1
        /\ \A q \in k .. z - 1 : s[q] \in {48}
        /\ z = Len(s) + 1 \/ s[z] \notin {48}
    BY <2>1, PastRunOf
  <2> QED
    BY <1>0, <2>2
<1>2. /\ e \in z .. Len(s) + 1 /\ e \in Nat /\ z <= e
      /\ \A q \in z .. e - 1 : s[q] \in Digits
      /\ e = Len(s) + 1 \/ s[e] \notin Digits
  <2>1. /\ e \in z .. Len(s) + 1
        /\ \A q \in z .. e - 1 : s[q] \in Digits
        /\ e = Len(s) + 1 \/ s[e] \notin Digits
    BY <1>1, PastRunOf
  <2> QED
    BY <1>1, <2>1
<1>3. PICK n, c, r : n = e - k /\ c = z - k /\ r = e - z
  OBVIOUS
<1>4. /\ n \in Nat /\ c \in 0 .. n /\ r \in Nat /\ n - c = r /\ k + n = e /\ k + c = z /\ z + r = e
  <2>1. k \in Nat /\ z \in Nat /\ e \in Nat /\ k <= z /\ z <= e
    <3>1. k \in Nat
      BY <1>0
    <3>2. z \in Nat /\ k <= z
      BY <1>1
    <3>3. e \in Nat /\ z <= e
      BY <1>2
    <3> QED
      BY <3>1, <3>2, <3>3
  <2>2. n \in Nat /\ c \in Nat /\ r \in Nat
    <3>1. \A u, v \in Nat : u <= v => v - u \in Nat
      OBVIOUS
    <3>2. k <= e
      BY <2>1
    <3> QED
      BY <1>3, <2>1, <3>1, <3>2
  <2>3. c <= n /\ n - c = r
    <3>1. \A u, v, x \in Nat : v <= x => v - u <= x - u /\ (x - u) - (v - u) = x - v
      OBVIOUS
    <3>2. z - k <= e - k /\ (e - k) - (z - k) = e - z
      BY <2>1, <3>1
    <3> QED
      BY <1>3, <3>2
  <2>4. k + n = e /\ k + c = z /\ z + r = e
    <3>1. \A u, v \in Nat : u + (v - u) = v
      OBVIOUS
    <3> QED
      BY <1>3, <2>1, <3>1
  <2> QED
    BY <2>2, <2>3, <2>4
<1>5. \A q \in k .. e - 1 : s[q] \in Digits
  <2> SUFFICES ASSUME NEW q \in k .. e - 1 PROVE s[q] \in Digits
    OBVIOUS
  <2>1. CASE q < z
    <3>1. s[q] = 48
      BY <1>0, <1>1, <1>2, <2>1
    <3> QED
      BY <3>1 DEF Digits
  <2>2. CASE ~(q < z)
    BY <1>0, <1>1, <1>2, <2>2
  <2> QED
    BY <2>1, <2>2
<1>6. Digital(s, k, n) /\ Digital(s, z, r)
  <2>1. \A m \in 1 .. n : k + m - 1 \in k .. e - 1
    BY <1>0, <1>4
  <2>2. \A m \in 1 .. r : z + m - 1 \in z .. e - 1
    BY <1>1, <1>4
  <2> QED
    BY <1>2, <1>5, <2>1, <2>2 DEF Digital, IsDigit
<1>7. n = 0 => k = Len(s) + 1
  <2> SUFFICES ASSUME n = 0, k # Len(s) + 1 PROVE FALSE
    OBVIOUS
  <2>1. e = k /\ k <= Len(s)
    BY <1>0, <1>4
  <2>2. s[k] \in Digits
    BY <2>1 DEF NonDigitAt, IsDigit
  <2> QED
    BY <1>0, <1>2, <2>1, <2>2
<1>8. k + n <= Len(s) + 1 /\ (k + n = Len(s) + 1 \/ ~IsDigit(s[k + n]))
  BY <1>2, <1>4 DEF IsDigit
<1>9. /\ Stands(s, k + n, p + 2) /\ At(KeyOf(s), p + 1) = 0
      /\ \E x : Reads(x, s, k, n) /\ At(KeyOf(s), p + 2) = x[n]
  BY <1>4, <1>6, <1>7, <1>8, StandsDigits
<1>10. PICK x : Reads(x, s, k, n) /\ At(KeyOf(s), p + 2) = x[n]
  BY <1>9
<1>11. Zeros(s, k, c)
  <2>1. \A m \in 1 .. c : k + m - 1 \in k .. z - 1
    BY <1>0, <1>4
  <2> QED
    BY <1>1, <2>1 DEF Zeros
<1>12. z = k + c /\ r = n - c
  BY <1>4
<1>13. PICK y : Reads(y, s, z, r) /\ y[r] = x[n]
  BY <1>0, <1>4, <1>10, <1>11, <1>12, NumberWithoutZeros
<1>14. Number(y, DigitsOf(s, z, r), r)
  BY <1>1, <1>4, <1>6, <1>13, NumberRead
<1>15. r > 0 => DigitsOf(s, z, r)[0] # 0
  <2> SUFFICES ASSUME r > 0 PROVE DigitsOf(s, z, r)[0] # 0
    OBVIOUS
  <2>1. z # Len(s) + 1 /\ z \in z .. e - 1
    BY <1>1, <1>2, <1>4
  <2>2. s[z] \in Digits /\ s[z] # 48
    BY <1>1, <1>2, <2>1
  <2>3. PICK h : h = s[z]
    OBVIOUS
  <2>4. h - 48 # 0
    BY <2>2, <2>3 DEF Digits
  <2>5. 0 \in 0 .. r - 1 /\ z + 0 = z
    BY <1>1, <1>4
  <2>6. DigitsOf(s, z, r)[0] = h - 48
    BY <2>3, <2>5 DEF DigitsOf
  <2> QED
    BY <2>4, <2>6
<1>16. IsRead(s, z, e, p)
  BY <1>3, <1>10, <1>13, <1>14, <1>15 DEF IsRead
<1> QED
  BY <1>1, <1>2, <1>4, <1>9, <1>16

\* The next entry is the weight that the comparison takes.
LEMMA StandsWeight ==
  ASSUME NEW s \in Seq(Chars), NEW k \in 1 .. Len(s) + 1, NEW p, Stands(s, k, p)
  PROVE  At(KeyOf(s), p + 1) = WeightAt(s, k)
<1>1. CASE NonDigitAt(s, k)
  <2>1. k \in 1 .. Len(s) /\ ~IsDigit(s[k])
    BY <1>1 DEF NonDigitAt
  <2> QED
    BY <1>1, <2>1, StandsLetter DEF WeightAt
<1>2. CASE ~NonDigitAt(s, k)
  <2>1. PICK z, e : z = PastZeros(s, k) /\ e = PastRun(s, z, Digits)
    OBVIOUS
  <2>2. At(KeyOf(s), p + 1) = 0
    BY <1>2, <2>1, StandsNumber
  <2> QED
    BY <1>2, <2>2 DEF WeightAt
<1> QED
  BY <1>1, <1>2

\* The comparison has gone by as much of the one key as of the other, and it was the same.
Alongside(w, a, b) == \E p : Stands(a, w.i, p) /\ Stands(b, w.j, p) /\ Agree(KeyOf(a), KeyOf(b), p)

\* What a step does: it decides, or it has nothing against either.
Ordered(w, c, a, b) ==
  \/ c.at = "done" /\ c.result = OrderOf(KeyOf(a), KeyOf(b)) /\ c.result # 0
  \/ c.at = w.at /\ c.result = w.result /\ Alongside(c, a, b)

LEMMA AgreeMore ==
  ASSUME NEW k, NEW m, NEW p \in Nat, Agree(k, m, p), NEW q, q = p + 1, At(k, q) = At(m, q)
  PROVE  Agree(k, m, q)
<1> SUFFICES ASSUME NEW n \in 1 .. q PROVE At(k, n) = At(m, n)
  BY DEF Agree
<1>1. n \in 1 .. p \/ n = q
  OBVIOUS
<1> QED
  BY <1>1 DEF Agree

LEMMA SignOf ==
  ASSUME NEW n \in Int
  PROVE  /\ n > 0 => Sign(n) = 1
         /\ n < 0 => Sign(n) = -1
         /\ n = 0 => Sign(n) = 0
         /\ Sign(n) \in Int /\ (Sign(n) = 0 => n = 0)
BY DEF Sign

LEMMA DecideOrder ==
  ASSUME NEW a \in Seq(Chars), NEW b \in Seq(Chars), NEW p \in Nat, Agree(KeyOf(a), KeyOf(b), p),
         NEW x, x = At(KeyOf(a), p + 1), NEW y, y = At(KeyOf(b), p + 1), x # y,
         NEW w, NEW n \in Int, (n > 0 /\ x > y) \/ (n < 0 /\ x < y)
  PROVE  Ordered(w, Decide(w, n), a, b)
<1>1. x \in Int /\ y \in Int /\ OrderOf(KeyOf(a), KeyOf(b)) = Sign(x - y)
  BY OrderDiffers
<1>2. PICK m \in Int : m = x - y
  BY <1>1
<1>3. Sign(m) = Sign(n) /\ Sign(n) # 0
  <2>1. (n > 0 /\ m > 0) \/ (n < 0 /\ m < 0)
    BY <1>1, <1>2
  <2> QED
    BY <2>1, SignOf
<1>4. Decide(w, n).at = "done" /\ Decide(w, n).result = Sign(n)
  BY DEF Decide
<1> QED
  BY <1>1, <1>2, <1>3, <1>4 DEF Ordered

LEMMA LetterOrder ==
  ASSUME NEW a \in Seq(Chars), NEW b \in Seq(Chars), NEW w, Inside(w, a, b), InLetters(w, a, b),
         Alongside(w, a, b)
  PROVE  Ordered(w, LetterStep(w, a, b), a, b)
<1>1. PICK p : Stands(a, w.i, p) /\ Stands(b, w.j, p) /\ Agree(KeyOf(a), KeyOf(b), p)
  BY DEF Alongside
<1>2. PICK i, j : i = w.i /\ j = w.j
  OBVIOUS
<1>3. i \in 1 .. Len(a) + 1 /\ j \in 1 .. Len(b) + 1 /\ p \in Nat /\ i \in Nat \ {0} /\ j \in Nat \ {0}
  <2>1. i \in 1 .. Len(a) + 1 /\ j \in 1 .. Len(b) + 1
    BY <1>2 DEF Inside
  <2> QED
    BY <1>1, <1>2, <2>1, StandsTyped
<1>4. PICK x, y : x = WeightAt(a, i) /\ y = WeightAt(b, j)
  OBVIOUS
<1>5. /\ x \in Int /\ y \in Int
      /\ x = At(KeyOf(a), p + 1) /\ y = At(KeyOf(b), p + 1)
  BY <1>1, <1>2, <1>3, <1>4, StandsWeight, WeightTyped
<1>6. CASE x - y # 0
  <2>1. PICK n \in Int : n = x - y
    BY <1>5
  <2>2. LetterStep(w, a, b) = Decide(w, n)
    BY <1>2, <1>4, <1>6, <2>1 DEF LetterStep
  <2>3. x # y /\ ((n > 0 /\ x > y) \/ (n < 0 /\ x < y))
    BY <1>5, <1>6, <2>1
  <2>4. Ordered(w, Decide(w, n), a, b)
    BY <1>1, <1>3, <1>5, <2>1, <2>3, DecideOrder
  <2> QED
    BY <2>2, <2>4
<1>7. CASE x - y = 0
  <2>1. x = y
    BY <1>5, <1>7
  <2>2. NonDigitAt(a, i) /\ NonDigitAt(b, j)
    <3>1. NonDigitAt(a, i) => x # 0
      <4> SUFFICES ASSUME NonDigitAt(a, i) PROVE x # 0
        OBVIOUS
      <4>1. i \in 1 .. Len(a)
        BY <1>3 DEF NonDigitAt
      <4>2. a[i] \in Chars
        BY <4>1
      <4> QED
        BY <1>4, <4>2, WeightOf DEF WeightAt
    <3>2. NonDigitAt(b, j) => y # 0
      <4> SUFFICES ASSUME NonDigitAt(b, j) PROVE y # 0
        OBVIOUS
      <4>1. j \in 1 .. Len(b)
        BY <1>3 DEF NonDigitAt
      <4>2. b[j] \in Chars
        BY <4>1
      <4> QED
        BY <1>4, <4>2, WeightOf DEF WeightAt
    <3>3. NonDigitAt(a, i) \/ NonDigitAt(b, j)
      BY <1>2 DEF InLetters
    <3>4. (~NonDigitAt(a, i) => x = 0) /\ (~NonDigitAt(b, j) => y = 0)
      BY <1>4 DEF WeightAt
    <3> QED
      BY <2>1, <3>1, <3>2, <3>3, <3>4
  <2>3. PICK c : c = LetterStep(w, a, b)
    OBVIOUS
  <2>4. c = MoveTo(w, w.at, i + 1, j + 1)
    BY <1>2, <1>4, <1>7, <2>2, <2>3 DEF LetterStep
  <2>5. c.at = w.at /\ c.i = i + 1 /\ c.j = j + 1 /\ c.result = w.result
    BY <2>4 DEF MoveTo
  <2>6. i \in 1 .. Len(a) /\ ~IsDigit(a[i]) /\ j \in 1 .. Len(b) /\ ~IsDigit(b[j])
    BY <1>3, <2>2 DEF NonDigitAt
  <2>7. Stands(a, i + 1, p + 1) /\ Stands(b, j + 1, p + 1)
    BY <1>1, <1>2, <2>6, StandsLetter
  <2>8. PICK q : q = p + 1
    OBVIOUS
  <2>9. Agree(KeyOf(a), KeyOf(b), q)
    BY <1>1, <1>3, <1>5, <2>1, <2>8, AgreeMore
  <2>10. Stands(a, c.i, q) /\ Stands(b, c.j, q)
    BY <2>5, <2>7, <2>8
  <2>11. Alongside(c, a, b)
    BY <2>9, <2>10 DEF Alongside
  <2> QED
    BY <2>3, <2>5, <2>11 DEF Ordered
<1> QED
  BY <1>6, <1>7

LEMMA NumberOrder ==
  ASSUME NEW a \in Seq(Chars), NEW b \in Seq(Chars), NEW w, Inside(w, a, b), ~InLetters(w, a, b),
         Alongside(w, a, b)
  PROVE  Ordered(w, NumberStep(w, a, b), a, b)
<1>1. PICK p : Stands(a, w.i, p) /\ Stands(b, w.j, p) /\ Agree(KeyOf(a), KeyOf(b), p)
  BY DEF Alongside
<1>2. /\ w.i \in 1 .. Len(a) + 1 /\ w.j \in 1 .. Len(b) + 1 /\ p \in Nat
      /\ ~NonDigitAt(a, w.i) /\ ~NonDigitAt(b, w.j)
  <2>1. w.i \in 1 .. Len(a) + 1 /\ w.j \in 1 .. Len(b) + 1
    BY DEF Inside
  <2> QED
    BY <1>1, <2>1, StandsTyped DEF InLetters
<1>3. PICK si, sj : si = PastZeros(a, w.i) /\ sj = PastZeros(b, w.j)
  OBVIOUS
<1>4. PICK i, j : i = PastRun(a, si, Digits) /\ j = PastRun(b, sj, Digits)
  OBVIOUS
<1>5. PICK n, m : n = i - si /\ m = j - sj
  OBVIOUS
<1>6. PICK d, g : d = DigitsOf(a, si, n) /\ g = DigitsOf(b, sj, m)
  OBVIOUS
<1>7. /\ si \in 1 .. Len(a) + 1 /\ i \in si .. Len(a) + 1
      /\ Stands(a, i, p + 2) /\ At(KeyOf(a), p + 1) = 0 /\ IsRead(a, si, i, p)
  BY <1>1, <1>2, <1>3, <1>4, StandsNumber
<1>8. /\ sj \in 1 .. Len(b) + 1 /\ j \in sj .. Len(b) + 1
      /\ Stands(b, j, p + 2) /\ At(KeyOf(b), p + 1) = 0 /\ IsRead(b, sj, j, p)
  BY <1>1, <1>2, <1>3, <1>4, StandsNumber
<1>9. PICK x : Number(x, d, n) /\ At(KeyOf(a), p + 2) = x[n] /\ (n > 0 => d[0] # 0)
  BY <1>5, <1>6, <1>7 DEF IsRead
<1>10. PICK y : Number(y, g, m) /\ At(KeyOf(b), p + 2) = y[m] /\ (m > 0 => g[0] # 0)
  BY <1>5, <1>6, <1>8 DEF IsRead
<1>11. n \in Nat /\ m \in Nat
  BY <1>5, <1>7, <1>8
<1>12. PICK q \in Nat : q = p + 1
  BY <1>2
<1>13. Agree(KeyOf(a), KeyOf(b), q)
  BY <1>1, <1>2, <1>7, <1>8, <1>12, AgreeMore
<1>14. p + 2 = q + 1
  BY <1>2, <1>12
<1>15. PICK u, v : u = x[n] /\ v = y[m]
  OBVIOUS
<1>16. u \in Nat /\ v \in Nat /\ u = At(KeyOf(a), q + 1) /\ v = At(KeyOf(b), q + 1)
  <2>1. n \in 0 .. n /\ m \in 0 .. m
    BY <1>11
  <2>2. x[n] \in Nat /\ y[m] \in Nat
    BY <1>9, <1>10, <1>11, <2>1, NumberNat
  <2> QED
    BY <1>9, <1>10, <1>14, <1>15, <2>2
<1>17. PICK D : D = {k \in 0 .. n - 1 : a[si + k] # b[sj + k]}
  OBVIOUS
<1>18. NumberStep(w, a, b) =
         IF n # m THEN Decide(w, n - m)
         ELSE IF D # {} THEN Decide(w, a[si + Min(D)] - b[sj + Min(D)])
         ELSE MoveTo(w, w.at, i, j)
  BY <1>3, <1>4, <1>5, <1>17 DEF NumberStep
<1>19. CASE n # m
  <2>1. PICK f \in Int : f = n - m
    BY <1>11
  <2>2. (n > m => u > v) /\ (m > n => v > u)
    BY <1>9, <1>10, <1>11, <1>15, NumberLonger
  <2>3. u # v /\ ((f > 0 /\ u > v) \/ (f < 0 /\ u < v))
    BY <1>11, <1>16, <1>19, <2>1, <2>2
  <2>4. Ordered(w, Decide(w, f), a, b)
    BY <1>12, <1>13, <1>16, <2>1, <2>3, DecideOrder
  <2> QED
    BY <1>18, <1>19, <2>1, <2>4
<1>20. CASE n = m /\ D # {}
  <2>1. PICK k : k = Min(D)
    OBVIOUS
  <2>2. k \in D /\ \A e \in D : k <= e
    <3>1. D \subseteq Nat
      BY <1>11, <1>17
    <3> QED
      BY <1>20, <2>1, <3>1, MinIn
  <2>3. k \in 0 .. n - 1 /\ k \in Nat /\ a[si + k] # b[sj + k]
    BY <1>11, <1>17, <2>2
  <2>4. \A e \in 0 .. n - 1 : d[e] = a[si + e] - 48 /\ g[e] = b[sj + e] - 48
    BY <1>6, <1>20 DEF DigitsOf
  <2>5. \A e \in 0 .. k - 1 : d[e] = g[e]
    <3> SUFFICES ASSUME NEW e \in 0 .. k - 1 PROVE d[e] = g[e]
      OBVIOUS
    <3>1. e \in 0 .. n - 1 /\ ~(k <= e)
      BY <1>11, <2>3
    <3>2. a[si + e] = b[sj + e]
      BY <1>17, <2>2, <3>1
    <3> QED
      BY <2>4, <3>1, <3>2
  <2>6. PICK h, l : h = a[si + k] /\ l = b[sj + k]
    OBVIOUS
  <2>7. h \in Int /\ l \in Int /\ h # l
    <3>1. si + k \in 1 .. Len(a) /\ sj + k \in 1 .. Len(b)
      <4>1. \A s, e, z, t \in Nat : s >= 1 /\ e <= z + 1 /\ t < e - s => s + t \in 1 .. z
        OBVIOUS
      <4>2. /\ si \in Nat /\ i \in Nat /\ sj \in Nat /\ j \in Nat /\ Len(a) \in Nat /\ Len(b) \in Nat
            /\ si >= 1 /\ sj >= 1 /\ i <= Len(a) + 1 /\ j <= Len(b) + 1 /\ k < i - si /\ k < j - sj
        BY <1>5, <1>7, <1>8, <1>20, <2>3
      <4> QED
        BY <2>3, <4>1, <4>2
    <3>2. h \in Chars /\ l \in Chars
      BY <2>6, <3>1
    <3> QED
      BY <2>3, <2>6, <3>2, WeightOf
  <2>8. d[k] = h - 48 /\ g[k] = l - 48
    BY <2>3, <2>4, <2>6
  <2>9. (d[k] > g[k] => u > v) /\ (g[k] > d[k] => v > u)
    <3>1. \A e \in 0 .. k - 1 : g[e] = d[e]
      BY <2>5
    <3> QED
      BY <1>9, <1>10, <1>11, <1>15, <1>20, <2>3, <2>5, <3>1, NumberFirstDigit
  <2>10. PICK f \in Int : f = h - l
    BY <2>7
  <2>11. u # v /\ ((f > 0 /\ u > v) \/ (f < 0 /\ u < v))
    <3>1. CASE h > l
      <4>1. d[k] > g[k]
        BY <2>7, <2>8, <3>1
      <4> QED
        BY <1>16, <2>7, <2>9, <2>10, <3>1, <4>1
    <3>2. CASE h < l
      <4>1. g[k] > d[k]
        BY <2>7, <2>8, <3>2
      <4> QED
        BY <1>16, <2>7, <2>9, <2>10, <3>2, <4>1
    <3> QED
      BY <2>7, <3>1, <3>2
  <2>12. Ordered(w, Decide(w, f), a, b)
    BY <1>12, <1>13, <1>16, <2>10, <2>11, DecideOrder
  <2>13. NumberStep(w, a, b) = Decide(w, f)
    BY <1>18, <1>20, <2>1, <2>6, <2>10
  <2> QED
    BY <2>12, <2>13
<1>21. CASE n = m /\ D = {}
  <2>1. \A e \in 0 .. n - 1 : d[e] = g[e]
    <3> SUFFICES ASSUME NEW e \in 0 .. n - 1 PROVE d[e] = g[e]
      OBVIOUS
    <3>1. a[si + e] = b[sj + e]
      BY <1>17, <1>21
    <3> QED
      BY <1>6, <1>21, <3>1 DEF DigitsOf
  <2>2. n \in 0 .. n
    BY <1>11
  <2>3. u = v
    BY <1>9, <1>10, <1>11, <1>15, <1>21, <2>1, <2>2, NumberAlike
  <2>4. PICK t : t = p + 2
    OBVIOUS
  <2>5. Agree(KeyOf(a), KeyOf(b), t)
    <3>1. t = q + 1
      BY <1>14, <2>4
    <3> QED
      BY <1>12, <1>13, <1>16, <2>3, <3>1, AgreeMore
  <2>6. PICK c : c = NumberStep(w, a, b)
    OBVIOUS
  <2>7. c = MoveTo(w, w.at, i, j)
    BY <1>18, <1>21, <2>6
  <2>8. c.at = w.at /\ c.i = i /\ c.j = j /\ c.result = w.result
    BY <2>7 DEF MoveTo
  <2>9. Alongside(c, a, b)
    BY <1>7, <1>8, <2>4, <2>5, <2>8 DEF Alongside
  <2> QED
    BY <2>6, <2>8, <2>9 DEF Ordered
<1> QED
  BY <1>19, <1>20, <1>21

\* A step in a part: it decides, goes on, or comes to the end of both with nothing against either.
LEMMA FragmentOrder ==
  ASSUME NEW a \in Seq(Chars), NEW b \in Seq(Chars), NEW w, Inside(w, a, b), Alongside(w, a, b), NEW then,
         NEW c, c = FragmentStep(w, a, b, then)
  PROVE  \/ Ordered(w, c, a, b)
         \/ c.at = then /\ c.i = 1 /\ c.j = 1 /\ c.result = w.result /\ OrderOf(KeyOf(a), KeyOf(b)) = 0
<1>1. CASE InLetters(w, a, b)
  BY <1>1, LetterOrder DEF FragmentStep
<1>2. CASE ~InLetters(w, a, b) /\ NotAtEnd(w, a, b)
  BY <1>2, NumberOrder DEF FragmentStep
<1>3. CASE ~InLetters(w, a, b) /\ ~NotAtEnd(w, a, b)
  <2>1. c = MoveTo(w, then, 1, 1)
    BY <1>3 DEF FragmentStep
  <2>2. c.at = then /\ c.i = 1 /\ c.j = 1 /\ c.result = w.result
    BY <2>1 DEF MoveTo
  <2>3. PICK p : Stands(a, w.i, p) /\ Stands(b, w.j, p) /\ Agree(KeyOf(a), KeyOf(b), p)
    BY DEF Alongside
  <2>4. PICK i, j : i = w.i /\ j = w.j
    OBVIOUS
  <2>5. i \in 1 .. Len(a) + 1 /\ j \in 1 .. Len(b) + 1
    BY <2>4 DEF Inside
  <2>6. i = Len(a) + 1 /\ j = Len(b) + 1
    BY <1>3, <2>4, <2>5 DEF NotAtEnd
  <2>7. p \in Nat /\ Len(KeyOf(a)) <= p /\ Len(KeyOf(b)) <= p
    BY <2>3, <2>4, <2>5, <2>6, StandsTyped
  <2>8. OrderOf(KeyOf(a), KeyOf(b)) = 0
    BY <2>3, <2>7, OrderSame
  <2> QED
    BY <2>2, <2>8
<1> QED
  BY <1>1, <1>2, <1>3

(***************************************************************************)
(* The three parts.                                                        *)
(***************************************************************************)
Answer(v, u) ==
  FirstOf(<<Sign(v.epoch - u.epoch), OrderOf(KeyOf(v.upstream), KeyOf(u.upstream)),
            OrderOf(KeyOf(v.revision), KeyOf(u.revision))>>)

\* A comparison has nothing against either version yet, or has the answer.
Right(w, v, u) ==
  /\ w.at # "done" => w.result = 0
  /\ w.at = "upstream" => v.epoch = u.epoch /\ Alongside(w, v.upstream, u.upstream)
  /\ w.at = "revision" =>
       /\ v.epoch = u.epoch /\ OrderOf(KeyOf(v.upstream), KeyOf(u.upstream)) = 0
       /\ Alongside(w, v.revision, u.revision)
  /\ w.at = "done" => w.result = Answer(v, u)

LEMMA FirstOfThree ==
  ASSUME NEW x, NEW y, NEW z
  PROVE  FirstOf(<<x, y, z>>) = IF x # 0 THEN x ELSE IF y # 0 THEN y ELSE z
<1>1. PICK o : o = <<x, y, z>>
  OBVIOUS
<1>2. DOMAIN o = {1, 2, 3} /\ o[1] = x /\ o[2] = y /\ o[3] = z
  BY <1>1
<1>3. PICK D : D = {n \in DOMAIN o : o[n] # 0}
  OBVIOUS
<1>4. D \subseteq Nat /\ D \subseteq {1, 2, 3}
  BY <1>2, <1>3
<1>5. FirstOf(o) = IF D = {} THEN 0 ELSE o[Min(D)]
  BY <1>3 DEF FirstOf
<1>6. D # {} => Min(D) \in D /\ \A n \in D : Min(D) <= n
  BY <1>4, MinIn
<1>7. CASE x # 0
  <2>1. 1 \in D
    BY <1>2, <1>3, <1>7
  <2>2. PICK m : m = Min(D)
    OBVIOUS
  <2>3. m \in {1, 2, 3} /\ m <= 1
    BY <1>4, <1>6, <2>1, <2>2
  <2>4. Min(D) = 1
    BY <2>2, <2>3
  <2> QED
    BY <1>1, <1>2, <1>5, <1>7, <2>1, <2>4
<1>8. CASE x = 0 /\ y # 0
  <2>1. 2 \in D /\ 1 \notin D
    BY <1>2, <1>3, <1>8
  <2>2. PICK m : m = Min(D)
    OBVIOUS
  <2>3. m \in {2, 3} /\ m <= 2
    BY <1>4, <1>6, <2>1, <2>2
  <2>4. Min(D) = 2
    BY <2>2, <2>3
  <2> QED
    BY <1>1, <1>2, <1>5, <1>8, <2>1, <2>4
<1>9. CASE x = 0 /\ y = 0 /\ z # 0
  <2>1. D = {3}
    BY <1>2, <1>3, <1>9
  <2>2. Min(D) = 3
    BY <1>6, <2>1
  <2> QED
    BY <1>1, <1>2, <1>5, <1>9, <2>1, <2>2
<1>10. CASE x = 0 /\ y = 0 /\ z = 0
  <2>1. D = {}
    BY <1>2, <1>3, <1>10
  <2> QED
    BY <1>1, <1>5, <1>10, <2>1
<1> QED
  BY <1>7, <1>8, <1>9, <1>10

LEMMA AlongsideFirst ==
  ASSUME NEW a \in Seq(Chars), NEW b \in Seq(Chars), NEW w, w.i = 1, w.j = 1
  PROVE  Alongside(w, a, b)
<1>1. Stands(a, 1, 0) /\ Stands(b, 1, 0)
  BY StandsFirst
<1>2. PICK z : z = 0
  OBVIOUS
<1>3. Agree(KeyOf(a), KeyOf(b), z)
  BY <1>2 DEF Agree
<1> QED
  BY <1>1, <1>2, <1>3 DEF Alongside

\* A step keeps to the order of the three parts.
LEMMA StepOrder ==
  ASSUME NEW v \in VersionType, NEW u \in VersionType, NEW w, WalkOK(w, v, u), Right(w, v, u)
  PROVE  Right(StepOf(w, v, u), v, u)
<1>0. /\ w \in Walk /\ w.at \in Places
      /\ v.epoch \in Nat /\ v.upstream \in Seq(Chars) /\ v.revision \in Seq(Chars)
      /\ u.epoch \in Nat /\ u.upstream \in Seq(Chars) /\ u.revision \in Seq(Chars)
  BY WalkFields DEF WalkOK, VersionType
<1>1. PICK c : c = StepOf(w, v, u)
  OBVIOUS
<1>2. PICK x, y, z : /\ x = Sign(v.epoch - u.epoch) /\ y = OrderOf(KeyOf(v.upstream), KeyOf(u.upstream))
                     /\ z = OrderOf(KeyOf(v.revision), KeyOf(u.revision))
  OBVIOUS
<1>3. Answer(v, u) = IF x # 0 THEN x ELSE IF y # 0 THEN y ELSE z
  <2>1. Answer(v, u) = FirstOf(<<x, y, z>>)
    BY <1>2 DEF Answer
  <2> QED
    BY <2>1, FirstOfThree
<1>4. PICK n \in Int : n = v.epoch - u.epoch
  BY <1>0
<1>5. (v.epoch = u.epoch) <=> (x = 0)
  <2>1. n = 0 <=> v.epoch = u.epoch
    BY <1>0, <1>4
  <2>2. x = 0 <=> n = 0
    BY <1>2, <1>4, SignOf
  <2> QED
    BY <2>1, <2>2
<1>6. CASE w.at = "epoch"
  <2>1. CASE v.epoch # u.epoch
    <3>1. c = Decide(w, n)
      BY <1>1, <1>4, <1>6, <2>1 DEF StepOf
    <3>2. c.at = "done" /\ c.result = x
      BY <1>2, <1>4, <3>1 DEF Decide
    <3> QED
      BY <1>1, <1>3, <1>5, <2>1, <3>2 DEF Right
  <2>2. CASE v.epoch = u.epoch
    <3>1. c = MoveTo(w, "upstream", w.i, w.j) /\ w.i = 1 /\ w.j = 1 /\ w.result = 0
      BY <1>1, <1>6, <2>2 DEF StepOf, WalkOK, Right
    <3>2. c.at = "upstream" /\ c.i = 1 /\ c.j = 1 /\ c.result = 0
      BY <3>1 DEF MoveTo
    <3>3. Alongside(c, v.upstream, u.upstream)
      BY <1>0, <3>2, AlongsideFirst
    <3> QED
      BY <1>1, <2>2, <3>2, <3>3 DEF Right
  <2> QED
    BY <2>1, <2>2
<1>7. CASE w.at = "upstream"
  <2>1. /\ Inside(w, v.upstream, u.upstream) /\ Alongside(w, v.upstream, u.upstream)
        /\ v.epoch = u.epoch /\ w.result = 0
    BY <1>7 DEF WalkOK, Right
  <2>2. c = FragmentStep(w, v.upstream, u.upstream, "revision")
    BY <1>1, <1>7 DEF StepOf
  <2>3. \/ Ordered(w, c, v.upstream, u.upstream)
        \/ c.at = "revision" /\ c.i = 1 /\ c.j = 1 /\ c.result = w.result /\ y = 0
    BY <1>0, <1>2, <2>1, <2>2, FragmentOrder
  <2>4. CASE c.at = "done" /\ c.result = y /\ c.result # 0
    BY <1>1, <1>3, <1>5, <2>1, <2>4 DEF Right
  <2>5. CASE c.at = w.at /\ c.result = w.result /\ Alongside(c, v.upstream, u.upstream)
    BY <1>1, <1>7, <2>1, <2>5 DEF Right
  <2>6. CASE c.at = "revision" /\ c.i = 1 /\ c.j = 1 /\ c.result = w.result /\ y = 0
    <3>1. Alongside(c, v.revision, u.revision)
      BY <1>0, <2>6, AlongsideFirst
    <3> QED
      BY <1>1, <1>2, <2>1, <2>6, <3>1 DEF Right
  <2> QED
    BY <1>2, <2>3, <2>4, <2>5, <2>6 DEF Ordered
<1>8. CASE w.at = "revision"
  <2>1. /\ Inside(w, v.revision, u.revision) /\ Alongside(w, v.revision, u.revision)
        /\ v.epoch = u.epoch /\ y = 0 /\ w.result = 0
    BY <1>2, <1>8 DEF WalkOK, Right
  <2>2. c = FragmentStep(w, v.revision, u.revision, "done")
    BY <1>1, <1>8 DEF StepOf
  <2>3. \/ Ordered(w, c, v.revision, u.revision)
        \/ c.at = "done" /\ c.result = w.result /\ z = 0
    BY <1>0, <1>2, <2>1, <2>2, FragmentOrder
  <2>4. CASE c.at = "done" /\ c.result = z
    BY <1>1, <1>3, <1>5, <2>1, <2>4 DEF Right
  <2>5. CASE c.at = w.at /\ c.result = w.result /\ Alongside(c, v.revision, u.revision)
    BY <1>1, <1>2, <1>8, <2>1, <2>5 DEF Right
  <2>6. CASE c.at = "done" /\ c.result = w.result /\ z = 0
    BY <2>1, <2>4, <2>6
  <2> QED
    BY <1>2, <2>3, <2>4, <2>5, <2>6 DEF Ordered
<1>9. CASE w.at = "done"
  BY <1>9 DEF StepOf
<1> QED
  BY <1>0, <1>6, <1>7, <1>8, <1>9 DEF Places

(***************************************************************************)
(* The inductive invariant.                                                *)
(***************************************************************************)
LEMMA InputTyped ==
  ASSUME input \in Inputs
  PROVE  input[1] \in Seq(Chars) /\ input[2] \in Seq(Chars)
BY VersionAssumption DEF Chars

LEMMA InitInv == Init => IInv
BY DEF Init, IInv

\* The versions are typed once they are parsed.
LEMMA ParsedTyped ==
  ASSUME IInv, pc \in {"compare", "done"}
  PROVE  /\ parsed[1] \in VersionType /\ parsed[2] \in VersionType
         /\ input[1] = input[2] => parsed[1] = parsed[2]
<1>1. input[1] \in Seq(Chars) /\ input[2] \in Seq(Chars)
  BY InputTyped DEF IInv
<1>2. Accepted(input[1]) /\ Accepted(input[2]) /\ parsed = <<Version(input[1]), Version(input[2])>>
  BY DEF IInv
<1> QED
  BY <1>1, <1>2, VersionTyped

LEMMA StartEven ==
  ASSUME NEW v \in VersionType, NEW u \in VersionType
  PROVE  WalkOK(Start, v, u) /\ Mirror(Start) = Start /\ Even(Start)
<1>1. Start \in Walk /\ Start.at = "epoch"
  <2>1. "epoch" \in Places /\ 1 \in Nat /\ 0 \in Int
    BY DEF Places
  <2>2. [at |-> "epoch", i |-> 1, j |-> 1, result |-> 0] \in
          [at : Places, i : Nat, j : Nat, result : Int]
    BY <2>1, Zenon
  <2>3. "epoch" = Start.at
    BY DEF Start
  <2> QED
    BY <2>2, <2>3, Zenon DEF Start, Walk
<1>2. Start.i = 1 /\ Start.j = 1 /\ Start.result = 0 /\ -Start.result = 0
  <2>1. PICK z \in Int : z = Start.result
    BY DEF Start
  <2>2. Start.i = 1 /\ Start.j = 1 /\ z = 0
    BY <2>1 DEF Start
  <2>3. -z = 0
    <3>1. z <= 0 /\ z >= 0
      BY <2>1, <2>2
    <3>2. -z <= 0 /\ -z >= 0 /\ -z \in Int
      BY <2>1, <3>1
    <3>3. PICK m \in Int : m = -z
      BY <3>2
    <3>4. m = 0
      BY <3>2, <3>3
    <3> QED
      BY <3>3, <3>4
  <2> QED
    BY <2>1, <2>2, <2>3
<1>3. WalkOK(Start, v, u)
  BY <1>1, <1>2 DEF WalkOK
<1>4. Mirror(Start) = Start
  BY <1>2 DEF Mirror, Start
<1> QED
  BY <1>2, <1>3, <1>4 DEF Even

LEMMA ParseInv == ASSUME IInv, Parse PROVE IInv'
<1>1. /\ input' = input /\ walk' = <<Start, Start>> /\ pc' = "compare"
      /\ parsed' = <<Version(input[1]), Version(input[2])>>
      /\ Accepted(input[1]) /\ Accepted(input[2]) /\ input \in Inputs
  BY DEF Parse, IInv
<1>2. Version(input[1]) \in VersionType /\ Version(input[2]) \in VersionType
  BY <1>1, InputTyped, VersionTyped
<1>3. WalkOK(Start, Version(input[1]), Version(input[2])) /\ Mirror(Start) = Start /\ Even(Start)
  BY <1>2, StartEven
<1>4. \A n \in 1 .. 2 : Accepted(input[n])
  BY <1>1
<1> QED
  BY <1>1, <1>3, <1>4 DEF IInv

LEMMA ParseFailsInv == ASSUME IInv, ParseFails PROVE IInv'
BY DEF IInv, ParseFails

LEMMA CompareInv == ASSUME IInv, Compare PROVE IInv'
<1>1. PICK v, u, w : v = parsed[1] /\ u = parsed[2] /\ w = walk[1]
  OBVIOUS
<1>2. PICK c : c = StepOf(w, v, u)
  OBVIOUS
<1>3. /\ pc = "compare" /\ input' = input /\ parsed' = parsed /\ pc' \in {"compare", "done"}
      /\ input \in Inputs /\ \A n \in 1 .. 2 : Accepted(input[n])
      /\ parsed = <<Version(input[1]), Version(input[2])>>
  BY DEF Compare, IInv
<1>4. v \in VersionType /\ u \in VersionType /\ (input[1] = input[2] => u = v)
  BY <1>1, <1>3, ParsedTyped
<1>5. WalkOK(w, v, u) /\ walk[2] = Mirror(w) /\ (input[1] = input[2] => Even(w))
  <2>1. walk = <<walk[1], Mirror(walk[1])>>
    BY <1>3 DEF IInv
  <2>2. walk[2] = Mirror(w)
    BY <1>1, <2>1
  <2> QED
    BY <1>1, <1>3, <2>2 DEF IInv
<1>6. WalkOK(c, v, u) /\ StepOf(Mirror(w), u, v) = Mirror(c)
  BY <1>2, <1>4, <1>5, StepMirror
<1>7. input[1] = input[2] => Even(c)
  BY <1>2, <1>4, <1>5, StepEven
<1>8. walk' = <<c, Mirror(c)>>
  BY <1>1, <1>2, <1>5, <1>6 DEF Compare
<1>9. walk'[1] = c /\ walk' = <<walk'[1], Mirror(walk'[1])>>
  BY <1>8
<1> QED
  BY <1>1, <1>3, <1>6, <1>7, <1>9 DEF IInv

\* Every state has a walk and its mirror: both start alike, and their steps mirror each other
\* (version.cpp:32-66, 100-106).
THEOREM VersionInvariance == Spec => []IInv
<1>1. Init => IInv
  BY InitInv
<1>2. IInv /\ [Next]_vars => IInv'
  <2> SUFFICES ASSUME IInv, [Next]_vars PROVE IInv'
    OBVIOUS
  <2>1. CASE Parse
    BY <2>1, ParseInv
  <2>2. CASE ParseFails
    BY <2>2, ParseFailsInv
  <2>3. CASE Compare
    BY <2>3, CompareInv
  <2>4. CASE UNCHANGED vars
    BY <2>4 DEF vars, IInv
  <2> QED
    BY <2>1, <2>2, <2>3, <2>4 DEF Next, Ended
<1> QED
  BY <1>1, <1>2, PTL DEF Spec

\* Comparing the other way around gives the opposite answer, for every pair of strings, and a
\* version equals itself (version.cpp:32-66, 100-106): a walk and its mirror.
THEOREM ComparisonIsAntisymmetric == Spec => []Antisymmetric
<1>1. IInv => Antisymmetric
  <2> SUFFICES ASSUME IInv PROVE Antisymmetric
    OBVIOUS
  <2>1. CASE pc \in {"parse", "rejected"}
    BY <2>1 DEF IInv, Antisymmetric, Start
  <2>2. CASE pc \in {"compare", "done"}
    <3>1. PICK w : w = walk[1]
      OBVIOUS
    <3>2. walk[2] = Mirror(w) /\ w.result \in Int
      <4>1. walk = <<walk[1], Mirror(walk[1])>> /\ w \in Walk
        BY <2>2, <3>1 DEF IInv, WalkOK
      <4> QED
        BY <3>1, <4>1, WalkFields
    <3>3. Mirror(w).at = w.at /\ Mirror(w).i = w.j /\ Mirror(w).j = w.i /\ Mirror(w).result = -w.result
      BY DEF Mirror
    <3>4. w.result = -Mirror(w).result
      BY <3>2, <3>3
    <3>5. input[1] = input[2] => w.result = 0
      BY <2>2, <3>1 DEF IInv, Even
    <3> QED
      BY <3>1, <3>2, <3>3, <3>4, <3>5 DEF Antisymmetric
  <2> QED
    BY <2>1, <2>2 DEF IInv
<1> QED
  BY <1>1, VersionInvariance, PTL

\* The parts of a version are the whole of its string, divided at the last hyphen
\* (version.cpp:74-92), for every string.
THEOREM PartsTogether == Spec => []PartsAreTheString
<1>1. IInv => PartsAreTheString
  <2> SUFFICES ASSUME IInv, parsed # <<>>, NEW n \in 1 .. 2
               PROVE  /\ AfterEpoch(input[n]) \in
                            {parsed[n].upstream, parsed[n].upstream \o <<Hyphen>> \o parsed[n].revision}
                      /\ AfterEpoch(input[n]) = parsed[n].upstream => Found(AfterEpoch(input[n]), Hyphen) = {}
                      /\ Found(parsed[n].revision, Hyphen) = {} /\ parsed[n].upstream # <<>>
    BY DEF PartsAreTheString
  <2>1. pc \in {"compare", "done"}
    BY DEF IInv
  <2>2. PICK s : s = input[n]
    OBVIOUS
  <2>3. s \in Seq(Chars) /\ Accepted(s) /\ parsed[n] = Version(s)
    <3>1. input[n] \in Seq(Chars)
      BY InputTyped DEF IInv
    <3>2. Accepted(input[n]) /\ parsed[n] = Version(input[n])
      BY <2>1 DEF IInv
    <3> QED
      BY <2>2, <3>1, <3>2
  <2>4. PICK r : r = AfterEpoch(s)
    OBVIOUS
  <2>5. parsed[n].upstream = Upstream(s) /\ parsed[n].revision = Revision(s) /\ Upstream(s) # <<>>
    BY <2>3 DEF Version, Accepted
  <2>6. r \in Seq(Chars)
    BY <2>3, <2>4, AfterEpochTyped
  <2>7. CASE Found(r, Hyphen) = {}
    <3>1. Upstream(s) = r /\ Revision(s) = <<>>
      BY <2>4, <2>7 DEF Upstream, Revision
    <3>2. Found(<<>>, Hyphen) = {}
      BY DEF Found
    <3> QED
      BY <2>2, <2>4, <2>5, <2>7, <3>1, <3>2
  <2>8. CASE Found(r, Hyphen) # {}
    <3>1. PICK U, R : U = Upstream(s) /\ R = Revision(s)
      OBVIOUS
    <3>2. U = SubSeq(r, 1, Split(r) - 1) /\ R = SubSeq(r, Split(r) + 1, Len(r))
      BY <2>4, <2>8, <3>1 DEF Upstream, Revision
    <3>3. /\ U \in Seq(Chars) /\ R \in Seq(Chars)
          /\ r = U \o <<Hyphen>> \o R /\ Found(R, Hyphen) = {}
      BY <2>6, <2>8, <3>2, SplitParts
    <3>4. r # U
      <4>1. Len(U) \in Nat /\ Len(r) = Len(U) + 1 + Len(R) /\ Len(R) \in Nat
        BY <3>3
      <4> QED
        BY <4>1
    <3> QED
      BY <2>2, <2>4, <2>5, <3>1, <3>3, <3>4
  <2> QED
    BY <2>7, <2>8
<1> QED
  BY <1>1, VersionInvariance, PTL

\* The walk is right, and has the answer when it is done.
OrderInv ==
  /\ pc \in {"compare", "done"} => Right(walk[1], parsed[1], parsed[2])
  /\ pc = "done" => walk[1].at = "done"

LEMMA OrderInvParse == ASSUME IInv, Parse PROVE OrderInv'
<1>1. walk' = <<Start, Start>> /\ pc' = "compare"
  BY DEF Parse, IInv
<1>2. Right(Start, parsed'[1], parsed'[2])
  BY DEF Right, Start
<1> QED
  BY <1>1, <1>2 DEF OrderInv

LEMMA OrderInvCompare == ASSUME IInv, OrderInv, Compare PROVE OrderInv'
<1>1. PICK v, u, w : v = parsed[1] /\ u = parsed[2] /\ w = walk[1]
  OBVIOUS
<1>2. PICK c : c = StepOf(w, v, u)
  OBVIOUS
<1>3. pc = "compare" /\ parsed' = parsed /\ walk'[1] = c /\ (pc' = "done" => walk'[1].at = "done")
  BY <1>1, <1>2 DEF Compare
<1>4. v \in VersionType /\ u \in VersionType
  BY <1>1, <1>3, ParsedTyped
<1>5. WalkOK(w, v, u) /\ Right(w, v, u)
  BY <1>1, <1>3 DEF IInv, OrderInv
<1>6. Right(c, v, u)
  BY <1>2, <1>4, <1>5, StepOrder
<1> QED
  BY <1>1, <1>3, <1>6 DEF OrderInv

\* The comparison gives the order that deb-version(7) describes (version.cpp:32-66, 100-106), for any
\* two strings: each step goes by the same entries of the two keys until they differ.
THEOREM OrderOfDebVersion == Spec => []AsDebVersion
<1>1. Init => OrderInv
  BY DEF Init, OrderInv
<1>2. IInv /\ OrderInv /\ [Next]_vars => OrderInv'
  <2> SUFFICES ASSUME IInv, OrderInv, [Next]_vars PROVE OrderInv'
    OBVIOUS
  <2>1. CASE Parse
    BY <2>1, OrderInvParse
  <2>2. CASE ParseFails
    BY <2>2 DEF ParseFails, OrderInv
  <2>3. CASE Compare
    BY <2>3, OrderInvCompare
  <2>4. CASE UNCHANGED vars
    BY <2>4 DEF vars, OrderInv
  <2> QED
    BY <2>1, <2>2, <2>3, <2>4 DEF Next, Ended
<1>3. OrderInv => AsDebVersion
  BY DEF OrderInv, Right, Answer, AsDebVersion
<1> QED
  BY <1>1, <1>2, <1>3, VersionInvariance, PTL DEF Spec
=============================================================================
