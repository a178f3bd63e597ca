------------------------- MODULE MaterializeProofs -------------------------
(***************************************************************************)
(* Proofs about the calls of the snapshot client, for any number of        *)
(* processes, attempts and paths and any time to live.  CallOK is what a   *)
(* call knows by itself; TimeOK relates it to the clock and to the cache   *)
(* that other processes write; DestOK to the file downloaded.              *)
(***************************************************************************)
EXTENDS Materialize, Inductions

Places == {"idle", "cached", "get", "parse", "store", "verify", "head", "returned"}
Results == {"none", "ok", "network", "not_found", "http_status", "parse", "io", "integrity"}
Call ==
  [op : {"none", "api", "download", "head"}, at : Places, path : Paths \cup {<<>>}, attempt : Nat,
   status : Answers, again : BOOLEAN, body : Nat, answers : Seq(Answers), result : Results]

Retried(as, n) == \A k \in 1 .. n : as[k] \in {"none", "retryable"}

\* Before an attempt: those so far were lost or retryable, and status tells whether any was answered.
Asking(c) ==
  /\ c.op \in {"api", "download"} /\ (c.op = "api" => c.path \in Paths)
  /\ c.attempt = Len(c.answers) /\ c.attempt < MaxAttempts
  /\ Retried(c.answers, Len(c.answers))
  /\ c.status \in {"none", "retryable"}
  /\ c.status = "none" <=> \A k \in 1 .. Len(c.answers) : c.answers[k] = "none"

Answered(c) ==
  /\ Len(c.answers) \in 1 .. MaxAttempts /\ Retried(c.answers, Len(c.answers) - 1)
  /\ c.answers[Len(c.answers)] = "ok"

\* ErrorsExplained for one call.
Explained(c) ==
  LET as == c.answers
      got == {n \in DOMAIN as : as[n] # "none"}
      asked == c.op \in {"api", "download"} /\ as # <<>>
  IN  /\ Len(as) <= MaxAttempts
      /\ \A n \in 1 .. Len(as) - 1 : as[n] \in {"none", "retryable"}
      /\ asked /\ c.at = "returned" =>
           CASE c.result = "network" -> got = {} /\ Len(as) = MaxAttempts
             [] c.result = "not_found" -> as[Len(as)] = "not_found"
             [] c.result = "http_status" ->
                  /\ got # {} /\ \A n \in got : as[n] \in {"retryable", "refused"}
                  /\ as[Len(as)] # "refused" => Len(as) = MaxAttempts
             [] OTHER -> as[Len(as)] = "ok"

CallOK(c) ==
  /\ c \in Call
  /\ c.at = "idle" => c = Idle
  /\ c.at = "cached" => /\ c.op = "api" /\ c.path \in Paths
                        /\ c.answers = <<>> /\ c.attempt = 0 /\ c.status = "none"
  /\ c.at = "get" => Asking(c)
  /\ c.at \in {"parse", "store"} => c.op = "api" /\ c.path \in Paths /\ Answered(c)
  /\ c.at = "verify" => c.op = "download" /\ Answered(c)
  /\ c.at = "head" => c.op = "head" /\ c.answers = <<>>
  /\ c.at = "returned" => Explained(c)

TimeOK(c) ==
  /\ c.at = "cached" => cache[c.path] # Absent /\ clock - cache[c.path].stored < Ttl
  /\ c.at \in {"parse", "store"} => c.body = clock
  /\ c.at = "returned" /\ c.op = "api" /\ c.result = "ok" => clock - c.body < Ttl

DestOK(c, d) ==
  /\ c.at \in {"get", "verify"} /\ c.op = "download" => d = "none"
  /\ c.at = "returned" /\ c.op = "download" => d = (IF c.result = "ok" THEN "whole" ELSE "none")

\* A file holds what the archive gave when it was stored.
File == [state : {"file"}, body : Nat, stored : Nat]
CacheOK ==
  /\ clock \in Nat
  /\ DOMAIN cache = Paths
  /\ \A a \in Paths : \/ cache[a] = Absent
                      \/ cache[a] \in File /\ cache[a].body = cache[a].stored /\ cache[a].stored <= clock

MatOK ==
  /\ DOMAIN mat = {"phase", "at", "n", "v", "total", "missing", "extracted", "asked"}
  /\ mat.n \in Nat \ {0} /\ mat.v \in Nat \ {0}
  /\ mat.at = "extract" => call[M].at = "idle"

IInv ==
  /\ DOMAIN call = Procs /\ dest \in [Procs -> {"none", "whole"}]
  /\ CacheOK /\ MatOK
  /\ \A p \in Procs : CallOK(call[p]) /\ TimeOK(call[p]) /\ DestOK(call[p], dest[p])

(***************************************************************************)
(* One call.                                                               *)
(***************************************************************************)
LEMMA IdleOK == CallOK(Idle) /\ Idle.at = "idle" /\ Idle \in Call
<1>1. Idle \in Call
  BY DEF Idle, Call, Places, Results, Answers
<1> QED
  BY <1>1 DEF CallOK, Idle

LEMMA IdleRest == ASSUME NEW d PROVE TimeOK(Idle) /\ DestOK(Idle, d)
BY DEF TimeOK, DestOK, Idle

\* Any call satisfies what ErrorsExplained says of it.
LEMMA CallExplained ==
  ASSUME NEW c, CallOK(c)
  PROVE  Explained(c)
<1>0. c \in Call /\ c.answers \in Seq(Answers) /\ Len(c.answers) \in Nat /\ c.at \in Places
      /\ MaxAttempts \in Nat \ {0}
  BY ClientAssumption DEF CallOK, Call
<1>1. CASE c.at = "returned"
  BY <1>1 DEF CallOK
<1>2. CASE c.at # "returned"
  <2>1. Len(c.answers) <= MaxAttempts /\ Retried(c.answers, Len(c.answers) - 1)
    <3>1. CASE c.at \in {"idle", "cached", "head"}
      <4>1. c.answers = <<>>
        BY <3>1 DEF CallOK, Idle
      <4> QED
        BY <1>0, <4>1 DEF Retried
    <3>2. CASE c.at = "get"
      BY <1>0, <3>2 DEF CallOK, Asking, Retried
    <3>3. CASE c.at \in {"parse", "store", "verify"}
      BY <1>0, <3>3 DEF CallOK, Answered
    <3> QED
      BY <1>0, <1>2, <3>1, <3>2, <3>3 DEF Places
  <2> QED
    BY <1>2, <2>1 DEF Explained, Retried
<1> QED
  BY <1>1, <1>2

LEMMA AttemptOK ==
  ASSUME CacheOK, NEW c, CallOK(c), c.at = "get", NEW a \in Answers
  PROVE  LET e == AfterAttempt(c, a)
         IN  /\ CallOK(e) /\ e.op = c.op /\ e.at \notin {"idle", "cached", "store"}
             /\ e.at = "parse" => e.body = clock
             /\ e.at = "returned" => e.result # "ok"
<1>0. /\ c \in Call /\ Asking(c) /\ MaxAttempts \in Nat \ {0} /\ clock \in Nat
      /\ c.answers \in Seq(Answers)
      /\ c.op \in {"api", "download"} /\ (c.op = "api" => c.path \in Paths)
  BY ClientAssumption DEF CallOK, Call, CacheOK, Asking
<1> DEFINE as == Append(c.answers, a)
           st == StatusAfter(c, a)
           L == Len(as)
           d == [c EXCEPT !.attempt = @ + 1, !.answers = as, !.status = st]
\* The answers after the attempt.
<1>1. /\ as \in Seq(Answers) /\ L = Len(c.answers) + 1 /\ as[L] = a /\ as # <<>>
      /\ \A k \in 1 .. L - 1 : as[k] = c.answers[k]
      /\ L - 1 = Len(c.answers)
      /\ DOMAIN as = 1 .. L /\ L \in Nat \ {0}
  BY <1>0
<1>2. c.attempt + 1 = L /\ L <= MaxAttempts
  BY <1>0, <1>1 DEF Asking
<1>3. \A k \in 1 .. L - 1 : as[k] \in {"none", "retryable"}
  BY <1>0, <1>1 DEF Asking, Retried
<1>4. st = IF a = "none" THEN c.status ELSE a
  BY DEF StatusAfter
<1>5. st \in Answers
  BY <1>0, <1>4 DEF Call
<1>6. c.status = "none" <=> \A k \in 1 .. L - 1 : as[k] = "none"
  BY <1>0, <1>1 DEF Asking
<1> HIDE DEF as, st, L
<1>7. \A k \in 1 .. L : k = L \/ k \in 1 .. L - 1
  BY <1>1
<1>8. L \in 1 .. L /\ \A k \in 1 .. L - 1 : k \in 1 .. L
  BY <1>1
<1>9. /\ d \in Call /\ d.at = "get" /\ d.op = c.op /\ d.path = c.path /\ d.answers = as
      /\ d.status = st /\ d.attempt = L
  <2>1. L \in Nat /\ c.attempt + 1 = L /\ c \in Call /\ as \in Seq(Answers)
    BY <1>0, <1>1, <1>2
  <2> QED
    BY <1>5, <2>1 DEF Call
<1>10. AfterAttempt(c, a) =
        CASE a = "ok" -> [d EXCEPT !.at = IF c.op = "api" THEN "parse" ELSE "verify", !.body = clock]
          [] a = "not_found" -> [d EXCEPT !.at = "returned", !.result = "not_found"]
          [] a = "refused" -> [d EXCEPT !.at = "returned", !.result = "http_status"]
          [] a \in {"none", "retryable"} ->
               IF ~LastAttempt(c) THEN d
               ELSE [d EXCEPT !.at = "returned",
                              !.result = IF d.status = "none" THEN "network" ELSE "http_status"]
  BY DEF AfterAttempt, as, st
<1> HIDE DEF d
<1>11. CASE a = "ok"
  <2> DEFINE at == IF c.op = "api" THEN "parse" ELSE "verify"
             e == [d EXCEPT !.at = at, !.body = clock]
  <2>1. AfterAttempt(c, a) = e
    BY <1>10, <1>11
  <2>2. at \in {"parse", "verify"} /\ (at = "parse" <=> c.op = "api")
    OBVIOUS
  <2> HIDE DEF at
  <2>3. /\ e \in Call /\ e.at = at /\ e.op = c.op /\ e.path = c.path /\ e.answers = as
        /\ e.body = clock
    BY <1>0, <1>9, <2>2 DEF Call, Places
  <2> HIDE DEF e
  <2>4. Answered(e)
    <3>1. Len(as) \in 1 .. MaxAttempts
      BY <1>0, <1>1, <1>2 DEF L
    <3>2. as[Len(as)] = "ok" /\ Retried(as, Len(as) - 1)
      BY <1>1, <1>3, <1>11 DEF L, Retried
    <3> QED
      BY <2>3, <3>1, <3>2 DEF Answered
  <2>5. CallOK(e)
    BY <1>0, <2>2, <2>3, <2>4 DEF CallOK
  <2> QED
    BY <2>1, <2>2, <2>3, <2>5
\* An attempt that ends the call.
<1>12. ASSUME NEW r \in Results \ {"ok"},
              r = "network" => (\A k \in 1 .. L : as[k] = "none") /\ L = MaxAttempts,
              r = "not_found" => a = "not_found",
              r = "http_status" =>
                /\ \E k \in 1 .. L : as[k] # "none"
                /\ \A k \in 1 .. L : as[k] # "none" => as[k] \in {"retryable", "refused"}
                /\ a # "refused" => L = MaxAttempts,
              r \in {"network", "not_found", "http_status"},
              AfterAttempt(c, a) = [d EXCEPT !.at = "returned", !.result = r]
       PROVE  LET e == AfterAttempt(c, a)
              IN  CallOK(e) /\ e.op = c.op /\ e.at = "returned" /\ e.result # "ok"
  <2> DEFINE e == AfterAttempt(c, a)
  <2>1. /\ e \in Call /\ e.at = "returned" /\ e.op = c.op /\ e.result = r /\ e.answers = as
    BY <1>9, <1>12 DEF Call, Places
  <2> HIDE DEF e
  <2>2. Explained(e)
    <3>1. /\ Len(as) <= MaxAttempts /\ as[Len(as)] = a
          /\ \A k \in 1 .. Len(as) - 1 : as[k] \in {"none", "retryable"}
      BY <1>1, <1>2, <1>3 DEF L
    <3>2. LET got == {k \in DOMAIN as : as[k] # "none"}
          IN  CASE r = "network" -> got = {} /\ Len(as) = MaxAttempts
                [] r = "not_found" -> as[Len(as)] = "not_found"
                [] r = "http_status" ->
                    /\ got # {} /\ \A k \in got : as[k] \in {"retryable", "refused"}
                    /\ as[Len(as)] # "refused" => Len(as) = MaxAttempts
                [] OTHER -> as[Len(as)] = "ok"
      <4>1. CASE r = "network"
        <5>1. {k \in DOMAIN as : as[k] # "none"} = {} /\ Len(as) = MaxAttempts
          BY <1>1, <1>12, <4>1 DEF L
        <5> QED
          BY <4>1, <5>1
      <4>2. CASE r = "not_found"
        BY <1>12, <3>1, <4>2
      <4>3. CASE r = "http_status"
        BY <1>1, <1>12, <3>1, <4>3 DEF L
      <4> QED
        BY <1>12, <4>1, <4>2, <4>3
    <3> QED
      BY <2>1, <3>1, <3>2 DEF Explained
  <2>3. CallOK(e)
    BY <2>1, <2>2 DEF CallOK
  <2> QED
    BY <1>12, <2>1, <2>3 DEF e
<1>13. CASE a = "not_found"
  <2>1. AfterAttempt(c, a) = [d EXCEPT !.at = "returned", !.result = "not_found"]
    BY <1>10, <1>13
  <2>2. "not_found" \in Results \ {"ok"}
    BY DEF Results
  <2>3. LET e == AfterAttempt(c, a)
        IN  CallOK(e) /\ e.op = c.op /\ e.at = "returned" /\ e.result # "ok"
    BY <1>12, <1>13, <2>1, <2>2
  <2> QED
    BY <2>3
<1>14. CASE a = "refused"
  <2>1. AfterAttempt(c, a) = [d EXCEPT !.at = "returned", !.result = "http_status"]
    BY <1>10, <1>14
  <2>2. "http_status" \in Results \ {"ok"}
    BY DEF Results
  <2>3. as[L] = "refused"
    BY <1>1, <1>14
  <2>4. /\ \E k \in 1 .. L : as[k] # "none"
        /\ \A k \in 1 .. L : as[k] # "none" => as[k] \in {"retryable", "refused"}
    BY <1>3, <1>7, <1>8, <2>3
  <2>5. LET e == AfterAttempt(c, a)
        IN  CallOK(e) /\ e.op = c.op /\ e.at = "returned" /\ e.result # "ok"
    BY <1>12, <1>14, <2>1, <2>2, <2>4
  <2> QED
    BY <2>5
<1>15. CASE a \in {"none", "retryable"}
  <2>1. /\ st \in {"none", "retryable"}
        /\ \A k \in 1 .. L : as[k] \in {"none", "retryable"}
    BY <1>0, <1>1, <1>3, <1>4, <1>7, <1>15 DEF Asking
  <2>2. st = "none" <=> \A k \in 1 .. L : as[k] = "none"
    <3>1. CASE a = "none"
      BY <1>1, <1>4, <1>6, <1>7, <1>8, <3>1
    <3>2. CASE a = "retryable"
      BY <1>1, <1>4, <1>8, <3>2
    <3> QED
      BY <1>15, <3>1, <3>2
  <2>3. CASE ~LastAttempt(c)
    <3>1. AfterAttempt(c, a) = d
      BY <1>10, <1>15, <2>3
    <3>2. L < MaxAttempts
      BY <1>0, <1>1, <1>2, <2>3 DEF LastAttempt
    <3>3. Asking(d)
      <4>1. L = Len(as)
        BY DEF L
      <4> QED
        BY <1>0, <1>9, <2>1, <2>2, <3>2, <4>1 DEF Asking, Retried
    <3>4. CallOK(d)
      BY <1>9, <3>3 DEF CallOK
    <3> QED
      BY <1>9, <3>1, <3>4
  <2>4. CASE LastAttempt(c)
    <3> DEFINE r == IF d.status = "none" THEN "network" ELSE "http_status"
    <3>1. AfterAttempt(c, a) = [d EXCEPT !.at = "returned", !.result = r]
      BY <1>10, <1>15, <2>4
    <3>2. r \in Results \ {"ok"} /\ r \in {"network", "http_status"}
          /\ (r = "network" <=> st = "none")
      BY <1>9 DEF Results
    <3> HIDE DEF r
    <3>3. L = MaxAttempts
      BY <1>0, <1>2, <2>4 DEF LastAttempt
    <3>4. LET e == AfterAttempt(c, a)
          IN  CallOK(e) /\ e.op = c.op /\ e.at = "returned" /\ e.result # "ok"
      <4>1. r = "network" => \A k \in 1 .. L : as[k] = "none"
        BY <2>2, <3>2
      <4>2. r = "http_status" =>
                /\ \E k \in 1 .. L : as[k] # "none"
                /\ \A k \in 1 .. L : as[k] # "none" => as[k] \in {"retryable", "refused"}
        BY <2>1, <2>2, <3>2
      <4>3. r # "not_found" /\ r \in {"network", "not_found", "http_status"}
        BY <3>2
      <4> QED
        BY <1>12, <3>1, <3>2, <3>3, <4>1, <4>2, <4>3
    <3> QED
      BY <3>4
  <2> QED
    BY <2>3, <2>4
<1> QED
  BY <1>11, <1>13, <1>14, <1>15 DEF Answers

(***************************************************************************)
(* One process moves on to the call c; the others keep theirs.             *)
(***************************************************************************)
CacheStep == cache' = cache \/ \E a \in Paths : cache' = [cache EXCEPT ![a] = Cached(clock)]

Moves(p, c) ==
  /\ DOMAIN call' = DOMAIN call /\ call'[p] = c
  /\ \A q \in Procs : q # p => call'[q] = call[q]
  /\ clock' = clock /\ CacheStep
  /\ dest' \in [Procs -> {"none", "whole"}] /\ \A q \in Procs : q # p => dest'[q] = dest[q]
  /\ CallOK(c) /\ TimeOK(c)' /\ DestOK(c, dest'[p])
Effect(p) == \E c : Moves(p, c)

LEMMA CacheKept ==
  ASSUME CacheOK, CacheStep, clock' = clock
  PROVE  /\ CacheOK'
         /\ \A a \in Paths : cache[a] # Absent /\ clock - cache[a].stored < Ttl =>
              cache'[a] # Absent /\ clock - cache'[a].stored < Ttl
<1>1. CASE cache' = cache
  BY <1>1 DEF CacheOK
<1>2. ASSUME NEW a \in Paths, cache' = [cache EXCEPT ![a] = Cached(clock)]
      PROVE  /\ CacheOK'
             /\ \A b \in Paths : cache[b] # Absent /\ clock - cache[b].stored < Ttl =>
                  cache'[b] # Absent /\ clock - cache'[b].stored < Ttl
  <2>1. /\ Cached(clock) \in File /\ Cached(clock).body = clock /\ Cached(clock).stored = clock
        /\ Cached(clock).state = "file"
    BY DEF Cached, File, CacheOK
  <2>2. Absent.state = "absent"
    BY DEF Absent
  <2>3. Cached(clock) # Absent /\ clock - Cached(clock).stored < Ttl
    BY <2>1, <2>2, ClientAssumption DEF CacheOK
  <2>4. \A b \in Paths : cache'[b] = IF b = a THEN Cached(clock) ELSE cache[b]
    BY <1>2 DEF CacheOK
  <2>5. DOMAIN cache' = Paths
    BY <1>2 DEF CacheOK
  <2>6. clock \in Nat
    BY DEF CacheOK
  <2>7. CacheOK'
    BY <2>1, <2>4, <2>5, <2>6 DEF CacheOK
  <2> QED
    BY <2>3, <2>4, <2>7
<1> QED
  BY <1>1, <1>2 DEF CacheStep

LEMMA EffectInv ==
  ASSUME IInv, NEW p \in Procs, Effect(p), MatOK'
  PROVE  IInv'
<1>1. PICK c : Moves(p, c)
  BY DEF Effect
<1>2. CacheOK'
  BY <1>1, CacheKept DEF IInv, Moves
<1>3. call'[p] = c /\ DOMAIN call' = Procs /\ \A q \in Procs : q # p => call'[q] = call[q]
  BY <1>1 DEF IInv, Moves
<1>4. ASSUME NEW q \in Procs, q # p
      PROVE  CallOK(call[q]) /\ TimeOK(call[q])' /\ DestOK(call[q], dest[q])
  <2>1. CallOK(call[q]) /\ TimeOK(call[q]) /\ DestOK(call[q], dest[q])
    BY DEF IInv
  <2>2. call'[q] = call[q] /\ clock' = clock
    BY <1>1, <1>3, <1>4 DEF Moves
  <2>3. TimeOK(call[q])'
    <3>1. call[q].at = "cached" => call[q].path \in Paths
      BY <2>1 DEF CallOK
    <3>2. call[q].at = "cached" =>
            cache'[call[q].path] # Absent /\ clock - cache'[call[q].path].stored < Ttl
      BY <1>1, <2>1, <3>1, CacheKept DEF IInv, Moves, TimeOK
    <3> QED
      BY <2>1, <2>2, <3>2 DEF TimeOK
  <2> QED
    BY <2>1, <2>3
<1>5. ASSUME NEW q \in Procs
      PROVE  CallOK(call[q])' /\ TimeOK(call[q])' /\ DestOK(call[q], dest[q])'
  <2>1. CASE q = p
    <3>1. CallOK(call'[q]) /\ DestOK(call'[q], dest'[q])
      BY <1>1, <1>3, <2>1 DEF Moves
    <3>2. TimeOK(call[q])'
      BY <1>1, <1>3, <2>1 DEF Moves, TimeOK
    <3> QED
      BY <3>1, <3>2 DEF CallOK, DestOK
  <2>2. CASE q # p
    <3>1. call'[q] = call[q] /\ dest'[q] = dest[q]
      BY <1>1, <1>3, <2>2 DEF Moves
    <3> QED
      BY <1>4, <2>2, <3>1
  <2> QED
    BY <2>1, <2>2
<1> QED
  BY <1>1, <1>2, <1>3, <1>5 DEF IInv, Moves

(***************************************************************************)
(* Each action of a call has the effect.                                   *)
(***************************************************************************)
LEMMA KeepsFiles ==
  ASSUME IInv, NEW p \in Procs, NEW c, Set(p, c), clock' = clock, CacheStep,
         NEW d \in {"none", "whole"},
         dest' = [dest EXCEPT ![p] = d],
         CallOK(c), TimeOK(c)', DestOK(c, d)
  PROVE  Effect(p)
<1>1. DOMAIN call = Procs /\ dest \in [Procs -> {"none", "whole"}]
  BY DEF IInv
<1>2. /\ DOMAIN call' = DOMAIN call /\ call'[p] = c
      /\ \A q \in Procs : q # p => call'[q] = call[q]
  BY <1>1 DEF Set
<1>3. /\ dest' \in [Procs -> {"none", "whole"}] /\ dest'[p] = d
      /\ \A q \in Procs : q # p => dest'[q] = dest[q]
  BY <1>1
<1>4. Moves(p, c)
  BY <1>2, <1>3 DEF Moves
<1> QED
  BY <1>4 DEF Effect

\* The common case: nothing but the call changes.
LEMMA CallMoves ==
  ASSUME IInv, NEW p \in Procs, NEW c, Set(p, c), UNCHANGED <<clock, cache, dest>>,
         CallOK(c), TimeOK(c), DestOK(c, dest[p])
  PROVE  Effect(p)
<1>1. dest[p] \in {"none", "whole"} /\ dest' = [dest EXCEPT ![p] = dest[p]]
  BY DEF IInv
<1>2. PICK d : d = dest[p]
  OBVIOUS
<1>3. TimeOK(c)'
  BY DEF TimeOK
<1>4. CacheStep
  BY DEF CacheStep
<1> QED
  BY <1>1, <1>2, <1>3, <1>4, KeepsFiles

LEMMA ApiEffect ==
  ASSUME IInv, NEW p \in Procs, NEW a \in Paths, Api(p, a)
  PROVE  Effect(p)
<1>1. PICK c : c = [Idle EXCEPT !.op = "api", !.path = a, !.at = IF Fresh(a) THEN "cached" ELSE "get"]
  OBVIOUS
<1>2. Set(p, c) /\ UNCHANGED <<clock, cache, dest>>
  BY <1>1 DEF Api
<1>3. /\ c.op = "api" /\ c.path = a /\ c.answers = <<>> /\ c.attempt = 0 /\ c.status = "none"
      /\ c.at = (IF Fresh(a) THEN "cached" ELSE "get")
  BY <1>1 DEF Idle
<1>4. c \in Call
  <2>1. PICK at : at = IF Fresh(a) THEN "cached" ELSE "get"
    OBVIOUS
  <2>2. c = [Idle EXCEPT !.op = "api", !.path = a, !.at = at] /\ at \in Places
    BY <1>1, <2>1 DEF Places
  <2> QED
    BY <2>2, IdleOK DEF Call
<1>5. CallOK(c)
  <2>1. Asking(c)
    BY <1>3, ClientAssumption DEF Asking, Retried
  <2> QED
    BY <1>3, <1>4, <2>1 DEF CallOK
<1>6. TimeOK(c) /\ DestOK(c, dest[p])
  BY <1>3 DEF TimeOK, DestOK, Fresh
<1> QED
  BY <1>2, <1>5, <1>6, CallMoves

LEMMA ReadCacheEffect ==
  ASSUME IInv, NEW p \in Procs, ReadCache(p)
  PROVE  Effect(p)
<1>0. /\ call[p].at = "cached" /\ CallOK(call[p]) /\ TimeOK(call[p]) /\ CacheOK
      /\ call[p].path \in Paths /\ call[p].answers = <<>> /\ call[p].op = "api" /\ call[p] \in Call
  BY DEF ReadCache, IInv, CallOK
<1>1. PICK c : c = [call[p] EXCEPT !.at = "returned", !.result = "ok", !.body = cache[call[p].path].body]
  OBVIOUS
<1>2. Set(p, c) /\ UNCHANGED <<clock, cache, dest>>
  BY <1>1 DEF ReadCache
<1>3. /\ cache[call[p].path] # Absent /\ cache[call[p].path] \in File
      /\ cache[call[p].path].body = cache[call[p].path].stored
      /\ clock - cache[call[p].path].stored < Ttl
  BY <1>0 DEF TimeOK, CacheOK
<1>4. cache[call[p].path].body \in Nat
  BY <1>3 DEF File
<1>5. /\ c \in Call /\ c.op = "api" /\ c.answers = <<>> /\ c.at = "returned"
      /\ c.body = cache[call[p].path].body
  BY <1>0, <1>1, <1>4 DEF Call, Places, Results
<1>6. CallOK(c)
  BY <1>5, ClientAssumption DEF CallOK, Explained
<1>7. TimeOK(c) /\ DestOK(c, dest[p])
  BY <1>3, <1>5 DEF TimeOK, DestOK
<1> QED
  BY <1>2, <1>6, <1>7, CallMoves

LEMMA CacheUnreadableEffect ==
  ASSUME IInv, NEW p \in Procs, CacheUnreadable(p)
  PROVE  Effect(p)
<1>0. /\ call[p].at = "cached" /\ CallOK(call[p]) /\ call[p].path \in Paths
      /\ call[p].answers = <<>> /\ call[p].attempt = 0 /\ call[p].status = "none"
      /\ call[p].op = "api" /\ call[p] \in Call
  BY DEF CacheUnreadable, IInv, CallOK
<1>1. PICK c : c = [call[p] EXCEPT !.at = "get"]
  OBVIOUS
<1>2. Set(p, c) /\ UNCHANGED <<clock, cache, dest>>
  BY <1>1 DEF CacheUnreadable
<1>3. /\ c \in Call /\ c.op = "api" /\ c.answers = <<>> /\ c.at = "get" /\ c.path \in Paths
      /\ c.attempt = call[p].attempt /\ c.status = call[p].status
  BY <1>0, <1>1 DEF Call, Places
<1>4. CallOK(c)
  BY <1>0, <1>3, ClientAssumption DEF CallOK, Asking, Retried
<1>5. TimeOK(c) /\ DestOK(c, dest[p])
  BY <1>3 DEF TimeOK, DestOK
<1> QED
  BY <1>2, <1>4, <1>5, CallMoves

LEMMA AttemptEffect ==
  ASSUME IInv, NEW p \in Procs, NEW a \in Answers, Attempt(p, a)
  PROVE  Effect(p)
<1>0. /\ call[p].at = "get" /\ CallOK(call[p]) /\ CacheOK /\ DestOK(call[p], dest[p])
      /\ call[p].op \in {"api", "download"}
  BY DEF Attempt, IInv, CallOK, Asking
<1>1. PICK b : b = call[p]
  OBVIOUS
<1>2. PICK c : c = AfterAttempt(b, a)
  OBVIOUS
<1>3. Set(p, c) /\ UNCHANGED <<clock, cache, dest>>
  BY <1>1, <1>2 DEF Attempt
<1>4. /\ CallOK(c) /\ c.op = b.op /\ c.at \notin {"idle", "cached", "store"}
      /\ c.at = "parse" => c.body = clock
      /\ c.at = "returned" => c.result # "ok"
  <2>1. CallOK(b) /\ b.at = "get" /\ CacheOK
    BY <1>0, <1>1
  <2>2. LET e == AfterAttempt(b, a)
        IN  /\ CallOK(e) /\ e.op = b.op /\ e.at \notin {"idle", "cached", "store"}
            /\ e.at = "parse" => e.body = clock
            /\ e.at = "returned" => e.result # "ok"
    BY <2>1, AttemptOK
  <2> QED
    BY <1>2, <2>2
<1>5. TimeOK(c)
  BY <1>4 DEF TimeOK
<1>6. DestOK(c, dest[p])
  BY <1>0, <1>1, <1>4 DEF DestOK
<1> QED
  BY <1>3, <1>4, <1>5, <1>6, CallMoves

LEMMA ParseEffect ==
  ASSUME IInv, NEW p \in Procs, Parse(p)
  PROVE  Effect(p)
<1>0. /\ call[p].at = "parse" /\ CallOK(call[p]) /\ TimeOK(call[p]) /\ call[p].path \in Paths
      /\ Answered(call[p]) /\ call[p].op = "api" /\ call[p] \in Call
  BY DEF Parse, IInv, CallOK
<1>1. PICK c : c = [call[p] EXCEPT !.at = "store"]
  OBVIOUS
<1>2. Set(p, c) /\ UNCHANGED <<clock, cache, dest>>
  BY <1>1 DEF Parse
<1>3. /\ c \in Call /\ c.op = "api" /\ c.answers = call[p].answers /\ c.at = "store"
      /\ c.path \in Paths /\ c.body = call[p].body
  BY <1>0, <1>1 DEF Call, Places
<1>4. CallOK(c)
  BY <1>0, <1>3 DEF CallOK, Answered
<1>5. TimeOK(c) /\ DestOK(c, dest[p])
  BY <1>0, <1>3 DEF TimeOK, DestOK
<1> QED
  BY <1>2, <1>4, <1>5, CallMoves

\* A call that ends after an answer.
LEMMA AnsweredEnds ==
  ASSUME NEW b, CallOK(b), b.at \in {"parse", "store", "verify"},
         NEW r \in {"ok", "parse", "io", "integrity"}
  PROVE  LET c == [b EXCEPT !.at = "returned", !.result = r]
         IN  CallOK(c) /\ c.at = "returned" /\ c.result = r /\ c.op = b.op /\ c.body = b.body
<1> DEFINE c == [b EXCEPT !.at = "returned", !.result = r]
<1>1. b \in Call /\ Answered(b) /\ b.answers \in Seq(Answers) /\ b.op \in {"api", "download"}
  BY DEF CallOK, Call
<1>2. /\ c \in Call /\ c.at = "returned" /\ c.result = r /\ c.op = b.op /\ c.body = b.body
      /\ c.answers = b.answers
  BY <1>1 DEF Call, Places, Results
<1> HIDE DEF c
<1>3. Explained(c)
  BY <1>1, <1>2, ClientAssumption DEF Explained, Answered, Retried
<1>4. CallOK(c)
  BY <1>2, <1>3 DEF CallOK
<1> QED
  BY <1>2, <1>4 DEF c

LEMMA ParseFailsEffect ==
  ASSUME IInv, NEW p \in Procs, ParseFails(p)
  PROVE  Effect(p)
<1>0. call[p].at = "parse" /\ CallOK(call[p]) /\ call[p].op = "api"
  BY DEF ParseFails, IInv, CallOK
<1>1. PICK c : c = [call[p] EXCEPT !.at = "returned", !.result = "parse"]
  OBVIOUS
<1>2. Set(p, c) /\ UNCHANGED <<clock, cache, dest>>
  BY <1>1 DEF ParseFails, Finish
<1>3. CallOK(c) /\ c.at = "returned" /\ c.result = "parse" /\ c.op = "api"
  BY <1>0, <1>1, AnsweredEnds
<1>4. TimeOK(c) /\ DestOK(c, dest[p])
  BY <1>3 DEF TimeOK, DestOK
<1> QED
  BY <1>2, <1>3, <1>4, CallMoves

LEMMA StoreEffect ==
  ASSUME IInv, NEW p \in Procs, Store(p)
  PROVE  Effect(p)
<1>0. /\ call[p].at = "store" /\ CallOK(call[p]) /\ call[p].op = "api" /\ call[p].body = clock
      /\ call[p].path \in Paths /\ clock \in Nat
  BY DEF Store, IInv, CallOK, TimeOK, CacheOK
<1>1. PICK c : c = [call[p] EXCEPT !.at = "returned", !.result = "ok"]
  OBVIOUS
<1>2. Set(p, c) /\ UNCHANGED <<clock, dest>>
  BY <1>1 DEF Store, Finish
<1>3. CallOK(c) /\ c.at = "returned" /\ c.result = "ok" /\ c.op = "api" /\ c.body = clock
  BY <1>0, <1>1, AnsweredEnds
<1>4. CacheStep
  BY <1>0 DEF Store, CacheStep
<1>5. TimeOK(c)'
  BY <1>0, <1>2, <1>3, ClientAssumption DEF TimeOK
<1>6. dest[p] \in {"none", "whole"} /\ dest' = [dest EXCEPT ![p] = dest[p]]
  BY <1>2 DEF IInv
<1>7. PICK d : d = dest[p]
  OBVIOUS
<1>8. DestOK(c, d)
  BY <1>3 DEF DestOK
<1> QED
  BY <1>2, <1>3, <1>4, <1>5, <1>6, <1>7, <1>8, KeepsFiles

LEMMA DownloadEffect ==
  ASSUME IInv, NEW p \in Procs, Download(p)
  PROVE  Effect(p)
<1>1. PICK d : d = dest[p]
  OBVIOUS
<1>2. PICK at : at = IF d = "whole" THEN "returned" ELSE "get"
  OBVIOUS
<1>3. PICK r : r = IF d = "whole" THEN "ok" ELSE "none"
  OBVIOUS
<1>4. PICK c : c = [Idle EXCEPT !.op = "download", !.at = at, !.result = r]
  OBVIOUS
<1>5. /\ d \in {"none", "whole"} /\ at \in Places /\ r \in Results
      /\ dest' = [dest EXCEPT ![p] = d] /\ CacheStep /\ clock' = clock
  BY <1>1, <1>2, <1>3 DEF Download, IInv, Places, Results, CacheStep
<1>6. Set(p, c)
  BY <1>1, <1>2, <1>3, <1>4 DEF Download
<1>7. c \in Call /\ c.op = "download" /\ c.at = at /\ c.result = r
      /\ c.answers = <<>> /\ c.attempt = 0 /\ c.status = "none"
  <2>1. c \in Call /\ c.op = "download" /\ c.at = at /\ c.result = r
    BY <1>4, <1>5, IdleOK DEF Call
  <2>2. c.answers = <<>> /\ c.attempt = 0 /\ c.status = "none"
    BY <1>4 DEF Idle
  <2> QED
    BY <2>1, <2>2
<1>8. CallOK(c)
  <2>1. Asking(c) /\ Explained(c)
    BY <1>7, ClientAssumption DEF Asking, Retried, Explained
  <2> QED
    BY <1>2, <1>7, <2>1 DEF CallOK
<1>9. TimeOK(c)' /\ DestOK(c, d)
  BY <1>2, <1>3, <1>5, <1>7 DEF TimeOK, DestOK
<1> QED
  BY <1>5, <1>6, <1>8, <1>9, KeepsFiles

LEMMA VerifiedEffect ==
  ASSUME IInv, NEW p \in Procs, Verified(p)
  PROVE  Effect(p)
<1>0. /\ call[p].at = "verify" /\ CallOK(call[p]) /\ DestOK(call[p], dest[p])
      /\ call[p].op = "download" /\ dest[p] = "none" /\ dest \in [Procs -> {"none", "whole"}]
      /\ clock' = clock /\ CacheStep
  BY DEF Verified, IInv, CallOK, DestOK, CacheStep
<1>1. ASSUME NEW r \in {"ok", "io"}, NEW d \in {"none", "whole"}, d = (IF r = "ok" THEN "whole" ELSE "none"),
             Finish(p, r), dest' = [dest EXCEPT ![p] = d]
      PROVE  Effect(p)
  <2>1. PICK c : c = [call[p] EXCEPT !.at = "returned", !.result = r]
    OBVIOUS
  <2>2. Set(p, c)
    BY <1>1, <2>1 DEF Finish
  <2>3. CallOK(c) /\ c.at = "returned" /\ c.result = r /\ c.op = "download"
    <3>1. r \in {"ok", "parse", "io", "integrity"}
      BY <1>1
    <3>2. LET e == [call[p] EXCEPT !.at = "returned", !.result = r]
          IN  CallOK(e) /\ e.at = "returned" /\ e.result = r /\ e.op = call[p].op /\ e.body = call[p].body
      <4>1. CallOK(call[p]) /\ call[p].at \in {"parse", "store", "verify"}
        BY <1>0
      <4> QED
        BY <3>1, <4>1, AnsweredEnds
    <3> QED
      BY <1>0, <2>1, <3>2
  <2>4. TimeOK(c)' /\ DestOK(c, d)
    BY <1>1, <2>3 DEF TimeOK, DestOK
  <2> QED
    BY <1>0, <1>1, <2>2, <2>3, <2>4, KeepsFiles
<1>2. CASE dest' = [dest EXCEPT ![p] = "whole"] /\ Finish(p, "ok")
  BY <1>1, <1>2
<1>3. CASE dest' = [dest EXCEPT ![p] = AfterFailedWrite(@)] /\ Finish(p, "io")
  BY <1>0, <1>1, <1>3 DEF AfterFailedWrite
<1> QED
  BY <1>2, <1>3 DEF Verified

LEMMA MismatchEffect ==
  ASSUME IInv, NEW p \in Procs, Mismatch(p)
  PROVE  Effect(p)
<1>0. /\ call[p].at = "verify" /\ CallOK(call[p]) /\ DestOK(call[p], dest[p]) /\ call[p] \in Call
      /\ call[p].op = "download" /\ dest[p] = "none"
      /\ UNCHANGED <<clock, cache, dest>>
  BY DEF Mismatch, IInv, CallOK, DestOK
<1>1. CASE call[p].again
  <2>1. PICK c : c = [call[p] EXCEPT !.at = "returned", !.result = "integrity"]
    OBVIOUS
  <2>2. Set(p, c)
    BY <1>1, <2>1 DEF Mismatch, Finish
  <2>3. CallOK(c) /\ c.at = "returned" /\ c.result = "integrity" /\ c.op = "download"
    BY <1>0, <2>1, AnsweredEnds
  <2>4. TimeOK(c) /\ DestOK(c, dest[p])
    BY <1>0, <2>3 DEF TimeOK, DestOK
  <2> QED
    BY <1>0, <2>2, <2>3, <2>4, CallMoves
<1>2. CASE ~call[p].again
  <2>1. PICK c : c = SecondTry(call[p])
    OBVIOUS
  <2>2. Set(p, c)
    BY <1>2, <2>1 DEF Mismatch
  <2>3. /\ c \in Call /\ c.at = "get" /\ c.op = "download" /\ c.answers = <<>>
        /\ c.attempt = 0 /\ c.status = "none"
    <3>1. <<>> \in Seq(Answers)
      OBVIOUS
    <3> QED
      BY <1>0, <2>1, <3>1 DEF SecondTry, Call, Places, Answers
  <2>4. CallOK(c)
    BY <2>3, ClientAssumption DEF CallOK, Asking, Retried
  <2>5. TimeOK(c) /\ DestOK(c, dest[p])
    BY <1>0, <2>3 DEF TimeOK, DestOK
  <2> QED
    BY <1>0, <2>2, <2>4, <2>5, CallMoves
<1> QED
  BY <1>1, <1>2

LEMMA ContentLengthEffect ==
  ASSUME IInv, NEW p \in Procs, ContentLength(p)
  PROVE  Effect(p)
<1>1. PICK c : c = [Idle EXCEPT !.op = "head", !.at = "head"]
  OBVIOUS
<1>2. Set(p, c) /\ UNCHANGED <<clock, cache, dest>>
  BY <1>1 DEF ContentLength
<1>3. c \in Call /\ c.op = "head" /\ c.at = "head"
  BY <1>1, IdleOK DEF Call, Places
<1>4. c.answers = <<>>
  BY <1>1 DEF Idle
<1>5. CallOK(c)
  BY <1>3, <1>4 DEF CallOK
<1>6. TimeOK(c) /\ DestOK(c, dest[p])
  BY <1>3 DEF TimeOK, DestOK
<1> QED
  BY <1>2, <1>5, <1>6, CallMoves

LEMMA HeadEffect ==
  ASSUME IInv, NEW p \in Procs, NEW a \in Answers, HeadAnswered(p, a)
  PROVE  Effect(p)
<1>1. PICK r : r = IF a = "none" THEN "network" ELSE IF a = "not_found" THEN a ELSE "ok"
  OBVIOUS
<1>2. PICK c : c = [call[p] EXCEPT !.at = "returned", !.answers = <<a>>, !.result = r]
  OBVIOUS
<1>3. Set(p, c) /\ UNCHANGED <<clock, cache, dest>>
  BY <1>1, <1>2 DEF HeadAnswered
<1>4. r \in Results
  BY <1>1 DEF Results
<1>5. c \in Call /\ c.op = "head" /\ c.at = "returned" /\ c.answers = <<a>>
  <2>1. <<a>> \in Seq(Answers)
    OBVIOUS
  <2> QED
    BY <1>2, <1>4, <2>1 DEF HeadAnswered, IInv, CallOK, Call, Places
<1>6. CallOK(c)
  BY <1>5, ClientAssumption DEF CallOK, Explained
<1>7. TimeOK(c) /\ DestOK(c, dest[p])
  BY <1>5 DEF TimeOK, DestOK
<1> QED
  BY <1>3, <1>6, <1>7, CallMoves

LEMMA IdleEffect ==
  ASSUME IInv, NEW p \in Procs, Set(p, Idle), UNCHANGED <<clock, cache>>,
         dest' = dest \/ dest' = [dest EXCEPT ![p] = "none"]
  PROVE  Effect(p)
<1>1. PICK c : c = Idle
  OBVIOUS
<1>2. CacheStep /\ Set(p, c) /\ CallOK(c) /\ c.op = "none" /\ c.at = "idle"
  BY <1>1, IdleOK DEF CacheStep, Idle
<1>3. TimeOK(c)' /\ \A d \in {"none", "whole"} : DestOK(c, d)
  BY <1>2 DEF TimeOK, DestOK
<1>4. CASE dest' = dest
  <2>1. PICK d : d = dest[p]
    OBVIOUS
  <2>2. d \in {"none", "whole"} /\ dest' = [dest EXCEPT ![p] = d]
    BY <1>4, <2>1 DEF IInv
  <2> QED
    BY <1>2, <1>3, <2>2, KeepsFiles
<1>5. CASE dest' = [dest EXCEPT ![p] = "none"]
  BY <1>2, <1>3, <1>5, KeepsFiles
<1> QED
  BY <1>4, <1>5

LEMMA ClientStepEffect ==
  ASSUME IInv, NEW p \in Procs, ClientStep(p)
  PROVE  Effect(p) /\ call[p].at # "idle"
<1>1. CASE ReadCache(p)
  BY <1>1, ReadCacheEffect DEF ReadCache
<1>2. CASE CacheUnreadable(p)
  BY <1>2, CacheUnreadableEffect DEF CacheUnreadable
<1>3. CASE \E a \in Answers : Attempt(p, a)
  BY <1>3, AttemptEffect DEF Attempt
<1>4. CASE Parse(p)
  BY <1>4, ParseEffect DEF Parse
<1>5. CASE ParseFails(p)
  BY <1>5, ParseFailsEffect DEF ParseFails
<1>6. CASE Store(p)
  BY <1>6, StoreEffect DEF Store
<1>7. CASE Verified(p)
  BY <1>7, VerifiedEffect DEF Verified
<1>8. CASE Mismatch(p)
  BY <1>8, MismatchEffect DEF Mismatch
<1>9. CASE \E a \in Answers : HeadAnswered(p, a)
  BY <1>9, HeadEffect DEF HeadAnswered
<1> QED
  BY <1>1, <1>2, <1>3, <1>4, <1>5, <1>6, <1>7, <1>8, <1>9 DEF ClientStep, Proceeds

(***************************************************************************)
(* The steps of a study.                                                   *)
(***************************************************************************)
LEMMA PathAsked ==
  ASSUME MatOK, mat.n <= Len(Wanted), mat.v <= Len(Versions[Name])
  PROVE  Path \in Paths
<1>1. mat.n \in DOMAIN Wanted /\ Name \in Names
  BY WantedAssumption DEF MatOK, Name
<1>2. Versions[Name] \in Seq({a[2] : a \in Paths})
  BY <1>1, MaterializeAssumption
<1>3. mat.v \in DOMAIN Versions[Name]
  BY <1>2 DEF MatOK
<1> QED
  BY <1>1, <1>3, MaterializeAssumption DEF Path

\* An answer is taken: the call is over, wherever materialize goes.
LEMMA TakeInv ==
  ASSUME IInv, Take(M), dest' = dest \/ dest' = [dest EXCEPT ![M] = "none"],
         DOMAIN mat' = DOMAIN mat, mat'.n \in Nat \ {0}, mat'.v \in Nat \ {0}
  PROVE  IInv'
<1>1. M \in Procs
  BY MaterializeAssumption
<1>2. Set(M, Idle) /\ UNCHANGED <<clock, cache>>
  BY DEF Take, Set
<1>3. Effect(M)
  BY <1>1, <1>2, IdleEffect
<1>4. call'[M].at = "idle"
  BY <1>1, IdleOK DEF IInv, Take
<1>5. MatOK'
  BY <1>4 DEF MatOK, IInv
<1> QED
  BY <1>1, <1>3, <1>5, EffectInv

\* No call changes.
LEMMA LocalInv ==
  ASSUME IInv, UNCHANGED clientVars, MatOK'
  PROVE  IInv'
<1>1. CacheOK' /\ (\A p \in Procs : TimeOK(call[p])')
  BY DEF clientVars, CacheOK, IInv, TimeOK
<1>2. \A p \in Procs : CallOK(call[p])' /\ DestOK(call[p], dest[p])'
  BY DEF clientVars, IInv
<1> QED
  BY <1>1, <1>2 DEF IInv, clientVars

LEMMA MaterializesInv ==
  ASSUME IInv, Materializes
  PROVE  IInv'
<1>0. /\ M \in Procs /\ MatOK /\ DOMAIN mat = {"phase", "at", "n", "v", "total", "missing", "extracted", "asked"}
      /\ mat.n \in Nat \ {0} /\ mat.v \in Nat \ {0}
  BY MaterializeAssumption DEF IInv, MatOK
<1>1. CASE AskFiles
  <2>1. Path \in Paths
    BY <1>0, <1>1, PathAsked DEF AskFiles
  <2>2. Effect(M)
    BY <1>0, <1>1, <2>1, ApiEffect DEF AskFiles
  <2>3. MatOK'
    BY <1>0, <1>1 DEF AskFiles, MatOK
  <2> QED
    BY <1>0, <2>2, <2>3, EffectInv
<1>2. CASE EstimateListed
  BY <1>0, <1>2, TakeInv DEF EstimateListed, NextName
<1>3. CASE NoVersions
  <2>1. MatOK'
    BY <1>0, <1>3 DEF NoVersions, NextName, MatOK
  <2> QED
    BY <1>3, <2>1, LocalInv DEF NoVersions
<1>4. CASE AskSize
  <2>1. Effect(M)
    BY <1>0, <1>4, ContentLengthEffect DEF AskSize
  <2>2. MatOK'
    BY <1>0, <1>4 DEF AskSize, Working, MatOK
  <2> QED
    BY <1>0, <2>1, <2>2, EffectInv
<1>5. CASE Sized
  <2>1. DOMAIN mat' = DOMAIN mat /\ mat'.n \in Nat \ {0} /\ mat'.v \in Nat \ {0}
    <3>1. PICK total, asked : mat' = [NextName(mat) EXCEPT !.total = total, !.asked = asked]
      BY <1>5 DEF Sized
    <3>2. /\ DOMAIN NextName(mat) = DOMAIN mat
          /\ NextName(mat).n = mat.n + 1 /\ NextName(mat).v = 1
      BY <1>0 DEF NextName
    <3> QED
      BY <1>0, <3>1, <3>2
  <2> QED
    BY <1>0, <1>5, <2>1, TakeInv DEF Sized
<1>6. CASE Estimated
  <2>1. MatOK'
    BY <1>0, <1>6 DEF Estimated, Working, MatOK
  <2> QED
    BY <1>6, <2>1, LocalInv DEF Estimated
<1>7. CASE FetchListed
  BY <1>0, <1>7, TakeInv DEF FetchListed, NextVersion
<1>8. CASE Missing
  <2>1. MatOK'
    BY <1>0, <1>8 DEF Missing, NextName, MatOK
  <2> QED
    BY <1>8, <2>1, LocalInv DEF Missing
<1>9. CASE FetchDeb
  <2>1. Effect(M)
    BY <1>0, <1>9, DownloadEffect DEF FetchDeb
  <2>2. MatOK'
    BY <1>0, <1>9 DEF FetchDeb, Working, MatOK
  <2> QED
    BY <1>0, <2>1, <2>2, EffectInv
<1>10. CASE Fetched
  BY <1>0, <1>10, TakeInv DEF Fetched
<1>11. CASE Extract
  <2>1. call[M] = Idle
    BY <1>0, <1>11 DEF Extract, Working, IInv, MatOK, CallOK
  <2>2. PICK c : c = Idle
    OBVIOUS
  <2>3. CacheStep /\ CallOK(c) /\ c.op = "none" /\ c.at = "idle"
    BY <1>11, <2>2, IdleOK DEF Extract, CacheStep, Idle
  <2>4. TimeOK(c)' /\ DestOK(c, dest'[M])
    BY <2>3 DEF TimeOK, DestOK
  <2>5. /\ dest' \in [Procs -> {"none", "whole"}] /\ \A q \in Procs : q # M => dest'[q] = dest[q]
        /\ call' = call /\ clock' = clock
    BY <1>0, <1>11 DEF Extract, IInv
  <2>6. Moves(M, c)
    BY <2>1, <2>2, <2>3, <2>4, <2>5 DEF Moves
  <2>7. MatOK'
    <3>1. call'[M].at = "idle"
      BY <2>1, <2>5, IdleOK
    <3>2. DOMAIN mat' = DOMAIN mat /\ mat'.n \in Nat \ {0} /\ mat'.v \in Nat \ {0}
      BY <1>0, <1>11 DEF Extract, NextName
    <3> QED
      BY <1>0, <3>1, <3>2 DEF MatOK
  <2> QED
    BY <1>0, <2>6, <2>7, EffectInv DEF Effect
<1>12. CASE Complete
  <2>1. MatOK'
    BY <1>0, <1>12 DEF Complete, Working, MatOK
  <2> QED
    BY <1>12, <2>1, LocalInv DEF Complete
<1>13. CASE CallFails
  BY <1>0, <1>13, TakeInv DEF CallFails
<1> QED
  BY <1>1, <1>2, <1>3, <1>4, <1>5, <1>6, <1>7, <1>8, <1>9, <1>10, <1>11, <1>12, <1>13 DEF Materializes

\* Time passes only while no process has an answer in hand.
LEMMA TickInv ==
  ASSUME IInv, Tick, UNCHANGED mat
  PROVE  IInv'
<1>1. /\ clock \in Nat /\ clock' = clock + 1 /\ cache' = cache /\ dest' = dest /\ call' = call
      /\ \A p \in Procs : call[p].at \notin {"cached", "parse", "store", "verify", "returned"}
  BY DEF Tick, IInv, CacheOK, Busy
<1>2. CacheOK'
  <2>1. \A a \in Paths : cache[a] \in File /\ cache[a].stored <= clock => cache[a].stored <= clock + 1
    BY <1>1 DEF File
  <2> QED
    BY <1>1, <2>1 DEF CacheOK, IInv
<1>3. MatOK'
  BY <1>1 DEF IInv, MatOK
<1>4. \A p \in Procs : TimeOK(call[p])'
  BY <1>1 DEF TimeOK
<1>5. \A p \in Procs : CallOK(call[p])' /\ DestOK(call[p], dest[p])'
  BY <1>1 DEF IInv
<1> QED
  BY <1>1, <1>2, <1>3, <1>4, <1>5 DEF IInv

LEMMA InitInv == ASSUME Init PROVE IInv
<1>1. /\ clock = 0 /\ cache = [a \in Paths |-> Absent] /\ dest = [p \in Procs |-> "none"]
      /\ call = [p \in Procs |-> Idle] /\ mat = Start /\ M \in Procs
  BY MaterializeAssumption DEF Init, ClientInit
<1>2. CacheOK
  BY <1>1 DEF CacheOK
<1>3. MatOK
  BY <1>1, IdleOK DEF MatOK, Start
<1>4. \A p \in Procs : CallOK(call[p]) /\ TimeOK(call[p]) /\ DestOK(call[p], dest[p])
  BY <1>1, IdleOK, IdleRest
<1> QED
  BY <1>1, <1>2, <1>3, <1>4 DEF IInv

LEMMA NextInv == ASSUME IInv, [Next]_vars PROVE IInv'
<1>1. CASE Materializes
  BY <1>1, MaterializesInv
<1>2. ASSUME NEW p \in Procs, ClientStep(p), UNCHANGED <<archive, mat>>
      PROVE  IInv'
  <2>1. Effect(p) /\ call[p].at # "idle"
    BY <1>2, ClientStepEffect
  <2>2. MatOK'
    <3>1. CASE mat.at # "extract"
      BY <1>2, <3>1 DEF MatOK, IInv
    <3>2. CASE mat.at = "extract"
      <4>1. p # M /\ M \in Procs
        BY <2>1, <3>2, MaterializeAssumption DEF IInv, MatOK
      <4>2. call'[M] = call[M]
        BY <2>1, <4>1 DEF Effect, Moves
      <4> QED
        BY <1>2, <4>2 DEF MatOK, IInv
    <3> QED
      BY <3>1, <3>2
  <2> QED
    BY <2>1, <2>2, EffectInv
<1>3. ASSUME NEW p \in Procs \ {M}, OtherCalls(p), UNCHANGED <<archive, mat>>
      PROVE  IInv'
  <2>1. Effect(p)
    <3>1. CASE \E a \in OtherPaths : Api(p, a)
      BY <1>3, <3>1, ApiEffect, MaterializeAssumption
    <3>2. CASE Return(p)
      BY <1>3, <3>2, IdleEffect DEF Return
    <3> QED
      BY <1>3, <3>1, <3>2 DEF OtherCalls
  <2>2. call'[M] = call[M]
    BY <1>3, <2>1, MaterializeAssumption DEF Effect, Moves
  <2>3. MatOK'
    BY <1>3, <2>2 DEF MatOK, IInv
  <2> QED
    BY <1>3, <2>1, <2>3, EffectInv
<1>4. CASE Tick /\ UNCHANGED <<archive, mat>>
  BY <1>4, TickInv
<1>5. CASE UNCHANGED vars
  <2>1. UNCHANGED clientVars /\ mat' = mat /\ call' = call
    BY <1>5 DEF vars, clientVars
  <2>2. MatOK'
    BY <2>1 DEF IInv, MatOK
  <2> QED
    BY <2>1, <2>2, LocalInv
<1> QED
  BY <1>1, <1>2, <1>3, <1>4, <1>5 DEF Next

\* In every state each call is where its answers, the clock, the cache and its file allow.
THEOREM MaterializeInvariance == Spec => []IInv
<1>1. Init => IInv
  BY InitInv
<1>2. IInv /\ [Next]_vars => IInv'
  BY NextInv
<1> QED
  BY <1>1, <1>2, PTL DEF Spec

\* The kind of a failed request says what happened over all its attempts (client.cpp:91-136).
THEOREM FailuresExplained == Spec => []ErrorsExplained
<1>1. IInv => ErrorsExplained
  BY CallExplained DEF IInv, Explained, ErrorsExplained
<1> QED
  BY <1>1, MaterializeInvariance, PTL

\* What api returns is younger than the time to live, however processes share the cache (client.cpp:138-155).
THEOREM CacheSharedSafely == Spec => []AnswersAreFresh
<1>1. IInv => AnswersAreFresh
  BY DEF IInv, TimeOK, AnswersAreFresh, Returned
<1> QED
  BY <1>1, MaterializeInvariance, PTL

\* A download ends with the whole file or with an error and none (client.cpp:157-172).
THEOREM DownloadsWhole == Spec => []WholeOrNothing
<1>1. IInv => WholeOrNothing
  BY DEF IInv, DestOK, WholeOrNothing, Returned
<1> QED
  BY <1>1, MaterializeInvariance, PTL

(***************************************************************************)
(* What materialize itself knows: the sum behind its estimate, and that    *)
(* what it has extracted and missed are those of the packages so far.      *)
(***************************************************************************)
\* materialize is at a version of a package that is wanted while it waits for an answer or has one in
\* hand, and goes on to its size or its file only if it has one.
PlaceOK ==
  /\ archive \in Archives
  /\ mat.phase \in {"estimate", "fetch", "done", "too_large", "failed"}
  /\ mat.n \in 1 .. Len(Wanted) + 1 /\ mat.v \in Nat \ {0}
  /\ mat.phase = "estimate" => mat.at \in {"list", "size"} /\ mat.v = 1
  /\ mat.phase = "fetch" => mat.at \in {"list", "deb", "extract"}
  /\ mat.phase \in {"estimate", "fetch"} /\ (mat.at # "list" \/ call[M].at # "idle") =>
       mat.n <= Len(Wanted) /\ mat.v <= Len(Versions[Name])
  /\ mat.phase \in {"estimate", "fetch"} /\ mat.at # "list" => Size > 0

\* The total is the size of the packages that were sized, each in the version that will be fetched.
Bytes == [n \in DOMAIN Wanted |-> IF Fetchable(Wanted[n]) THEN archive[Newest(Wanted[n])] ELSE 0]
Known == {n \in DOMAIN Wanted : Fetchable(Wanted[n]) /\ <<n, Newest(Wanted[n]), "size">> \in mat.asked}
EstimateOK ==
  /\ \A a \in mat.asked : a[1] \in DOMAIN Wanted /\ Fetchable(Wanted[a[1]])
  /\ mat.phase = "estimate" => \A a \in mat.asked : a[1] < mat.n
  /\ mat.total = SumFunctionOnSet(Bytes, Known)
  /\ mat.phase \in {"fetch", "done"} /\ Want.max_download_bytes # 0 => mat.total <= Want.max_download_bytes

\* The packages before the n-th are dealt with, and the versions before the v-th have no file.
FetchOK ==
  /\ mat.phase = "estimate" => mat.extracted = <<>> /\ mat.missing = <<>>
  /\ mat.phase \in {"fetch", "done"} =>
       /\ mat.extracted = Extractable[mat.n - 1] /\ mat.missing = Unavailable[mat.n - 1]
       /\ DOMAIN mat.extracted = 1 .. Len(mat.extracted)
       /\ Downloaded = SumFunctionOnSet(Bytes, 1 .. mat.n - 1)
  /\ mat.phase = "fetch" /\ mat.n <= Len(Wanted) =>
       \A k \in DOMAIN Versions[Name] : k < mat.v => archive[<<Name, Versions[Name][k]>>] = 0
  /\ mat.phase = "done" => mat.n = Len(Wanted) + 1

MatInv == PlaceOK /\ EstimateOK /\ FetchOK

LEMMA WantedType ==
  /\ Len(Wanted) \in Nat /\ DOMAIN Wanted = 1 .. Len(Wanted) /\ IsFiniteSet(DOMAIN Wanted)
  /\ \A n \in DOMAIN Wanted : Wanted[n] \in Names
<1>1. Wanted \in Seq(Names)
  BY WantedAssumption
<1>2. Len(Wanted) \in Nat /\ DOMAIN Wanted = 1 .. Len(Wanted) /\ \A n \in DOMAIN Wanted : Wanted[n] \in Names
  BY <1>1
<1>3. IsFiniteSet(1 .. Len(Wanted))
  BY <1>2, FS_Interval
<1> QED
  BY <1>2, <1>3

LEMMA VersionsType ==
  ASSUME NEW b \in Names
  PROVE  /\ Len(Versions[b]) \in Nat /\ DOMAIN Versions[b] = 1 .. Len(Versions[b])
         /\ \A n \in DOMAIN Versions[b] : <<b, Versions[b][n]>> \in Paths
<1>1. PICK vs : vs = Versions[b]
  OBVIOUS
<1>2. vs \in Seq({a[2] : a \in Paths}) /\ \A n \in DOMAIN vs : <<b, vs[n]>> \in Paths
  BY <1>1, MaterializeAssumption
<1>3. Len(vs) \in Nat /\ DOMAIN vs = 1 .. Len(vs)
  BY <1>2
<1> QED
  BY <1>1, <1>2, <1>3

LEMMA ArchiveType == ASSUME archive \in Archives PROVE archive \in [Paths -> Nat]
BY MaterializeAssumption

\* The first version that has a file is the newest that does.
LEMMA NewestFound ==
  ASSUME NEW b \in Names, NEW n \in DOMAIN Versions[b], archive \in Archives, archive[<<b, Versions[b][n]>>] > 0,
         \A k \in DOMAIN Versions[b] : k < n => archive[<<b, Versions[b][k]>>] = 0
  PROVE  Fetchable(b) /\ Newest(b) = <<b, Versions[b][n]>>
<1> DEFINE S == {k \in DOMAIN Versions[b] : archive[<<b, Versions[b][k]>>] > 0}
<1>1. n \in S /\ S \subseteq Nat
  BY VersionsType
<1>2. ASSUME NEW k \in S PROVE ~(k < n)
  <2>1. archive[<<b, Versions[b][k]>>] \in Nat
    BY VersionsType, ArchiveType
  <2> QED
    BY <2>1
<1>3. \A k \in S : n <= k
  BY <1>1, <1>2
<1>4. Min(S) = n
  <2> HIDE DEF S
  <2>1. PICK x : x = Min(S)
    OBVIOUS
  <2>2. x \in S /\ \A k \in S : x <= k
    BY <1>1, <1>3, <2>1 DEF Min
  <2>3. x \in Nat /\ n \in Nat /\ x <= n /\ n <= x
    BY <1>1, <1>3, <2>2
  <2> QED
    BY <2>1, <2>3
<1> QED
  BY <1>4 DEF Newest, Fetchable

LEMMA NewestHasFile ==
  ASSUME NEW b \in Names, archive \in Archives, Fetchable(b)
  PROVE  Newest(b) \in Paths /\ archive[Newest(b)] \in Nat /\ archive[Newest(b)] > 0
<1> DEFINE S == {k \in DOMAIN Versions[b] : archive[<<b, Versions[b][k]>>] > 0}
<1>1. S \in SUBSET Nat /\ S # {}
  BY VersionsType DEF Fetchable
<1>2. PICK n \in S : \A k \in S : n <= k
  <2> HIDE DEF S
  <2> QED
    BY <1>1, LeastNatural
<1>3. Min(S) \in S
  <2> HIDE DEF S
  <2> QED
    BY <1>1, <1>2 DEF Min
<1>4. Newest(b) = <<b, Versions[b][Min(S)]>>
  BY DEF Newest
<1> QED
  BY <1>3, <1>4, VersionsType, ArchiveType

LEMMA BytesType == ASSUME archive \in Archives PROVE Bytes \in [DOMAIN Wanted -> Nat]
BY WantedType, NewestHasFile DEF Bytes

\* What the two lists of a release are, package by package.
LEMMA ExtractableStep ==
  ASSUME archive \in Archives
  PROVE  /\ Extractable \in [0 .. Len(Wanted) -> Seq(Paths)] /\ Extractable[0] = <<>>
         /\ \A n \in DOMAIN Wanted :
              Extractable[n] = IF Fetchable(Wanted[n]) THEN Append(Extractable[n - 1], Newest(Wanted[n]))
                                                       ELSE Extractable[n - 1]
<1> DEFINE N == Len(Wanted)
           V == Seq(Paths)
           After(n, x) == IF Fetchable(Wanted[n]) THEN Append(x, Newest(Wanted[n])) ELSE x
           step == [a \in (1 .. N) \X V |-> After(a[1], a[2])]
<1>1. N \in Nat /\ <<>> \in V /\ DOMAIN Wanted = 1 .. N
  BY WantedType
<1>2. \A n \in 1 .. N, x \in V : After(n, x) \in V
  BY WantedType, NewestHasFile
<1>3. step \in [(1 .. N) \X V -> V]
  <2> HIDE DEF After, V
  <2> QED
    BY <1>2
<1>4. PICK f \in [0 .. N -> V] : f[0] = <<>> /\ \A n \in 1 .. N : f[n] = step[<<n, f[n - 1]>>]
  <2> HIDE DEF step, N, V
  <2>1. PICK first \in V : first = <<>>
    BY <1>1
  <2>2. \E f : Iterates(f, N, V, first, step)
    BY <1>1, <1>3, Recursion
  <2> QED
    BY <2>1, <2>2 DEF Iterates
<1>5. \A n \in 0 .. N : n # 0 => n \in 1 .. N /\ n - 1 \in 0 .. N
  BY <1>1
<1>6. f = [n \in 0 .. N |-> IF n = 0 THEN <<>> ELSE After(n, f[n - 1])]
  <2> HIDE DEF After, V, N
  <2>1. \A n \in 1 .. N, x \in V : step[<<n, x>>] = After(n, x)
    OBVIOUS
  <2> HIDE DEF step
  <2>2. \A n \in 0 .. N : f[n] = IF n = 0 THEN <<>> ELSE After(n, f[n - 1])
    BY <1>4, <1>5, <2>1
  <2> QED
    BY <2>2
<1>7. Extractable = [n \in 0 .. N |-> IF n = 0 THEN <<>> ELSE After(n, Extractable[n - 1])]
  BY <1>6 DEF Extractable
<1>8. Extractable[0] = <<>> /\ \A n \in 1 .. N : Extractable[n] = After(n, Extractable[n - 1])
  <2> HIDE DEF After, V
  <2> QED
    BY <1>1, <1>7
<1> DEFINE B == {n \in Nat : n <= N => Extractable[n] \in V}
<1>9. ASSUME NEW n \in B PROVE n + 1 \in B
  <2> HIDE DEF After, V
  <2> SUFFICES ASSUME n + 1 <= N PROVE Extractable[n + 1] \in V
    OBVIOUS
  <2>1. n + 1 \in 1 .. N /\ (n + 1) - 1 = n /\ Extractable[n] \in V
    BY <1>1
  <2> QED
    BY <1>2, <1>8, <2>1
<1>10. B = Nat
  <2>1. 0 \in B /\ B \in SUBSET Nat
    BY <1>1, <1>8
  <2> HIDE DEF B
  <2> QED
    BY <1>9, <2>1, Induction
<1>11. \A n \in 0 .. N : Extractable[n] \in V
  <2> HIDE DEF V
  <2> QED
    BY <1>1, <1>10
<1> QED
  <2>1. DOMAIN Extractable = 0 .. N
    BY <1>7
  <2> HIDE DEF V
  <2>2. Extractable \in [0 .. N -> V]
    BY <1>7, <1>11, <2>1
  <2> QED
    BY <1>1, <1>8, <2>2 DEF V

LEMMA UnavailableStep ==
  ASSUME archive \in Archives
  PROVE  /\ Unavailable[0] = <<>>
         /\ \A n \in DOMAIN Wanted :
              Unavailable[n] = IF Fetchable(Wanted[n]) THEN Unavailable[n - 1]
                                                       ELSE Append(Unavailable[n - 1], Wanted[n])
<1> DEFINE N == Len(Wanted)
           V == Seq(Names)
           After(n, x) == IF Fetchable(Wanted[n]) THEN x ELSE Append(x, Wanted[n])
           step == [a \in (1 .. N) \X V |-> After(a[1], a[2])]
<1>1. N \in Nat /\ <<>> \in V /\ DOMAIN Wanted = 1 .. N
  BY WantedType
<1>2. \A n \in 1 .. N, x \in V : After(n, x) \in V
  BY WantedType
<1>3. step \in [(1 .. N) \X V -> V]
  <2> HIDE DEF After, V
  <2> QED
    BY <1>2
<1>4. PICK f \in [0 .. N -> V] : f[0] = <<>> /\ \A n \in 1 .. N : f[n] = step[<<n, f[n - 1]>>]
  <2> HIDE DEF step, N, V
  <2>1. PICK first \in V : first = <<>>
    BY <1>1
  <2>2. \E f : Iterates(f, N, V, first, step)
    BY <1>1, <1>3, Recursion
  <2> QED
    BY <2>1, <2>2 DEF Iterates
<1>5. \A n \in 0 .. N : n # 0 => n \in 1 .. N /\ n - 1 \in 0 .. N
  BY <1>1
<1>6. f = [n \in 0 .. N |-> IF n = 0 THEN <<>> ELSE After(n, f[n - 1])]
  <2> HIDE DEF After, V, N
  <2>1. \A n \in 1 .. N, x \in V : step[<<n, x>>] = After(n, x)
    OBVIOUS
  <2> HIDE DEF step
  <2>2. \A n \in 0 .. N : f[n] = IF n = 0 THEN <<>> ELSE After(n, f[n - 1])
    BY <1>4, <1>5, <2>1
  <2> QED
    BY <2>2
<1>7. Unavailable = [n \in 0 .. N |-> IF n = 0 THEN <<>> ELSE After(n, Unavailable[n - 1])]
  <2> HIDE DEF step, V, N
  <2>1. f = [n \in 0 .. N |->
               IF n = 0 THEN <<>>
               ELSE IF Fetchable(Wanted[n]) THEN f[n - 1] ELSE Append(f[n - 1], Wanted[n])]
    BY <1>6
  <2>2. Unavailable =
          [n \in 0 .. N |->
               IF n = 0 THEN <<>>
               ELSE IF Fetchable(Wanted[n]) THEN Unavailable[n - 1] ELSE Append(Unavailable[n - 1], Wanted[n])]
    BY <2>1, Zenon DEF Unavailable, N
  <2> QED
    BY <2>2
<1> QED
  <2> HIDE DEF After, V
  <2>1. Unavailable[0] = <<>> /\ \A n \in 1 .. N : Unavailable[n] = After(n, Unavailable[n - 1])
    BY <1>1, <1>7
  <2> QED
    BY <1>1, <2>1 DEF After

(***************************************************************************)
(* A step that leaves the archive alone leaves all of this alone.          *)
(***************************************************************************)
LEMMA SameArchive ==
  ASSUME archive' = archive
  PROVE  /\ \A b : Fetchable(b)' = Fetchable(b) /\ Newest(b)' = Newest(b)
         /\ Bytes' = Bytes /\ Extractable' = Extractable /\ Unavailable' = Unavailable
<1>1. \A b : Fetchable(b)' = Fetchable(b)
  BY DEF Fetchable
<1>2. \A b : Newest(b)' = Newest(b)
  BY DEF Newest
<1>3. Bytes' = Bytes
  BY <1>1, <1>2 DEF Bytes
<1>4. Extractable' = Extractable
  BY <1>1, <1>2 DEF Extractable
<1>5. Unavailable' = Unavailable
  BY <1>1, <1>2 DEF Unavailable
<1> QED
  BY <1>1, <1>2, <1>3, <1>4, <1>5

LEMMA KnownSame ==
  ASSUME archive' = archive, mat'.asked = mat.asked
  PROVE  Known' = Known
BY SameArchive DEF Known

\* What the estimate says is not touched by a step that sizes nothing.
LEMMA EstimateKept ==
  ASSUME EstimateOK, archive' = archive, mat'.asked = mat.asked, mat'.total = mat.total,
         mat.n \in Nat, mat'.n \in Nat, mat'.phase = "estimate" => mat.phase = "estimate" /\ mat.n <= mat'.n,
         mat'.phase \in {"fetch", "done"} /\ Want.max_download_bytes # 0 =>
           mat.phase \in {"fetch", "done"} \/ mat.total <= Want.max_download_bytes
  PROVE  EstimateOK'
<1>1. Known' = Known /\ Bytes' = Bytes /\ \A b : Fetchable(b)' = Fetchable(b)
  BY KnownSame, SameArchive
<1>2. \A a \in mat'.asked : a[1] \in DOMAIN Wanted /\ Fetchable(Wanted[a[1]])'
  BY <1>1 DEF EstimateOK
<1>3. mat'.phase = "estimate" => \A a \in mat'.asked : a[1] < mat'.n
  BY WantedType DEF EstimateOK
<1>4. mat'.total = SumFunctionOnSet(Bytes, Known)'
  BY <1>1 DEF EstimateOK
<1>5. mat'.phase \in {"fetch", "done"} /\ Want.max_download_bytes # 0 => mat'.total <= Want.max_download_bytes
  BY DEF EstimateOK
<1> QED
  BY <1>2, <1>3, <1>4, <1>5 DEF EstimateOK

LEMMA FetchKept ==
  ASSUME FetchOK, archive' = archive, mat'.extracted = mat.extracted, mat'.missing = mat.missing,
         mat'.phase = mat.phase, mat.phase = "fetch" => mat'.n = mat.n /\ mat'.v = mat.v,
         mat.phase = "done" => mat'.n = mat.n
  PROVE  FetchOK'
<1>1. Bytes' = Bytes /\ Extractable' = Extractable /\ Unavailable' = Unavailable
  BY SameArchive
<1>2. Downloaded' = Downloaded
  BY DEF Downloaded
<1>3. mat.phase = "fetch" => Name' = Name
  BY DEF Name
<1> QED
  BY <1>1, <1>2, <1>3 DEF FetchOK

\* The bytes downloaded are the sizes of the packages dealt with.
LEMMA DownloadedMore ==
  ASSUME archive \in Archives, mat.extracted \in Seq(Paths), NEW a \in Paths,
         archive' = archive, mat'.extracted = Append(mat.extracted, a)
  PROVE  Downloaded' = archive[a] + Downloaded /\ Downloaded \in Nat
<1> DEFINE w == [n \in DOMAIN mat.extracted |-> archive[mat.extracted[n]]]
           l == Len(mat.extracted) + 1
           x == [n \in DOMAIN mat'.extracted |-> archive[mat'.extracted[n]]]
<1>1. l \in Nat /\ DOMAIN w = 1 .. l - 1 /\ DOMAIN x = 1 .. l /\ 1 .. l = (1 .. l - 1) \cup {l} /\ l \notin 1 .. l - 1
  OBVIOUS
<1>2. x[l] = archive[a] /\ \A n \in 1 .. l - 1 : x[n] = w[n]
  OBVIOUS
<1>3. (\A n \in 1 .. l - 1 : w[n] \in Nat) /\ archive[a] \in Nat
  BY ArchiveType
<1>4. Downloaded = SumFunctionOnSet(w, 1 .. l - 1) /\ Downloaded' = SumFunctionOnSet(x, 1 .. l)
  BY <1>1 DEF Downloaded, SumFunction
<1> HIDE DEF w, x, l
<1>5. IsFiniteSet(1 .. l - 1)
  BY <1>1, FS_Interval
<1>6. SumFunctionOnSet(x, 1 .. l - 1) = SumFunctionOnSet(w, 1 .. l - 1)
  BY <1>2, <1>5, SumSame
<1>7. SumFunctionOnSet(w, 1 .. l - 1) \in Nat
  BY <1>3, <1>5, SumNat
<1>8. SumFunctionOnSet(x, (1 .. l - 1) \cup {l}) = x[l] + SumFunctionOnSet(x, 1 .. l - 1)
  <2>1. \A n \in (1 .. l - 1) \cup {l} : x[n] \in Int
    BY <1>2, <1>3
  <2> QED
    BY <1>1, <1>5, <2>1, SumAdd
<1> QED
  BY <1>1, <1>2, <1>4, <1>6, <1>7, <1>8

LEMMA BytesUpTo ==
  ASSUME archive \in Archives, NEW n \in DOMAIN Wanted
  PROVE  SumFunctionOnSet(Bytes, 1 .. n) = Bytes[n] + SumFunctionOnSet(Bytes, 1 .. n - 1)
<1>0. n \in Nat \ {0}
  BY WantedType
<1>1. n \in Nat /\ 1 .. n = (1 .. n - 1) \cup {n} /\ n \notin 1 .. n - 1 /\ IsFiniteSet(1 .. n - 1)
  <2>1. n - 1 \in Int /\ 1 .. n = (1 .. n - 1) \cup {n} /\ n \notin 1 .. n - 1
    BY <1>0
  <2>2. IsFiniteSet(1 .. n - 1)
    BY <2>1, FS_Interval
  <2> QED
    BY <1>0, <2>1, <2>2
<1>2. \A k \in (1 .. n - 1) \cup {n} : Bytes[k] \in Int
  BY <1>1, WantedType, BytesType
<1> QED
  BY <1>1, <1>2, SumAdd

(***************************************************************************)
(* The steps of materialize.                                               *)
(***************************************************************************)
Fields == {"phase", "at", "n", "v", "total", "missing", "extracted", "asked"}

LEMMA StayMat ==
  ASSUME MatInv, mat' = mat, archive' = archive,
         mat.phase \in {"estimate", "fetch"} /\ mat.at = "list" /\ call'[M].at # "idle" =>
           call[M].at # "idle" \/ (mat.n <= Len(Wanted) /\ mat.v <= Len(Versions[Name]))
  PROVE  MatInv'
<1>1. Name' = Name /\ Size' = Size
  BY DEF Name, Size, Path
<1>2. PlaceOK'
  BY <1>1 DEF MatInv, PlaceOK
<1>3. mat.n \in Nat
  BY WantedType DEF MatInv, PlaceOK
<1>4. EstimateOK'
  BY <1>3, EstimateKept DEF MatInv, EstimateOK
<1>5. FetchOK'
  BY FetchKept DEF MatInv
<1> QED
  BY <1>2, <1>4, <1>5 DEF MatInv

\* A version that has a file is at hand.
LEMMA AtFile ==
  ASSUME PlaceOK, FetchOK, mat.phase \in {"estimate", "fetch"}, mat.at # "list"
  PROVE  /\ mat.n \in DOMAIN Wanted /\ Name = Wanted[mat.n] /\ Name \in Names /\ Path \in Paths
         /\ Fetchable(Name) /\ Newest(Name) = Path /\ Bytes[mat.n] = Size /\ Size \in Nat
<1>1. mat.n \in DOMAIN Wanted /\ Name = Wanted[mat.n] /\ Name \in Names
  BY WantedType DEF PlaceOK, Name
<1>2. mat.v \in DOMAIN Versions[Name] /\ Path = <<Name, Versions[Name][mat.v]>> /\ Path \in Paths
  BY <1>1, VersionsType DEF PlaceOK, Path
<1>3. archive \in Archives /\ archive[Path] > 0 /\ Size = archive[Path] /\ Size \in Nat
  BY <1>2, ArchiveType DEF PlaceOK, Size
<1>4. \A k \in DOMAIN Versions[Name] : k < mat.v => archive[<<Name, Versions[Name][k]>>] = 0
  <2>1. CASE mat.phase = "estimate"
    BY <1>1, <2>1, VersionsType DEF PlaceOK
  <2>2. CASE mat.phase = "fetch"
    BY <2>2 DEF PlaceOK, FetchOK
  <2> QED
    BY <2>1, <2>2
<1>5. Fetchable(Name) /\ Newest(Name) = Path
  <2>1. PICK b \in Names : b = Name
    BY <1>1
  <2>2. PICK n \in DOMAIN Versions[b] : n = mat.v
    BY <1>2, <2>1
  <2> QED
    BY <1>2, <1>3, <1>4, <2>1, <2>2, NewestFound
<1> QED
  BY <1>1, <1>2, <1>3, <1>5 DEF Bytes

LEMMA NextNameMat ==
  ASSUME MatInv, DOMAIN mat = Fields, mat' = NextName(mat), archive' = archive, mat.phase = "estimate",
         mat.n <= Len(Wanted), call'[M].at = "idle" \/ (call'[M].at = call[M].at /\ Versions[Name] = <<>>)
  PROVE  MatInv'
<1>1. /\ mat'.phase = "estimate" /\ mat'.at = "list" /\ mat'.n = mat.n + 1 /\ mat'.v = 1
      /\ mat'.total = mat.total /\ mat'.asked = mat.asked
      /\ mat'.extracted = mat.extracted /\ mat'.missing = mat.missing
  BY DEF NextName, Fields
<1>2. call'[M].at = "idle"
  BY DEF MatInv, PlaceOK
<1>3. mat.n \in Nat \ {0} /\ mat'.n \in 1 .. Len(Wanted) + 1 /\ mat'.n \in Nat /\ mat.n <= mat'.n
  BY <1>1, WantedType DEF MatInv, PlaceOK
<1>4. PlaceOK'
  BY <1>1, <1>2, <1>3 DEF MatInv, PlaceOK
<1>5. EstimateOK'
  BY <1>1, <1>3, EstimateKept DEF MatInv
<1>6. FetchOK'
  BY <1>1, FetchKept DEF MatInv
<1> QED
  BY <1>4, <1>5, <1>6 DEF MatInv

LEMMA TakeFacts ==
  ASSUME IInv, Take(M)
  PROVE  DOMAIN mat = Fields /\ archive' = archive /\ call[M].at = "returned" /\ call'[M].at = "idle"
<1>1. call' = [call EXCEPT ![M] = Idle] /\ M \in DOMAIN call
  BY MaterializeAssumption DEF Take, IInv
<1>2. call'[M].at = "idle"
  BY <1>1, IdleOK
<1> QED
  BY <1>2 DEF Take, IInv, MatOK, Fields

LEMMA EstimateListedMat ==
  ASSUME IInv, MatInv, EstimateListed
  PROVE  MatInv'
<1>1. /\ DOMAIN mat = Fields /\ mat.phase = "estimate" /\ mat.at = "list" /\ archive' = archive
      /\ call[M].at # "idle" /\ call'[M].at = "idle"
  BY TakeFacts DEF EstimateListed, Working
<1>2. mat.n <= Len(Wanted) /\ mat.v <= Len(Versions[Name])
  BY <1>1 DEF MatInv, PlaceOK
<1>3. CASE Size = 0
  <2>1. mat' = NextName(mat)
    BY <1>3 DEF EstimateListed
  <2> QED
    BY <1>1, <1>2, <2>1, NextNameMat
<1>4. CASE Size # 0
  <2>1. /\ mat'.phase = "estimate" /\ mat'.at = "size" /\ mat'.n = mat.n /\ mat'.v = mat.v
        /\ mat'.total = mat.total /\ mat'.asked = mat.asked
        /\ mat'.extracted = mat.extracted /\ mat'.missing = mat.missing
    BY <1>1, <1>4 DEF EstimateListed, Fields
  <2>2. Name' = Name /\ Size' = Size
    BY <1>1, <2>1 DEF Name, Size, Path
  <2>3. Size \in Nat /\ mat.n \in Nat
    <3>1. Path \in Paths
      BY <1>2, PathAsked DEF IInv
    <3> QED
      BY <3>1, ArchiveType, WantedType DEF MatInv, PlaceOK, Size
  <2>4. PlaceOK'
    BY <1>1, <1>2, <1>4, <2>1, <2>2, <2>3 DEF MatInv, PlaceOK
  <2>5. EstimateOK'
    BY <1>1, <2>1, <2>3, EstimateKept DEF MatInv
  <2>6. FetchOK'
    BY <1>1, <2>1, FetchKept DEF MatInv
  <2> QED
    BY <2>4, <2>5, <2>6 DEF MatInv
<1> QED
  BY <1>3, <1>4

LEMMA NextPlace ==
  ASSUME NEW n \in DOMAIN Wanted
  PROVE  /\ n \in Nat \ {0} /\ n <= Len(Wanted) /\ n + 1 \in 1 .. Len(Wanted) + 1 /\ n + 1 \in Nat /\ n < n + 1
         /\ (n + 1) - 1 = n
<1>1. PICK l \in Nat : l = Len(Wanted)
  BY WantedType
<1>2. n \in 1 .. l
  BY <1>1, WantedType
<1>3. n \in Nat \ {0} /\ n <= l /\ n + 1 \in 1 .. l + 1 /\ n + 1 \in Nat /\ n < n + 1 /\ (n + 1) - 1 = n
  BY <1>2
<1> QED
  BY <1>1, <1>3

LEMMA SizedMat ==
  ASSUME IInv, MatInv, Sized
  PROVE  MatInv'
<1>1. /\ DOMAIN mat = Fields /\ mat.phase = "estimate" /\ mat.at = "size" /\ archive' = archive
      /\ call'[M].at = "idle"
  BY TakeFacts DEF Sized, Working
<1>2. PICK got \in {"size", "no_length", "error_page"} :
        mat' = [NextName(mat) EXCEPT !.total = IF got = "size" THEN @ + Size ELSE @,
                                     !.asked = @ \cup {<<mat.n, Path, got>>}]
  BY DEF Sized
<1>3. /\ mat'.phase = "estimate" /\ mat'.at = "list" /\ mat'.n = mat.n + 1 /\ mat'.v = 1
      /\ mat'.total = (IF got = "size" THEN mat.total + Size ELSE mat.total)
      /\ mat'.asked = mat.asked \cup {<<mat.n, Path, got>>}
      /\ mat'.extracted = mat.extracted /\ mat'.missing = mat.missing
  <2>1. /\ DOMAIN NextName(mat) = Fields /\ NextName(mat).n = mat.n + 1 /\ NextName(mat).v = 1
        /\ NextName(mat).phase = mat.phase /\ NextName(mat).at = "list"
        /\ NextName(mat).total = mat.total /\ NextName(mat).asked = mat.asked
        /\ NextName(mat).extracted = mat.extracted /\ NextName(mat).missing = mat.missing
    BY <1>1 DEF NextName, Fields
  <2>2. PICK total : total = IF got = "size" THEN mat.total + Size ELSE mat.total
    OBVIOUS
  <2>3. PICK asked : asked = mat.asked \cup {<<mat.n, Path, got>>}
    OBVIOUS
  <2>4. mat' = [NextName(mat) EXCEPT !.total = total, !.asked = asked]
    BY <1>2, <2>1, <2>2, <2>3
  <2>5. /\ mat'.n = mat.n + 1 /\ mat'.v = 1 /\ mat'.phase = mat.phase /\ mat'.at = "list"
        /\ mat'.total = total /\ mat'.asked = asked
        /\ mat'.extracted = mat.extracted /\ mat'.missing = mat.missing
    BY <2>1, <2>4 DEF Fields
  <2> QED
    BY <1>1, <2>2, <2>3, <2>5
<1>4. /\ mat.n \in DOMAIN Wanted /\ Name = Wanted[mat.n] /\ Fetchable(Name) /\ Newest(Name) = Path
      /\ Bytes[mat.n] = Size /\ Size \in Nat
  BY <1>1, AtFile DEF MatInv
<1>5. mat.n \in Nat \ {0} /\ mat'.n \in 1 .. Len(Wanted) + 1 /\ mat'.n \in Nat /\ mat.n < mat'.n
  <2>1. mat'.n = mat.n + 1
    BY <1>3
  <2>2. PICK n \in DOMAIN Wanted : n = mat.n
    BY <1>4
  <2> QED
    BY <2>1, <2>2, NextPlace
<1>6. PlaceOK'
  BY <1>1, <1>3, <1>5 DEF MatInv, PlaceOK
<1>7. Bytes' = Bytes /\ \A b : Fetchable(b)' = Fetchable(b) /\ Newest(b)' = Newest(b)
  BY <1>1, SameArchive
<1>8. mat.n \notin Known /\ Known \subseteq DOMAIN Wanted
  <2>1. \A a \in mat.asked : a[1] \in DOMAIN Wanted /\ a[1] < mat.n
    BY <1>1 DEF MatInv, EstimateOK
  <2>2. \A n \in DOMAIN Wanted : n \in Nat
    BY WantedType
  <2>3. ~(mat.n < mat.n)
    BY <1>5
  <2>4. \A n \in Known : n < mat.n
    BY <2>1 DEF Known
  <2> QED
    BY <2>3, <2>4 DEF Known
<1>9. Known' = IF got = "size" THEN Known \cup {mat.n} ELSE Known
  <2>1. Known' = {n \in DOMAIN Wanted : Fetchable(Wanted[n]) /\ <<n, Newest(Wanted[n]), "size">> \in mat'.asked}
    BY <1>7 DEF Known
  <2> QED
    BY <1>3, <1>4, <2>1 DEF Known
<1>10. mat'.total = SumFunctionOnSet(Bytes, Known')
  <2>1. IsFiniteSet(Known)
    BY <1>8, WantedType, FS_Subset
  <2>2. \A n \in Known \cup {mat.n} : Bytes[n] \in Nat
    BY <1>4, <1>8, BytesType DEF MatInv, PlaceOK
  <2>3. SumFunctionOnSet(Bytes, Known) \in Nat
    BY <2>1, <2>2, SumNat
  <2>4. SumFunctionOnSet(Bytes, Known \cup {mat.n}) = Bytes[mat.n] + SumFunctionOnSet(Bytes, Known)
    <3>1. PICK S : S = Known
      OBVIOUS
    <3>2. PICK f : f = Bytes
      OBVIOUS
    <3>3. PICK n : n = mat.n
      OBVIOUS
    <3>4. IsFiniteSet(S) /\ n \notin S /\ \A k \in S \cup {n} : f[k] \in Int
      BY <1>8, <2>1, <2>2, <3>1, <3>2, <3>3
    <3> QED
      BY <3>1, <3>2, <3>3, <3>4, SumAdd
  <2>5. mat.total = SumFunctionOnSet(Bytes, Known)
    BY DEF MatInv, EstimateOK
  <2>6. CASE got = "size"
    BY <1>3, <1>4, <1>9, <2>3, <2>4, <2>5, <2>6
  <2>7. CASE got # "size"
    BY <1>3, <1>9, <2>5, <2>7
  <2> QED
    BY <2>6, <2>7
<1>11. EstimateOK'
  <2>1. \A a \in mat.asked : a[1] \in DOMAIN Wanted /\ Fetchable(Wanted[a[1]]) /\ a[1] < mat.n
    BY <1>1 DEF MatInv, EstimateOK
  <2>2. ASSUME NEW a \in mat'.asked
        PROVE  a[1] \in DOMAIN Wanted /\ Fetchable(Wanted[a[1]])' /\ a[1] < mat'.n
    <3>1. CASE a \in mat.asked
      <4>1. a[1] \in DOMAIN Wanted /\ Fetchable(Wanted[a[1]]) /\ a[1] < mat.n
        BY <2>1, <3>1
      <4>2. PICK n \in DOMAIN Wanted : n = a[1]
        BY <4>1
      <4>3. n < mat'.n
        BY <1>3, <1>5, <4>1, <4>2, NextPlace
      <4> QED
        BY <1>7, <4>1, <4>2, <4>3
    <3>2. CASE a = <<mat.n, Path, got>>
      <4>1. a[1] = mat.n
        BY <3>2
      <4> QED
        BY <1>4, <1>5, <1>7, <4>1
    <3> QED
      BY <1>3, <3>1, <3>2
  <2> QED
    BY <1>3, <1>7, <1>10, <2>2 DEF EstimateOK
<1>12. FetchOK'
  BY <1>1, <1>3, FetchKept DEF MatInv
<1> QED
  BY <1>6, <1>11, <1>12 DEF MatInv

\* The walk over the versions begins; it passes on from a package it has dealt with.
LEMMA FetchStarts ==
  ASSUME archive \in Archives, archive' = archive, mat'.phase = "fetch", mat'.n = 1, mat'.v = 1,
         mat'.extracted = <<>>, mat'.missing = <<>>
  PROVE  FetchOK'
<1>1. Bytes' = Bytes /\ Extractable' = Extractable /\ Unavailable' = Unavailable
  BY SameArchive
<1>2. Extractable[0] = <<>> /\ Unavailable[0] = <<>> /\ mat'.n - 1 = 0 /\ 1 .. 0 = {}
  BY ExtractableStep, UnavailableStep
<1>3. Downloaded' = 0
  <2>1. PICK f : f = [n \in DOMAIN mat'.extracted |-> archive'[mat'.extracted[n]]]
    OBVIOUS
  <2>2. DOMAIN f = {}
    BY <2>1
  <2>3. Downloaded' = SumFunctionOnSet(f, {})
    BY <2>1, <2>2 DEF Downloaded, SumFunction
  <2> QED
    BY <2>3, SumEmpty
<1>4. SumFunctionOnSet(Bytes, {}) = 0
  BY SumEmpty
<1>5. Name' \in Names \/ ~(mat'.n <= Len(Wanted))
  BY WantedType DEF Name
<1>6. mat'.n <= Len(Wanted) => \A k \in DOMAIN Versions[Name'] : ~(k < mat'.v)
  BY <1>5, VersionsType
<1>7. DOMAIN mat'.extracted = 1 .. Len(mat'.extracted)
  OBVIOUS
<1> QED
  BY <1>1, <1>2, <1>3, <1>4, <1>6, <1>7 DEF FetchOK

LEMMA FetchMoves ==
  ASSUME NEW n \in DOMAIN Wanted, archive' = archive, mat'.phase = "fetch", mat'.n = n + 1, mat'.v = 1,
         mat'.extracted = Extractable[n], mat'.missing = Unavailable[n],
         DOMAIN mat'.extracted = 1 .. Len(mat'.extracted), Downloaded' = SumFunctionOnSet(Bytes, 1 .. n)
  PROVE  FetchOK'
<1>1. Bytes' = Bytes /\ Extractable' = Extractable /\ Unavailable' = Unavailable
  BY SameArchive
<1>2. mat'.n - 1 = n
  BY NextPlace
<1>3. Name' \in Names \/ ~(mat'.n <= Len(Wanted))
  BY WantedType, NextPlace DEF Name
<1>4. mat'.n <= Len(Wanted) => \A k \in DOMAIN Versions[Name'] : ~(k < mat'.v)
  BY <1>3, VersionsType
<1> QED
  BY <1>1, <1>2, <1>4 DEF FetchOK

LEMMA SumBytes ==
  ASSUME archive \in Archives, NEW n \in DOMAIN Wanted
  PROVE  SumFunctionOnSet(Bytes, 1 .. n - 1) \in Nat
<1>1. 1 .. n - 1 \subseteq DOMAIN Wanted
  BY WantedType, NextPlace
<1>2. \A k \in 1 .. n - 1 : Bytes[k] \in Nat
  BY <1>1, BytesType
<1>3. IsFiniteSet(1 .. n - 1)
  BY <1>1, WantedType, FS_Subset
<1> QED
  BY <1>2, <1>3, SumNat

\* An error ends it.
LEMMA FailedMat ==
  ASSUME MatInv, DOMAIN mat = Fields, mat' = [mat EXCEPT !.phase = "failed"], archive' = archive
  PROVE  MatInv'
<1>1. /\ mat'.phase = "failed" /\ mat'.at = mat.at /\ mat'.n = mat.n /\ mat'.v = mat.v
      /\ mat'.total = mat.total /\ mat'.asked = mat.asked
  BY DEF Fields
<1>2. mat.n \in Nat
  BY WantedType DEF MatInv, PlaceOK
<1>3. PlaceOK'
  BY <1>1 DEF MatInv, PlaceOK
<1>4. EstimateOK'
  BY <1>1, <1>2, EstimateKept DEF MatInv
<1>5. FetchOK'
  BY <1>1 DEF FetchOK
<1> QED
  BY <1>3, <1>4, <1>5 DEF MatInv

LEMMA EstimatedMat ==
  ASSUME IInv, MatInv, Estimated
  PROVE  MatInv'
<1>1. /\ DOMAIN mat = Fields /\ mat.phase = "estimate" /\ mat.at = "list" /\ mat.n > Len(Wanted)
      /\ archive' = archive /\ call' = call
  BY DEF Estimated, Working, clientVars, IInv, MatOK, Fields
<1>2. call[M].at = "idle" /\ mat.n \in Nat
  BY <1>1, WantedType DEF MatInv, PlaceOK
<1>3. CASE OverBudget
  <2>1. /\ mat'.phase = "too_large" /\ mat'.at = mat.at /\ mat'.n = mat.n /\ mat'.v = mat.v
        /\ mat'.total = mat.total /\ mat'.asked = mat.asked
        /\ mat'.extracted = mat.extracted /\ mat'.missing = mat.missing
    BY <1>1, <1>3 DEF Estimated, Fields
  <2>2. PlaceOK'
    BY <1>1, <2>1 DEF MatInv, PlaceOK
  <2>3. EstimateOK'
    BY <1>1, <1>2, <2>1, EstimateKept DEF MatInv
  <2>4. FetchOK'
    BY <2>1 DEF FetchOK
  <2> QED
    BY <2>2, <2>3, <2>4 DEF MatInv
<1>4. CASE ~OverBudget
  <2>1. /\ mat'.phase = "fetch" /\ mat'.at = "list" /\ mat'.n = 1 /\ mat'.v = 1
        /\ mat'.total = mat.total /\ mat'.asked = mat.asked
        /\ mat'.extracted = mat.extracted /\ mat'.missing = mat.missing
    BY <1>1, <1>4 DEF Estimated, Fields
  <2>2. PlaceOK'
    BY <1>1, <1>2, <2>1, WantedType DEF MatInv, PlaceOK
  <2>3. EstimateOK'
    <3>1. mat.total \in Nat
      <4>1. IsFiniteSet(Known) /\ \A n \in Known : Bytes[n] \in Nat
        BY WantedType, BytesType, FS_Subset DEF Known, MatInv, PlaceOK
      <4> QED
        BY <4>1, SumNat DEF MatInv, EstimateOK
    <3>2. mat.total <= Want.max_download_bytes
      BY <1>4, <3>1, MaterializeAssumption DEF OverBudget
    <3>3. mat'.n \in Nat
      BY <2>1
    <3> QED
      BY <1>1, <1>2, <2>1, <3>2, <3>3, EstimateKept DEF MatInv
  <2>4. FetchOK'
    BY <1>1, <2>1, FetchStarts DEF MatInv, PlaceOK, FetchOK
  <2> QED
    BY <2>2, <2>3, <2>4 DEF MatInv
<1> QED
  BY <1>3, <1>4

LEMMA FetchListedMat ==
  ASSUME IInv, MatInv, FetchListed
  PROVE  MatInv'
<1>1. /\ DOMAIN mat = Fields /\ mat.phase = "fetch" /\ mat.at = "list" /\ archive' = archive
      /\ call[M].at # "idle" /\ call'[M].at = "idle"
  BY TakeFacts DEF FetchListed, Working
<1>2. /\ mat.n \in DOMAIN Wanted /\ mat.n <= Len(Wanted) /\ mat.v <= Len(Versions[Name])
      /\ mat.v \in Nat \ {0}
  BY <1>1, WantedType DEF MatInv, PlaceOK
<1>3. /\ mat'.phase = "fetch" /\ mat'.n = mat.n /\ mat'.total = mat.total /\ mat'.asked = mat.asked
      /\ mat'.extracted = mat.extracted /\ mat'.missing = mat.missing
  BY <1>1 DEF FetchListed, NextVersion, Fields
<1>4. Name' = Name
  BY <1>3 DEF Name
<1>5. EstimateOK'
  <2>1. mat.n \in Nat
    BY <1>2, NextPlace
  <2> QED
    BY <1>1, <1>3, <2>1, EstimateKept DEF MatInv
<1>6. CASE Size = 0
  <2>1. mat'.at = "list" /\ mat'.v = mat.v + 1
    BY <1>1, <1>6 DEF FetchListed, NextVersion, Fields
  <2>2. PlaceOK'
    BY <1>1, <1>2, <1>3, <2>1 DEF MatInv, PlaceOK
  <2>3. FetchOK'
    <3>1. Bytes' = Bytes /\ Extractable' = Extractable /\ Unavailable' = Unavailable /\ Downloaded' = Downloaded
      BY <1>1, <1>3, SameArchive DEF Downloaded
    <3>2. ASSUME NEW k \in DOMAIN Versions[Name], k < mat.v + 1 PROVE archive[<<Name, Versions[Name][k]>>] = 0
      <4>1. Name \in Names
        BY <1>2, WantedType DEF Name
      <4>2. k \in Nat
        BY <4>1, VersionsType
      <4>3. CASE k < mat.v
        BY <1>1, <1>2, <4>3 DEF MatInv, FetchOK
      <4>4. CASE k = mat.v
        BY <1>6, <4>4 DEF Size, Path
      <4> QED
        BY <1>2, <3>2, <4>2, <4>3, <4>4
    <3> QED
      BY <1>1, <1>3, <1>4, <2>1, <3>1, <3>2 DEF MatInv, FetchOK
  <2> QED
    BY <1>5, <2>2, <2>3 DEF MatInv
<1>7. CASE Size # 0
  <2>1. mat'.at = "deb" /\ mat'.v = mat.v
    BY <1>1, <1>7 DEF FetchListed, Fields
  <2>2. Size' = Size
    BY <1>1, <1>3, <1>4, <2>1 DEF Size, Path
  <2>3. Size \in Nat
    <3>1. Path \in Paths
      BY <1>2, PathAsked DEF IInv
    <3> QED
      BY <3>1, ArchiveType DEF MatInv, PlaceOK, Size
  <2>4. PlaceOK'
    BY <1>1, <1>2, <1>3, <1>4, <1>7, <2>1, <2>2, <2>3 DEF MatInv, PlaceOK
  <2>5. FetchOK'
    BY <1>1, <1>3, <2>1, FetchKept DEF MatInv
  <2> QED
    BY <1>5, <2>4, <2>5 DEF MatInv
<1> QED
  BY <1>6, <1>7

LEMMA MissingMat ==
  ASSUME IInv, MatInv, Missing
  PROVE  MatInv'
<1>1. /\ DOMAIN mat = Fields /\ mat.phase = "fetch" /\ mat.at = "list" /\ archive' = archive
      /\ call' = call /\ mat.n <= Len(Wanted) /\ mat.v > Len(Versions[Name])
  BY DEF Missing, Working, clientVars, IInv, MatOK, Fields
<1>2. mat.n \in DOMAIN Wanted /\ Name = Wanted[mat.n] /\ Name \in Names /\ mat.v \in Nat
  BY <1>1, WantedType DEF MatInv, PlaceOK, Name
<1>3. call[M].at = "idle"
  BY <1>1, <1>2, VersionsType DEF MatInv, PlaceOK
<1>4. /\ mat'.phase = "fetch" /\ mat'.at = "list" /\ mat'.n = mat.n + 1 /\ mat'.v = 1
      /\ mat'.total = mat.total /\ mat'.asked = mat.asked
      /\ mat'.extracted = mat.extracted /\ mat'.missing = Append(mat.missing, Name)
  BY <1>1 DEF Missing, NextName, Fields
<1>5. PICK n \in DOMAIN Wanted : n = mat.n
  BY <1>2
<1>6. PlaceOK'
  BY <1>1, <1>3, <1>4, <1>5, NextPlace DEF MatInv, PlaceOK
<1>7. EstimateOK'
  <2>1. mat.n \in Nat /\ mat'.n \in Nat
    BY <1>4, <1>5, NextPlace
  <2> QED
    BY <1>1, <1>4, <2>1, EstimateKept DEF MatInv
<1>8. ~Fetchable(Wanted[n])
  <2>1. \A k \in DOMAIN Versions[Name] : k < mat.v
    BY <1>1, <1>2, VersionsType
  <2>2. \A k \in DOMAIN Versions[Name] : archive[<<Name, Versions[Name][k]>>] = 0
    <3>1. \A k \in DOMAIN Versions[Name] : k < mat.v => archive[<<Name, Versions[Name][k]>>] = 0
      BY <1>1 DEF MatInv, FetchOK
    <3> QED
      BY <2>1, <3>1
  <2>3. ASSUME NEW k \in DOMAIN Versions[Name] PROVE ~(archive[<<Name, Versions[Name][k]>>] > 0)
    <3>1. archive[<<Name, Versions[Name][k]>>] = 0 /\ ~(0 > 0)
      BY <2>2
    <3> QED
      BY <3>1
  <2>4. ~Fetchable(Name)
    BY <2>3, Zenon DEF Fetchable
  <2> QED
    BY <1>2, <1>5, <2>4
<1>9. /\ Extractable[n] = Extractable[n - 1] /\ Unavailable[n] = Append(Unavailable[n - 1], Name)
      /\ Bytes[n] = 0
  BY <1>2, <1>5, <1>8, ExtractableStep, UnavailableStep DEF MatInv, PlaceOK, Bytes
<1>10. SumFunctionOnSet(Bytes, 1 .. n) = SumFunctionOnSet(Bytes, 1 .. n - 1)
  BY <1>9, BytesUpTo, SumBytes DEF MatInv, PlaceOK
<1>11. FetchOK'
  <2>1. /\ mat.extracted = Extractable[n - 1] /\ mat.missing = Unavailable[n - 1]
        /\ DOMAIN mat.extracted = 1 .. Len(mat.extracted) /\ Downloaded = SumFunctionOnSet(Bytes, 1 .. n - 1)
    BY <1>1, <1>5 DEF MatInv, FetchOK
  <2>2. Downloaded' = Downloaded
    BY <1>1, <1>4 DEF Downloaded
  <2>3. Downloaded' = SumFunctionOnSet(Bytes, 1 .. n)
    BY <1>10, <2>1, <2>2
  <2>4. /\ mat'.extracted = Extractable[n] /\ mat'.missing = Unavailable[n]
        /\ DOMAIN mat'.extracted = 1 .. Len(mat'.extracted)
    BY <1>4, <1>9, <2>1
  <2> QED
    BY <1>1, <1>4, <1>5, <2>3, <2>4, FetchMoves
<1> QED
  BY <1>6, <1>7, <1>11 DEF MatInv

LEMMA ExtractMat ==
  ASSUME IInv, MatInv, Extract
  PROVE  MatInv'
<1>1. /\ DOMAIN mat = Fields /\ mat.phase = "fetch" /\ mat.at = "extract" /\ archive' = archive
      /\ call' = call /\ call[M].at = "idle"
  BY DEF Extract, Working, IInv, MatOK, Fields
<1>2. /\ mat.n \in DOMAIN Wanted /\ Name = Wanted[mat.n] /\ Name \in Names /\ Path \in Paths
      /\ Fetchable(Name) /\ Newest(Name) = Path /\ Bytes[mat.n] = Size /\ Size = archive[Path]
  BY <1>1, AtFile DEF MatInv, Size
<1>3. PICK n \in DOMAIN Wanted : n = mat.n
  BY <1>2
<1>4. CASE mat' = [mat EXCEPT !.phase = "failed"]
  BY <1>1, <1>3, <1>4, FailedMat
<1>5. CASE mat' = [NextName(mat) EXCEPT !.extracted = Append(@, Path)]
  <2>1. /\ mat'.phase = "fetch" /\ mat'.at = "list" /\ mat'.n = mat.n + 1 /\ mat'.v = 1
        /\ mat'.total = mat.total /\ mat'.asked = mat.asked
        /\ mat'.extracted = Append(mat.extracted, Path) /\ mat'.missing = mat.missing
    BY <1>1, <1>5 DEF NextName, Fields
  <2>2. PlaceOK'
    BY <1>1, <1>3, <2>1, NextPlace DEF MatInv, PlaceOK
  <2>3. EstimateOK'
    <3>1. mat.n \in Nat /\ mat'.n \in Nat
      BY <1>3, <2>1, NextPlace
    <3> QED
      BY <1>1, <2>1, <3>1, EstimateKept DEF MatInv
  <2>4. /\ Extractable[n] = Append(Extractable[n - 1], Path) /\ Unavailable[n] = Unavailable[n - 1]
        /\ Extractable[n - 1] \in Seq(Paths)
    <3>1. n - 1 \in 0 .. Len(Wanted)
      BY NextPlace
    <3> QED
      BY <1>2, <1>3, <3>1, ExtractableStep, UnavailableStep DEF MatInv, PlaceOK
  <2>5. FetchOK'
    <3>1. /\ mat.extracted = Extractable[n - 1] /\ mat.missing = Unavailable[n - 1]
          /\ Downloaded = SumFunctionOnSet(Bytes, 1 .. n - 1)
      BY <1>1, <1>3 DEF MatInv, FetchOK
    <3>2. Downloaded' = archive[Path] + Downloaded /\ Downloaded \in Nat
      BY <1>1, <1>2, <2>1, <2>4, <3>1, DownloadedMore DEF MatInv, PlaceOK
    <3>3. SumFunctionOnSet(Bytes, 1 .. n) = Bytes[n] + SumFunctionOnSet(Bytes, 1 .. n - 1)
      BY BytesUpTo DEF MatInv, PlaceOK
    <3>4. Downloaded' = SumFunctionOnSet(Bytes, 1 .. n)
      BY <1>2, <1>3, <3>1, <3>2, <3>3
    <3>5. mat'.extracted = Extractable[n] /\ mat'.missing = Unavailable[n]
      BY <2>1, <2>4, <3>1
    <3>6. DOMAIN mat'.extracted = 1 .. Len(mat'.extracted)
      BY <1>2, <2>1, <2>4, <3>1
    <3> QED
      BY <1>1, <1>3, <2>1, <3>4, <3>5, <3>6, FetchMoves
  <2> QED
    BY <2>2, <2>3, <2>5 DEF MatInv
<1> QED
  BY <1>4, <1>5 DEF Extract

LEMMA CompleteMat ==
  ASSUME IInv, MatInv, Complete
  PROVE  MatInv'
<1>1. /\ DOMAIN mat = Fields /\ mat.phase = "fetch" /\ archive' = archive /\ mat.n > Len(Wanted)
  BY DEF Complete, Working, IInv, MatOK, Fields
<1>2. /\ mat'.phase = "done" /\ mat'.at = mat.at /\ mat'.n = mat.n /\ mat'.v = mat.v
      /\ mat'.total = mat.total /\ mat'.asked = mat.asked
      /\ mat'.extracted = mat.extracted /\ mat'.missing = mat.missing
  BY <1>1 DEF Complete, Fields
<1>3. mat.n = Len(Wanted) + 1 /\ mat.n \in Nat
  BY <1>1, WantedType DEF MatInv, PlaceOK
<1>4. PlaceOK'
  BY <1>1, <1>2 DEF MatInv, PlaceOK
<1>5. EstimateOK'
  BY <1>1, <1>2, <1>3, EstimateKept DEF MatInv
<1>6. FetchOK'
  <2>1. Bytes' = Bytes /\ Extractable' = Extractable /\ Unavailable' = Unavailable /\ Downloaded' = Downloaded
    BY <1>1, <1>2, SameArchive DEF Downloaded
  <2> QED
    BY <1>1, <1>2, <1>3, <2>1 DEF MatInv, FetchOK
<1> QED
  BY <1>4, <1>5, <1>6 DEF MatInv

LEMMA MaterializesMat ==
  ASSUME IInv, MatInv, Materializes
  PROVE  MatInv'
<1>1. CASE AskFiles
  BY <1>1, StayMat DEF AskFiles
<1>2. CASE EstimateListed
  BY <1>2, EstimateListedMat
<1>3. CASE NoVersions
  <2>1. /\ DOMAIN mat = Fields /\ mat' = NextName(mat) /\ archive' = archive /\ mat.phase = "estimate"
        /\ mat.n <= Len(Wanted) /\ call' = call /\ Versions[Name] = <<>>
    BY <1>3 DEF NoVersions, Working, clientVars, IInv, MatOK, Fields
  <2> QED
    BY <2>1, NextNameMat
<1>4. CASE AskSize
  BY <1>4, StayMat DEF AskSize, Working
<1>5. CASE Sized
  BY <1>5, SizedMat
<1>6. CASE Estimated
  BY <1>6, EstimatedMat
<1>7. CASE FetchListed
  BY <1>7, FetchListedMat
<1>8. CASE Missing
  BY <1>8, MissingMat
<1>9. CASE FetchDeb
  BY <1>9, StayMat DEF FetchDeb, Working
<1>10. CASE Fetched
  <2>1. /\ DOMAIN mat = Fields /\ mat.phase = "fetch" /\ mat.at = "deb" /\ archive' = archive
        /\ mat' = [mat EXCEPT !.at = "extract"]
    BY <1>10, TakeFacts DEF Fetched, Working
  <2>2. /\ mat'.phase = mat.phase /\ mat'.at = "extract" /\ mat'.n = mat.n /\ mat'.v = mat.v
        /\ mat'.total = mat.total /\ mat'.asked = mat.asked
        /\ mat'.extracted = mat.extracted /\ mat'.missing = mat.missing
    BY <2>1 DEF Fields
  <2>3. Name' = Name /\ Size' = Size /\ mat.n \in Nat
    BY <2>1, <2>2, WantedType DEF Name, Size, Path, MatInv, PlaceOK
  <2>4. PlaceOK'
    BY <2>1, <2>2, <2>3 DEF MatInv, PlaceOK
  <2>5. EstimateOK'
    BY <2>1, <2>2, <2>3, EstimateKept DEF MatInv
  <2>6. FetchOK'
    BY <2>1, <2>2, FetchKept DEF MatInv
  <2> QED
    BY <2>4, <2>5, <2>6 DEF MatInv
<1>11. CASE Extract
  BY <1>11, ExtractMat
<1>12. CASE Complete
  BY <1>12, CompleteMat
<1>13. CASE CallFails
  BY <1>13, TakeFacts, FailedMat DEF CallFails
<1> QED
  BY <1>1, <1>2, <1>3, <1>4, <1>5, <1>6, <1>7, <1>8, <1>9, <1>10, <1>11, <1>12, <1>13 DEF Materializes

LEMMA InitMat == ASSUME Init PROVE MatInv
<1>1. archive \in Archives /\ mat = Start /\ call[M].at = "idle"
  BY MaterializeAssumption DEF Init, ClientInit, Idle
<1>2. /\ mat.phase = (IF Want.max_download_bytes # 0 THEN "estimate" ELSE "fetch") /\ mat.at = "list"
      /\ mat.n = 1 /\ mat.v = 1 /\ mat.total = 0 /\ mat.missing = <<>> /\ mat.extracted = <<>> /\ mat.asked = {}
  BY <1>1 DEF Start
<1>3. PlaceOK
  BY <1>1, <1>2, WantedType DEF PlaceOK
<1>4. EstimateOK
  <2>1. Known = {}
    BY <1>2 DEF Known
  <2>2. SumFunctionOnSet(Bytes, Known) = 0
    BY <2>1, SumEmpty
  <2> QED
    BY <1>2, <2>2, MaterializeAssumption DEF EstimateOK
<1>5. FetchOK
  <2>1. Extractable[0] = <<>> /\ Unavailable[0] = <<>> /\ mat.n - 1 = 0 /\ 1 .. 0 = {}
    BY <1>1, <1>2, ExtractableStep, UnavailableStep
  <2>2. Downloaded = 0
    <3>1. PICK f : f = [n \in DOMAIN mat.extracted |-> archive[mat.extracted[n]]]
      OBVIOUS
    <3>2. DOMAIN f = {}
      BY <1>2, <3>1
    <3>3. Downloaded = SumFunctionOnSet(f, {})
      BY <3>1, <3>2 DEF Downloaded, SumFunction
    <3> QED
      BY <3>3, SumEmpty
  <2>3. SumFunctionOnSet(Bytes, {}) = 0
    BY SumEmpty
  <2>4. mat.n <= Len(Wanted) => \A k \in DOMAIN Versions[Name] : ~(k < mat.v)
    BY <1>2, WantedType, VersionsType DEF Name
  <2> QED
    BY <1>2, <2>1, <2>2, <2>3, <2>4 DEF FetchOK
<1> QED
  BY <1>3, <1>4, <1>5 DEF MatInv

LEMMA NextMat == ASSUME IInv, MatInv, [Next]_vars PROVE MatInv'
<1>1. CASE Materializes
  BY <1>1, MaterializesMat
<1>2. ASSUME NEW p \in Procs, ClientStep(p), UNCHANGED <<archive, mat>>
      PROVE  MatInv'
  <2>1. Effect(p) /\ call[p].at # "idle"
    BY <1>2, ClientStepEffect
  <2>2. CASE p = M
    BY <1>2, <2>1, <2>2, StayMat
  <2>3. CASE p # M
    <3>1. call'[M] = call[M]
      BY <2>1, <2>3, MaterializeAssumption DEF Effect, Moves
    <3> QED
      BY <1>2, <3>1, StayMat
  <2> QED
    BY <2>2, <2>3
<1>3. ASSUME NEW p \in Procs \ {M}, OtherCalls(p), UNCHANGED <<archive, mat>>
      PROVE  MatInv'
  <2>1. Effect(p)
    <3>1. CASE \E a \in OtherPaths : Api(p, a)
      BY <1>3, <3>1, ApiEffect, MaterializeAssumption
    <3>2. CASE Return(p)
      BY <1>3, <3>2, IdleEffect DEF Return
    <3> QED
      BY <1>3, <3>1, <3>2 DEF OtherCalls
  <2>2. call'[M] = call[M]
    BY <1>3, <2>1, MaterializeAssumption DEF Effect, Moves
  <2> QED
    BY <1>3, <2>2, StayMat
<1>4. CASE Tick /\ UNCHANGED <<archive, mat>>
  BY <1>4, StayMat DEF Tick
<1>5. CASE UNCHANGED vars
  BY <1>5, StayMat DEF vars, clientVars
<1> QED
  BY <1>1, <1>2, <1>3, <1>4, <1>5 DEF Next

\* The estimate is the sum of the sizes seen, and what is extracted or missing is what the packages
\* so far give, in every state of materialize (materialize.cpp:75-158).
THEOREM MaterializeLoops == Spec => []MatInv
<1>1. Init => MatInv
  BY InitMat
<1>2. IInv /\ MatInv /\ [Next]_vars => MatInv'
  BY NextMat
<1> QED
  BY <1>1, <1>2, MaterializeInvariance, PTL DEF Spec

\* Every package of a complete release is extracted in its newest version that has a file, or
\* listed as missing when none has (materialize.cpp:26-48, 137-158).
THEOREM NothingLeftOut == Spec => []ExtractedOrMissing
<1>1. MatInv => ExtractedOrMissing
  <2> SUFFICES ASSUME MatInv, mat.phase = "done"
               PROVE  mat.extracted = Extractable[Len(Wanted)] /\ mat.missing = Unavailable[Len(Wanted)]
    BY DEF ExtractedOrMissing
  <2>1. mat.n - 1 = Len(Wanted)
    BY WantedType DEF MatInv, FetchOK
  <2> QED
    BY <2>1 DEF MatInv, FetchOK
<1> QED
  BY <1>1, MaterializeLoops, PTL

\* The download of a release goes over its budget by at most the packages the estimate did not
\* see (materialize.cpp:75-104, 127-136).
THEOREM DownloadBounded == Spec => []BudgetBinds
<1>1. MatInv => BudgetBinds
  <2> SUFFICES ASSUME MatInv, mat.phase = "done", Want.max_download_bytes # 0
               PROVE  Downloaded <= Want.max_download_bytes + UnseenBytes
    BY DEF BudgetBinds
  <2> DEFINE Rest == {n \in DOMAIN Wanted : ~Fetchable(Wanted[n])}
             D == DOMAIN Wanted
             max == Want.max_download_bytes
  <2>1. /\ IsFiniteSet(D) /\ D = 1 .. Len(Wanted) /\ Len(Wanted) \in Nat /\ Bytes \in [D -> Nat]
        /\ max \in Nat
    BY WantedType, BytesType, MaterializeAssumption DEF MatInv, PlaceOK
  <2>2. /\ Known \subseteq D /\ Unseen \subseteq D /\ Rest \subseteq D
        /\ Known \cap Unseen = {} /\ (Known \cup Unseen) \cap Rest = {} /\ D = (Known \cup Unseen) \cup Rest
    BY DEF Known, Unseen
  <2>3. IsFiniteSet(Known) /\ IsFiniteSet(Unseen) /\ IsFiniteSet(Rest) /\ IsFiniteSet(Known \cup Unseen)
    BY <2>1, <2>2, FS_Subset, FS_Union
  <2>4. SumFunctionOnSet(Bytes, D) = Downloaded
    <3>1. mat.n - 1 = Len(Wanted)
      BY WantedType DEF MatInv, FetchOK
    <3> QED
      BY <2>1, <3>1 DEF MatInv, FetchOK
  <2>5. SumFunctionOnSet(Bytes, Known) <= max
    BY DEF MatInv, EstimateOK
  <2>6. SumFunctionOnSet(Bytes, Unseen) = UnseenBytes
    <3>1. PICK f : f = [n \in Unseen |-> archive[Newest(Wanted[n])]]
      OBVIOUS
    <3>2. \A n \in Unseen : Bytes[n] = f[n]
      BY <3>1 DEF Bytes, Unseen
    <3>3. SumFunctionOnSet(Bytes, Unseen) = SumFunctionOnSet(f, Unseen)
      BY <2>3, <3>2, SumSame
    <3> QED
      BY <3>1, <3>3 DEF UnseenBytes
  <2>7. SumFunctionOnSet(Bytes, Rest) = 0
    <3>1. \A n \in Rest : Bytes[n] = 0
      BY DEF Bytes
    <3> HIDE DEF Rest
    <3> QED
      BY <2>3, <3>1, SumZero
  <2> HIDE DEF Rest, D, max
  <2>8. \A n \in (Known \cup Unseen) \cup Rest : Bytes[n] \in Int
    BY <2>1, <2>2
  <2>9. SumFunctionOnSet(Bytes, D) = SumFunctionOnSet(Bytes, Known \cup Unseen) + SumFunctionOnSet(Bytes, Rest)
    BY <2>2, <2>3, <2>8, SumUnion
  <2>10. SumFunctionOnSet(Bytes, Known \cup Unseen) = SumFunctionOnSet(Bytes, Known) + SumFunctionOnSet(Bytes, Unseen)
    BY <2>2, <2>3, <2>8, SumUnion
  <2>11. SumFunctionOnSet(Bytes, Known) \in Int /\ SumFunctionOnSet(Bytes, Unseen) \in Int
    BY <2>3, <2>8, SumType
  <2>12. Downloaded = SumFunctionOnSet(Bytes, Known) + UnseenBytes
    BY <2>4, <2>6, <2>7, <2>9, <2>10, <2>11
  <2> QED
    BY <2>1, <2>5, <2>6, <2>11, <2>12 DEF max
<1> QED
  BY <1>1, MaterializeLoops, PTL
=============================================================================
