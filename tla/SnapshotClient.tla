--------------------------- MODULE SnapshotClient ---------------------------
(***************************************************************************)
(* Processes that call snapshot::Client: get and its attempts, api with    *)
(* the cache on disk that all processes of a study share, download and     *)
(* content_length.                                                         *)
(*                                                                         *)
(* The body of an API answer is the time at which the archive gave it.     *)
(* Time passes while a process waits for the archive or between attempts;  *)
(* what it does on its own machine takes no time beside the six hours of   *)
(* api_cache_ttl.                                                          *)
(***************************************************************************)
EXTENDS Integers, Sequences, FiniteSets

CONSTANTS
  Procs,        \* processes with a client, one call at a time each
  Paths,        \* API paths
  MaxAttempts,  \* Options::max_attempts, 6 in the code
  Ttl,          \* Options::api_cache_ttl
  MaxTime       \* bound on the clock

ASSUME ClientAssumption ==
  /\ MaxAttempts \in Nat \ {0} /\ Ttl \in Nat \ {0} /\ MaxTime \in Nat

VARIABLES
  clock,
  cache,   \* the files api_<hash>.json
  dest,    \* the file a process downloads to
  call     \* the call a process is in

clientVars == <<clock, cache, dest, call>>

\* What comes back for a request: nothing (a transport error), 2xx, 408, 429 or 5xx, 404,
\* another status.
Answers == {"none", "ok", "retryable", "not_found", "refused"}
Absent == [state |-> "absent"]
Cached(b) == [state |-> "file", body |-> b, stored |-> clock]

\* answers is history: what came back, over the attempts of one get.
Idle == [op |-> "none", at |-> "idle", path |-> <<>>, attempt |-> 0, status |-> "none",
         again |-> FALSE, body |-> 0, answers |-> <<>>, result |-> "none"]

ClientInit ==
  /\ clock = 0
  /\ cache = [a \in Paths |-> Absent]
  /\ dest = [p \in Procs |-> "none"]
  /\ call = [p \in Procs |-> Idle]

Set(p, c) == call' = [call EXCEPT ![p] = c]
Finish(p, r) == Set(p, [call[p] EXCEPT !.at = "returned", !.result = r])

Busy(p) == call[p].at \in {"cached", "parse", "store", "verify", "returned"}
Tick ==
  /\ clock < MaxTime /\ \A p \in Procs : ~Busy(p)
  /\ clock' = clock + 1
  /\ UNCHANGED <<cache, dest, call>>
-----------------------------------------------------------------------------
\* api: a file young enough is used.

\* (Seeded fault: a file of any age will do.)
AnyAge(a) == cache[a] # Absent

Fresh(a) == cache[a] # Absent /\ clock - cache[a].stored < Ttl

Api(p, a) ==
  /\ call[p].at = "idle"
  /\ Set(p, [Idle EXCEPT !.op = "api", !.path = a, !.at = IF Fresh(a) THEN "cached" ELSE "get"])
  /\ UNCHANGED <<clock, cache, dest>>

\* The file is opened after it was looked at; another process may have replaced it meanwhile.
ReadCache(p) ==
  /\ call[p].at = "cached"
  /\ Set(p, [call[p] EXCEPT !.at = "returned", !.result = "ok", !.body = cache[call[p].path].body])
  /\ UNCHANGED <<clock, cache, dest>>

\* A file that cannot be read or parsed is passed over.
CacheUnreadable(p) ==
  /\ call[p].at = "cached"
  /\ Set(p, [call[p] EXCEPT !.at = "get"])
  /\ UNCHANGED <<clock, cache, dest>>
-----------------------------------------------------------------------------
\* get.  status is the last one received, and outlives an attempt without an answer.

\* (Seeded fault: an attempt without an answer forgets the status of the one before.)
StatusOfAttempt(c, a) == a

StatusAfter(c, a) == IF a = "none" THEN c.status ELSE a

LastAttempt(c) == c.attempt + 1 = MaxAttempts

AfterAttempt(c, a) ==
  LET d == [c EXCEPT !.attempt = @ + 1, !.answers = Append(@, a), !.status = StatusAfter(c, a)]
      returned(r) == [d EXCEPT !.at = "returned", !.result = r]
  IN  CASE a = "ok" -> [d EXCEPT !.at = IF c.op = "api" THEN "parse" ELSE "verify", !.body = clock]
        [] a = "not_found" -> returned("not_found")
        [] a = "refused" -> returned("http_status")
        [] a \in {"none", "retryable"} ->
             IF ~LastAttempt(c) THEN d
             ELSE returned(IF d.status = "none" THEN "network" ELSE "http_status")

Attempt(p, a) ==
  /\ call[p].at = "get"
  /\ Set(p, AfterAttempt(call[p], a))
  /\ UNCHANGED <<clock, cache, dest>>

\* The rest of api: only a body that is JSON is cached, and a failure to cache it is no error.
Parse(p) ==
  /\ call[p].at = "parse"
  /\ Set(p, [call[p] EXCEPT !.at = "store"])
  /\ UNCHANGED <<clock, cache, dest>>

ParseFails(p) ==
  /\ call[p].at = "parse"
  /\ Finish(p, "parse")
  /\ UNCHANGED <<clock, cache, dest>>

Store(p) ==
  /\ call[p].at = "store"
  /\ \/ cache' = [cache EXCEPT ![call[p].path] = Cached(call[p].body)]
     \/ UNCHANGED cache
  /\ Finish(p, "ok")
  /\ UNCHANGED <<clock, dest>>
-----------------------------------------------------------------------------
\* download: the file may be there already, whole or not.  One that is not is
\* removed, and an error of that is ignored.
Download(p) ==
  /\ call[p].at = "idle"
  /\ Set(p, [Idle EXCEPT !.op = "download", !.at = IF dest[p] = "whole" THEN "returned" ELSE "get",
                         !.result = IF dest[p] = "whole" THEN "ok" ELSE "none"])
  /\ \E left \in {"none", dest[p]} :
       dest' = [dest EXCEPT ![p] = IF @ = "whole" THEN @ ELSE left]
  /\ UNCHANGED <<clock, cache>>

\* (Seeded fault: the file is written in place.)
Partial(d) == "partial"

\* A write that fails leaves what was there.
AfterFailedWrite(d) == d

\* The body has the hash asked for.
Verified(p) ==
  /\ call[p].at = "verify"
  /\ \/ dest' = [dest EXCEPT ![p] = "whole"] /\ Finish(p, "ok")
     \/ dest' = [dest EXCEPT ![p] = AfterFailedWrite(@)] /\ Finish(p, "io")
  /\ UNCHANGED <<clock, cache>>

\* (Seeded fault: the second try is forgotten.)
TryAgain(c) == [c EXCEPT !.at = "get", !.attempt = 0, !.answers = <<>>, !.status = "none"]

SecondTry(c) == [c EXCEPT !.at = "get", !.attempt = 0, !.answers = <<>>, !.status = "none", !.again = TRUE]

\* It has not: one more get, then an error.
Mismatch(p) ==
  /\ call[p].at = "verify"
  /\ IF call[p].again THEN Finish(p, "integrity") ELSE Set(p, SecondTry(call[p]))
  /\ UNCHANGED <<clock, cache, dest>>
-----------------------------------------------------------------------------
\* content_length: one HEAD request, and every answer but 404 is a success.
ContentLength(p) ==
  /\ call[p].at = "idle"
  /\ Set(p, [Idle EXCEPT !.op = "head", !.at = "head"])
  /\ UNCHANGED <<clock, cache, dest>>

\* Only its connection has a time limit: an answer may never come.
HeadAnswered(p, a) ==
  /\ call[p].at = "head"
  /\ Set(p, [call[p] EXCEPT !.at = "returned", !.answers = <<a>>,
               !.result = IF a = "none" THEN "network" ELSE IF a = "not_found" THEN a ELSE "ok"])
  /\ UNCHANGED <<clock, cache, dest>>

\* The caller goes on with the result.
Return(p) ==
  /\ call[p].at = "returned"
  /\ Set(p, Idle)
  /\ UNCHANGED <<clock, cache, dest>>

\* The steps of api and download.
Proceeds(p) ==
  \/ ReadCache(p) \/ CacheUnreadable(p)
  \/ \E a \in Answers : Attempt(p, a)
  \/ Parse(p) \/ ParseFails(p) \/ Store(p)
  \/ Verified(p) \/ Mismatch(p)

ClientStep(p) == Proceeds(p) \/ \E a \in Answers : HeadAnswered(p, a)
-----------------------------------------------------------------------------
Returned(p, op) == call[p].at = "returned" /\ call[p].op = op

\* The kind of a failed request says what happened over all its attempts, in whatever order the
\* answers came: network means that none of the attempts got an answer, http_status that the last
\* answer was an error, not_found a 404; and only lost and retryable answers are retried, at most
\* MaxAttempts - 1 times (client.hpp:51-55, client.cpp:91-136).
ErrorsExplained ==
  \A p \in Procs :
    LET as == call[p].answers
        got == {n \in DOMAIN as : as[n] # "none"}
        asked == call[p].op \in {"api", "download"} /\ as # <<>>
    IN  /\ Len(as) <= MaxAttempts
        /\ \A n \in 1 .. Len(as) - 1 : as[n] \in {"none", "retryable"}
        /\ asked /\ call[p].at = "returned" =>
             CASE call[p].result = "network" -> got = {} /\ Len(as) = MaxAttempts
               [] call[p].result = "not_found" -> as[Len(as)] = "not_found"
               [] call[p].result = "http_status" ->
                    /\ got # {} /\ \A n \in got : as[n] \in {"retryable", "refused"}
                    /\ as[Len(as)] # "refused" => Len(as) = MaxAttempts
               [] OTHER -> as[Len(as)] = "ok"

\* What api returns is younger than the time to live, whichever process cached it and whichever
\* replaced it since it was looked at (client.cpp:138-155).
AnswersAreFresh ==
  \A p \in Procs : Returned(p, "api") /\ call[p].result = "ok" => clock - call[p].body < Ttl

\* After a download the file is there and has the hash asked for, or the download failed and left
\* no file (client.hpp:62-66, client.cpp:157-172).
WholeOrNothing ==
  \A p \in Procs :
    Returned(p, "download") => dest[p] = (IF call[p].result = "ok" THEN "whole" ELSE "none")

\* Every call of api or download returns: the attempts and the tries are counted
\* (client.cpp:95, 166).  A HEAD request need not end.
CallsReturn ==
  \A p \in Procs :
    call[p].at # "idle" /\ call[p].op # "head" ~> call[p].at = "returned"
=============================================================================
