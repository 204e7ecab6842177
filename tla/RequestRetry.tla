---------------------------- MODULE RequestRetry ----------------------------
(***************************************************************************)
(* request_with_retry: one call of CustomClient.get, post, put, patch or   *)
(* delete, with the requests it sends, the replies it gets and the pauses  *)
(* it makes, up to the class that get_resources_by_ids gives its failure.  *)
(*                                                                         *)
(* Time is in seconds since the call began.  A reply carries a status and  *)
(* the seconds its header asks for (x-ratelimit-reset of a 429,            *)
(* Retry-After of an overload status), or Absent, or Garbled.              *)
(***************************************************************************)
EXTENDS Integers, Sequences

CONSTANTS
  RetryTimeout,    \* http_client_retry_timeout
  Asked,           \* seconds a header may ask for
  Latencies,       \* how long a request may take
  Replies,         \* statuses the API answers with
  NoReply          \* a request may end in a transport error or a timeout

\* Headers and outcomes that are not numbers of seconds and not statuses.
Absent  == -1
Garbled == -2
None    == 0
Limit   == 1
NoAnswer == 2

ASSUME RetryAssumption ==
  /\ RetryTimeout \in Nat \ {0}
  /\ Asked \subseteq Nat /\ Latencies \subseteq Nat
  /\ Replies \subseteq 100..599
  /\ NoReply \in BOOLEAN

max_retries     == 3
default_backoff == 5
_OVERLOAD_STATUSES         == {502, 503, 504, 512}
_OVERLOAD_BACKOFF_SCHEDULE == <<30, 60, 120>>

\* Requests are counted to one past what the calls send.
RequestsCap == max_retries + 2

VARIABLES
  now,           \* seconds since the call began
  retry_count,
  phase,         \* "ready" (at the loop's test), "sent", "returned"
  outcome,       \* what the call returned or raised: a status, Limit for the
                 \* plain Exception at the end, NoAnswer, None before
  requests,      \* requests sent so far
  last,          \* the last reply
  backoff        \* the longest pause the schedule made so far

vars == <<now, retry_count, phase, outcome, requests, last, backoff>>

Init ==
  /\ now = 0 /\ retry_count = 0 /\ phase = "ready" /\ outcome = None
  /\ requests = 0 /\ last = None /\ backoff = 0

\* The loop's test.
Send ==
  /\ phase = "ready"
  /\ now < RetryTimeout /\ retry_count <= max_retries
  /\ phase' = "sent"
  /\ requests' = IF requests < RequestsCap THEN requests + 1 ELSE requests
  /\ UNCHANGED <<now, retry_count, outcome, last, backoff>>

GiveUp ==
  /\ phase = "ready"
  /\ ~(now < RetryTimeout /\ retry_count <= max_retries)
  /\ phase' = "returned" /\ outcome' = Limit
  /\ UNCHANGED <<now, retry_count, requests, last, backoff>>

Scheduled ==
  LET end == Len(_OVERLOAD_BACKOFF_SCHEDULE)
  IN _OVERLOAD_BACKOFF_SCHEDULE[IF retry_count + 1 < end THEN retry_count + 1
                                                         ELSE end]

\* The pause before the next request.
Pause(status, header) ==
  CASE status \in {429} \cup _OVERLOAD_STATUSES /\ header \in Nat -> header
    [] status \in _OVERLOAD_STATUSES /\ header \notin Nat -> Scheduled
    [] OTHER -> retry_count * default_backoff

\* The branch's own bound on the number of retries.
TooOften(status, header) ==
  CASE status = 429 /\ header # Absent -> FALSE
    [] status \in _OVERLOAD_STATUSES   ->
         retry_count >= Len(_OVERLOAD_BACKOFF_SCHEDULE)
    [] OTHER                           -> retry_count + 1 >= max_retries

\* (X_... is a faulty variant of X that a property below catches.)
TooLong_Never(status, header, time) == FALSE

\* The pause would end after the call's time.
TooLong(status, header, time) == Pause(status, header) + time > RetryTimeout

Retried(status) == status = 429 \/ status >= 500

Counted(status) == retry_count + 1

Raise(status) ==
  /\ phase' = "returned" /\ outcome' = status
  /\ UNCHANGED <<retry_count, backoff>>

Reply(status, header, took) ==
  /\ phase = "sent"
  /\ last' = status
  /\ \/ /\ \/ ~Retried(status)
           \/ TooLong(status, header, now + took)
           \/ TooOften(status, header)
        /\ Raise(status)
        /\ now' = now + took
     \/ /\ Retried(status)
        /\ ~TooLong(status, header, now + took) /\ ~TooOften(status, header)
        /\ now' = now + took + Pause(status, header)
        /\ retry_count' = Counted(status)
        /\ phase' = "ready"
        /\ backoff' = IF status \in _OVERLOAD_STATUSES /\ header \notin Nat
                      THEN Pause(status, header) ELSE backoff
        /\ UNCHANGED outcome
  /\ UNCHANGED requests

\* A transport error and a read timeout are not caught.
Transport(took) ==
  /\ NoReply /\ phase = "sent"
  /\ now' = now + took
  /\ last' = NoAnswer
  /\ Raise(NoAnswer)
  /\ UNCHANGED requests

Headers(status) ==
  IF status = 429 \/ status \in _OVERLOAD_STATUSES
    THEN Asked \cup {Absent, Garbled}
    ELSE {Absent}

Answered ==
  \E took \in Latencies :
    \/ \E status \in Replies : \E header \in Headers(status) :
         Reply(status, header, took)
    \/ Transport(took)

Returned == phase = "returned" /\ UNCHANGED vars

Next == Send \/ GiveUp \/ Answered \/ Returned

\* Every request is answered or times out (ClientTimeout.sock_read).
Fairness == WF_vars(Send \/ GiveUp \/ Answered)

Spec == Init /\ [][Next]_vars /\ Fairness

-----------------------------------------------------------------------------
(* get_resources_by_ids: the class of the outcome of one GET.              *)

Class_ByStatus(o) ==
  CASE o = 200 -> "ok"
    [] o = 404 -> "missing"
    [] o = NoAnswer \/ Retried(o) -> "transient"
    [] OTHER -> "permanent"

Class(o) ==
  CASE o = 200 -> "ok"
    [] o = 404 -> "missing"
    [] o \in {NoAnswer, Limit} \/ Retried(o) -> "transient"
    [] OTHER -> "permanent"

-----------------------------------------------------------------------------
(* Properties.                                                             *)

\* Every variable keeps its type.
TypeOK ==
  /\ {now, retry_count, requests, backoff} \subseteq Nat
  /\ retry_count \in 0..max_retries + 1
  /\ phase \in {"ready", "sent", "returned"}
  /\ outcome \in Replies \cup {None, Limit, NoAnswer}
  /\ last \in Replies \cup {None, NoAnswer}

\* However the statuses of one call mix, it never sends more than four
\* requests, and never begins one after its time has run out: neither a long
\* x-ratelimit-reset nor a long Retry-After takes it past retry_timeout.
Bounded ==
  /\ requests <= max_retries + 1
  /\ phase = "ready" => now <= RetryTimeout
  /\ phase = "sent" => now < RetryTimeout

\* A call that ends in throttling, in a server error or without a reply is
\* classified transient and no other failure is: the retry limit does not turn
\* sustained throttling into a permanent failure of the resource.
ThrottlingIsTransient ==
  phase = "returned" =>
    (Class(outcome) = "transient" <=> last = NoAnswer \/ Retried(last))

\* The pauses taken from the schedule never get shorter, whatever other
\* statuses are answered in between.
BackoffGrows == [][backoff' >= backoff]_vars
=============================================================================
