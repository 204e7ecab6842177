---------------------------- MODULE Lists_proofs ----------------------------
(***************************************************************************)
(* What one call of RequestRetry guarantees for every retry_timeout,       *)
(* header and reply; then, that every call of every listing guarantees it: *)
(* a step of the listing is a step of the call under way, the beginning of *)
(* the next one, or leaves the call alone; then, that a listing that is    *)
(* not cut short has every resource, for every page size and length.  Then *)
(* the ordered resources: what Only keeps of a sequence, what merging and  *)
(* placing an order make of it, and that a reported order is the one that  *)
(* the destination has.                                                    *)
(***************************************************************************)
EXTENDS Pagination, Orders, FiniteSetTheorems, SequenceTheorems,
        WellFoundedInduction, TLAPS

-----------------------------------------------------------------------------
(* One call.                                                               *)

\* The longest pause of the schedule that n retries can have taken.
Longest(n) == IF n = 0 THEN 0 ELSE IF n = 1 THEN 30 ELSE IF n = 2 THEN 60 ELSE 120

\* The inductive invariant: one request per retry and one that is under way,
\* a clock within the budget, an outcome that agrees with the last reply, and
\* pauses no longer than the retries made allow.
RetryInv ==
  /\ TypeOK
  /\ phase = "ready" => requests = retry_count /\ now <= RetryTimeout
  /\ phase = "sent" => requests = retry_count + 1 /\ now < RetryTimeout
                       /\ retry_count <= max_retries
  /\ requests <= max_retries + 1
  /\ phase # "returned" => (retry_count = 0 \/ Retried(last))
  /\ phase = "ready" /\ retry_count = 0 => now = 0
  /\ phase = "returned" =>
       \/ outcome = Limit /\ Retried(last)
       \/ outcome = last /\ last # None
  /\ backoff <= Longest(retry_count)

USE DEF max_retries, default_backoff, None, Limit, NoAnswer, Absent, Garbled

\* The schedule's pause is the longest one that the next retry allows.
LEMMA ScheduledIs ==
  ASSUME retry_count \in 0..2
  PROVE  Scheduled = Longest(retry_count + 1) /\ Scheduled \in {30, 60, 120}
<1>1. Len(_OVERLOAD_BACKOFF_SCHEDULE) = 3
  BY DEF _OVERLOAD_BACKOFF_SCHEDULE
<1>2. /\ _OVERLOAD_BACKOFF_SCHEDULE[1] = 30
      /\ _OVERLOAD_BACKOFF_SCHEDULE[2] = 60
      /\ _OVERLOAD_BACKOFF_SCHEDULE[3] = 120
  BY DEF _OVERLOAD_BACKOFF_SCHEDULE
<1>3. CASE retry_count = 0
  BY <1>1, <1>2, <1>3 DEF Scheduled, Longest
<1>4. CASE retry_count = 1
  BY <1>1, <1>2, <1>4 DEF Scheduled, Longest
<1>5. CASE retry_count = 2
  BY <1>1, <1>2, <1>5 DEF Scheduled, Longest
<1>6. QED BY <1>3, <1>4, <1>5

\* A reply that is retried leaves the call at the loop's test, within its time.
LEMMA RetryStep ==
  ASSUME RetryInv,
         NEW code \in Replies, NEW header \in Asked \cup {Absent, Garbled},
         NEW took \in Latencies, Reply(code, header, took),
         Retried(code), ~TooLong(code, header, now + took),
         ~TooOften(code, header),
         retry_count' = retry_count + 1, phase' = "ready",
         now' = now + took + Pause(code, header), outcome' = outcome,
         backoff' = IF code \in _OVERLOAD_STATUSES /\ header \notin Nat
                    THEN Pause(code, header) ELSE backoff
  PROVE  RetryInv' /\ backoff' >= backoff
<1>1. /\ phase = "sent" /\ requests = retry_count + 1 /\ requests' = requests
      /\ now < RetryTimeout /\ retry_count \in 0..3 /\ now \in Nat
      /\ took \in Nat /\ last' = code /\ code \in Nat
      /\ RetryTimeout \in Nat
  BY RetryAssumption DEF RetryInv, TypeOK, Reply
<1>2. CASE code \in _OVERLOAD_STATUSES /\ header \notin Nat
  <2>1. code # 429
    BY <1>2 DEF _OVERLOAD_STATUSES
  <2>2. retry_count < 3
    <3>1. TooOften(code, header) <=> retry_count >= Len(_OVERLOAD_BACKOFF_SCHEDULE)
      BY <1>2, <2>1 DEF TooOften
    <3>2. Len(_OVERLOAD_BACKOFF_SCHEDULE) = 3
      BY DEF _OVERLOAD_BACKOFF_SCHEDULE
    <3>3. QED BY <1>1, <3>1, <3>2
  <2>3. Pause(code, header) = Scheduled
    BY <1>2, <2>1 DEF Pause
  <2>4. Scheduled = Longest(retry_count + 1) /\ Scheduled \in {30, 60, 120}
    BY <1>1, <2>2, ScheduledIs
  <2>5. backoff' = Scheduled
    BY <1>2, <2>3
  <2>6. backoff <= Longest(retry_count) /\ backoff \in Nat
    BY DEF RetryInv, TypeOK
  <2>7. Longest(retry_count) <= Longest(retry_count + 1)
    BY <1>1 DEF Longest
  <2>8. backoff' >= backoff
    BY <2>4, <2>5, <2>6, <2>7, <1>1 DEF Longest
  <2>9. now' = now + took + Scheduled /\ now' <= RetryTimeout /\ now' \in Nat
    BY <1>1, <2>3, <2>4 DEF TooLong
  <2>10. QED
    BY <1>1, <2>2, <2>4, <2>5, <2>8, <2>9 DEF RetryInv, TypeOK
<1>3. CASE ~(code \in _OVERLOAD_STATUSES /\ header \notin Nat)
  <2>1. Pause(code, header) \in Nat
    <3>1. CASE code \in {429} \cup _OVERLOAD_STATUSES /\ header \in Nat
      BY <3>1 DEF Pause
    <3>2. CASE ~(code \in {429} \cup _OVERLOAD_STATUSES /\ header \in Nat)
      <4>1. Pause(code, header) = retry_count * default_backoff
        BY <1>3, <3>2 DEF Pause
      <4>2. QED BY <4>1, <1>1
    <3>3. QED BY <3>1, <3>2
  <2>2. now' <= RetryTimeout /\ now' \in Nat
    BY <1>1, <2>1 DEF TooLong
  <2>3. backoff' = backoff
    BY <1>3
  <2>4. backoff <= Longest(retry_count + 1)
    BY <1>1 DEF RetryInv, TypeOK, Longest
  <2>5. QED
    BY <1>1, <2>2, <2>3, <2>4 DEF RetryInv, TypeOK
<1>4. QED BY <1>2, <1>3

\* No step leaves the invariant or shortens the scheduled pauses.
LEMMA RetryInvStep == RetryInv /\ [Next]_vars => RetryInv' /\ backoff' >= backoff
<1> SUFFICES ASSUME RetryInv, [Next]_vars PROVE RetryInv' /\ backoff' >= backoff
  OBVIOUS
<1>0. backoff \in Nat /\ RetryTimeout \in Nat /\ now \in Nat
  BY RetryAssumption DEF RetryInv, TypeOK
<1>1. CASE Send
  BY <1>0, <1>1 DEF Send, RetryInv, TypeOK, RequestsCap, Retried
<1>2. CASE GiveUp
  BY <1>0, <1>2, RetryAssumption DEF GiveUp, RetryInv, TypeOK, Retried
<1>3. ASSUME NEW took \in Latencies, NEW code \in Replies,
             NEW header \in Headers(code), Reply(code, header, took)
      PROVE  RetryInv' /\ backoff' >= backoff
  <2>1. header \in Asked \cup {Absent, Garbled}
    BY <1>3 DEF Headers
  <2>2. CASE Raise(code) /\ now' = now + took
    <3>1. took \in Nat /\ code \in 100..599
      BY RetryAssumption
    <3>2. QED
      BY <1>0, <1>3, <2>2, <3>1 DEF Raise, Reply, RetryInv, TypeOK
  <2>3. CASE ~(Raise(code) /\ now' = now + took)
    BY <1>3, <2>1, <2>3, RetryStep DEF Reply, Counted
  <2>4. QED BY <2>2, <2>3
<1>4. ASSUME NEW took \in Latencies, Transport(took)
      PROVE  RetryInv' /\ backoff' >= backoff
  <2>1. took \in Nat
    BY RetryAssumption
  <2>2. QED
    BY <1>0, <1>4, <2>1 DEF Transport, Raise, RetryInv, TypeOK
<1>5. CASE UNCHANGED vars
  BY <1>0, <1>5 DEF vars, RetryInv, TypeOK, Retried
<1>6. QED
  BY <1>1, <1>2, <1>3, <1>4, <1>5 DEF Next, Answered, Returned

\* The invariant holds throughout.
LEMMA RetryInvariant == Spec => []RetryInv
<1>1. Init => RetryInv
  BY RetryAssumption DEF Init, RetryInv, TypeOK, Longest
<1>2. QED BY <1>1, RetryInvStep, PTL DEF Spec

\* Every variable keeps its type.
THEOREM TypeOKCorrect == Spec => []TypeOK
<1>1. RetryInv => TypeOK
  BY DEF RetryInv
<1>2. QED BY <1>1, RetryInvariant, PTL

\* However statuses and headers mix, a call sends at most four requests and
\* begins none after retry_timeout.
THEOREM BoundedCorrect == Spec => []Bounded
<1>1. RetryInv => Bounded
  BY DEF RetryInv, Bounded
<1>2. QED BY <1>1, RetryInvariant, PTL

\* The outcome of a call agrees with its last reply, Limit standing for a
\* retried one.
LEMMA OutcomeIsClassified == RetryInv => ThrottlingIsTransient
<1> SUFFICES ASSUME RetryInv, phase = "returned"
             PROVE  Class(outcome) = "transient" <=> last = NoAnswer \/ Retried(last)
  BY DEF ThrottlingIsTransient
<1>1. last \in (100..599) \cup {None, NoAnswer}
  BY RetryAssumption DEF RetryInv, TypeOK
<1>2. CASE outcome = Limit /\ Retried(last)
  BY <1>2 DEF Class, Retried
<1>3. CASE outcome = last /\ last # None
  BY <1>1, <1>3 DEF Class, Retried
<1>4. QED BY <1>2, <1>3 DEF RetryInv

\* get_resources_by_ids takes exactly the calls that end in throttling, in a
\* server error or without a reply for transient failures.
THEOREM ThrottlingIsTransientCorrect == Spec => []ThrottlingIsTransient
  BY OutcomeIsClassified, RetryInvariant, PTL

\* The pauses taken from the schedule never get shorter.
THEOREM BackoffGrowsCorrect == Spec => BackoffGrows
<1>1. RetryInv /\ [Next]_vars => [backoff' >= backoff]_vars
  BY RetryInvStep
<1>2. QED BY <1>1, RetryInvariant, PTL DEF Spec, BackoffGrows

-----------------------------------------------------------------------------
(* The calls of a listing.                                                 *)

\* The inductive invariant of a listing: the call's, and a setting that lets the
\* server answer no more than RequestRetry does.
ListInv == RetryInv /\ setting \in Settings

\* A call that begins satisfies the invariant of a call.
LEMMA NextCallInv == NextCall => RetryInv'
  BY RetryAssumption DEF NextCall, RetryInv, TypeOK, Longest

\* What the listing lets the server answer is an answer of RequestRetry.
LEMMA RequestIsStep ==
  ASSUME setting \in Settings, Request \/ PageReply
  PROVE  [Next]_vars /\ setting' = setting
<1>1. /\ setting.latencies \subseteq Latencies
      /\ setting.replies \subseteq Replies
  BY PaginationAssumption DEF Setting
<1>2. CASE Request
  BY <1>2 DEF Request, Next, serverVars
<1>3. CASE PageReply
  <2>1. setting' = setting
    BY <1>3 DEF PageReply, serverVars
  <2>2. PICK took \in setting.latencies :
          \/ \E code \in setting.replies :
               \E header \in Headers(code) \cap setting.headers :
                 Reply(code, header, took)
          \/ setting.noReply /\ Transport(took)
    BY <1>3 DEF PageReply
  <2>3. took \in Latencies
    BY <1>1
  <2>4. Answered
    BY <1>1, <2>2, <2>3 DEF Answered
  <2>5. QED BY <2>1, <2>4 DEF Next
<1>4. QED BY <1>2, <1>3

\* No step of a listing leaves the invariant.
LEMMA ListStep == ListInv /\ [ListNext]_listVars => ListInv'
<1> SUFFICES ASSUME RetryInv, setting \in Settings, [ListNext]_listVars
             PROVE  RetryInv' /\ setting' \in Settings
  BY DEF ListInv
<1>0. UNCHANGED vars => RetryInv'
  BY RetryInvStep
<1>1. CASE Request \/ PageReply
  BY <1>1, RequestIsStep, RetryInvStep
<1>2. CASE LastPage
  BY <1>0, <1>2 DEF LastPage, serverVars, callVars
<1>3. CASE FullPage
  BY <1>0, <1>3, NextCallInv DEF FullPage, serverVars, callVars
<1>4. CASE FailedPage
  BY <1>4, NextCallInv DEF FailedPage, serverVars
<1>5. CASE RefusedPage
  BY <1>0, <1>5 DEF RefusedPage, serverVars, callVars
<1>6. CASE RaisedPage
  BY <1>0, <1>6 DEF RaisedPage, serverVars, callVars
<1>7. CASE UNCHANGED listVars
  BY <1>0, <1>7 DEF listVars, serverVars, callVars
<1>8. QED
  BY <1>1, <1>2, <1>3, <1>4, <1>5, <1>6, <1>7 DEF ListNext, Step, ListReturned

\* The invariant holds throughout a listing.
LEMMA ListInvariant == ListSpec => []ListInv
<1>1. ListInit => ListInv
  BY RetryAssumption DEF ListInit, Init, ListInv, RetryInv, TypeOK, Longest
<1>2. QED BY <1>1, ListStep, PTL DEF ListSpec

\* No call of a listing sends more than four requests, or begins one after
\* retry_timeout, for any list, paging, header and latency.
THEOREM ListBoundedCorrect == ListSpec => []Bounded
<1>1. ListInv => Bounded
  BY DEF ListInv, RetryInv, Bounded
<1>2. QED BY <1>1, ListInvariant, PTL

\* Every call of a listing ends in a class that its last reply gives it, for
\* any list, paging, header and latency.
THEOREM ListThrottlingIsTransientCorrect == ListSpec => []ThrottlingIsTransient
<1>1. ListInv => ThrottlingIsTransient
  BY OutcomeIsClassified DEF ListInv
<1>2. QED BY <1>1, ListInvariant, PTL

-----------------------------------------------------------------------------
(* What a listing collects.                                                *)

\* A set of naturals has a least member.
LEMMA NatMin ==
  ASSUME NEW T \in SUBSET Nat, T # {}
  PROVE  \E x \in T : \A y \in T : x <= y
<1> DEFINE R == OpToRel(<, Nat)
<1>1. IsWellFoundedOn(R, Nat)
  BY NatLessThanWellFounded
<1>2. \A x, y \in Nat : <<x, y>> \in R <=> x < y
  BY DEF OpToRel
<1> HIDE DEF R
<1>3. \E x \in T : \A y \in T : ~(<<y, x>> \in R)
  BY <1>1, WFMin
<1>4. PICK x \in T : \A y \in T : ~(<<y, x>> \in R)
  BY <1>3
<1>5. ASSUME NEW y \in T PROVE x <= y
  <2>1. x \in Nat /\ y \in Nat
    OBVIOUS
  <2>2. ~(y < x)
    BY <1>2, <1>4, <2>1, Zenon
  <2>3. QED BY <2>1, <2>2
<1>6. QED BY <1>5

\* The smaller page size exists, is at most half the page size, and divides
\* what was attempted.
LEMMA SmallerIs ==
  ASSUME page_size \in Nat, page_size > 1, resources_attempted \in Nat
  PROVE  Smaller \in 1..page_size \div 2 /\ resources_attempted % Smaller = 0
<1> DEFINE half == page_size \div 2
           divisors == {s \in 1..half : resources_attempted % s = 0}
           T == {n \in Nat : half - n \in divisors}
<1>1. half \in Nat /\ half >= 1
  OBVIOUS
<1>2. 1 \in divisors
  BY <1>1
<1> HIDE DEF half
<1>3. half - 1 \in T
  BY <1>1, <1>2
<1>4. PICK x \in T : \A y \in T : x <= y
  BY <1>3, NatMin
<1>5. half - x \in divisors
  BY <1>4
<1>6. ASSUME NEW d \in divisors PROVE d <= half - x
  <2>1. half - d \in T
    BY <1>1
  <2>2. QED BY <1>1, <1>4, <2>1
<1>7. Smaller = CHOOSE s \in divisors : \A d \in divisors : d <= s
  BY DEF Smaller, half
<1> HIDE DEF divisors
<1>8. Smaller \in divisors
  BY <1>5, <1>6, <1>7
<1>9. QED BY <1>8 DEF divisors, half

\* A quotient is a number, and an exact one multiplies back.
LEMMA Quotient ==
  ASSUME NEW n \in Nat, NEW d \in Nat, d > 0
  PROVE  n \div d \in Nat /\ (n % d = 0 => d * (n \div d) = n)
<1>1. n \div d \in Nat
  OBVIOUS
<1>2. n % d = n - d * (n \div d)
  OBVIOUS
<1>3. QED BY <1>1, <1>2

\* Past one multiple of s, a multiple of s is past the next one as well.
LEMMA NextMultiple ==
  ASSUME NEW n \in Nat, NEW s \in Nat, NEW k \in Nat,
         s > 0, n % s = 0, s * k < n
  PROVE  s * (k + 1) <= n
<1>1. PICK q \in Nat : n = s * q
  BY Quotient
<1>2. k < q
  <2> SUFFICES ASSUME q <= k PROVE FALSE
    OBVIOUS
  <2>1. s * q <= s * k
    OBVIOUS
  <2>2. QED BY <1>1, <2>1
<1>3. s * (k + 1) <= s * q
  BY <1>2
<1>4. QED BY <1>1, <1>3

\* A page is finite, no longer than its size, and full before the list's end.
LEMMA PageIs ==
  ASSUME Start \in Nat, page_size \in Nat, total \in Nat
  PROVE  /\ IsFiniteSet(Page) /\ Cardinality(Page) \in Nat
         /\ Start + page_size <= total => Cardinality(Page) = page_size
         /\ ~Partial => Cardinality(Page) = page_size
<1>1. Page \subseteq Start..Start + page_size - 1
  BY DEF Page
<1>2. /\ IsFiniteSet(Start..Start + page_size - 1)
      /\ Cardinality(Start..Start + page_size - 1) = page_size
  BY FS_Interval
<1>3. IsFiniteSet(Page) /\ Cardinality(Page) <= page_size
  BY <1>1, <1>2, FS_Subset
<1>4. Cardinality(Page) \in Nat
  BY <1>3, FS_CardinalityType
<1>5. Start + page_size <= total => Page = Start..Start + page_size - 1
  BY DEF Page
<1>6. QED BY <1>2, <1>3, <1>4, <1>5 DEF Partial

\* What a setting says.
LEMMA SettingIs ==
  ASSUME setting \in Settings
  PROVE  /\ original_page_size \in Nat \ {0}
         /\ Paging \in {"page", "offset", "index"}
         /\ Counting \in {"number", "idx", "none"}
         /\ Paging = "offset" => Counting = "none"
         /\ Paging = "index" => Counting = "idx"
         /\ setting.totals \subseteq Nat
         /\ setting.glitches \in 0..1
<1>1. setting \in Setting
  BY PaginationAssumption
<1>2. setting.style \in Style /\ setting.page_size \in Nat \ {0}
      /\ setting.totals \subseteq 0..MaxTotal /\ setting.glitches \in 0..1
  BY <1>1 DEF Setting
<1>3. QED
  BY <1>2, PaginationAssumption DEF Style, Paging, Counting, original_page_size

\* The number of the next page.
LEMMA PageNumberIs ==
  ASSUME setting \in Settings, NEW i \in Int, i >= -1, NEW size \in Nat,
         NEW number \in Nat
  PROVE  /\ PageNumber(i, size, number) \in Nat
         /\ Paging = "page" => PageNumber(i, size, number) = number + 1
         /\ Paging = "offset" => PageNumber(i, size, number) = number + size
         /\ Paging = "index" => PageNumber(i, size, number) = size * (i + 1)
<1>1. Paging \in {"page", "offset", "index"}
  BY SettingIs
<1>2. i + 1 \in Nat
  OBVIOUS
<1>3. size * (i + 1) \in Nat
  BY <1>2
<1>4. CASE Paging = "page"
  BY <1>4 DEF PageNumber
<1>5. CASE Paging = "offset"
  BY <1>5 DEF PageNumber
<1>6. CASE Paging = "index"
  BY <1>3, <1>6 DEF PageNumber
<1>7. QED BY <1>1, <1>4, <1>5, <1>6

\* The first position of a page.
LEMMA StartIs ==
  ASSUME page_number \in Nat, page_size \in Nat
  PROVE  Start \in Nat
<1>1. page_number * page_size \in Nat
  OBVIOUS
<1>2. QED BY <1>1 DEF Start

\* The page to come back to.
LEMMA ResumeIs ==
  ASSUME page_size \in Nat, page_size > 1, resources_attempted \in Nat
  PROVE  /\ Smaller \in 1..page_size - 1
         /\ Resume \in Int /\ Resume >= -1
         /\ Smaller * (Resume + 1) = resources_attempted
<1>1. Smaller \in 1..page_size \div 2 /\ resources_attempted % Smaller = 0
  BY SmallerIs
<1>2. page_size \div 2 \in Nat /\ page_size \div 2 < page_size
  OBVIOUS
<1>3. Smaller \in Nat /\ Smaller > 0 /\ Smaller < page_size
  BY <1>1, <1>2
<1> DEFINE q == resources_attempted \div Smaller
<1>4. q \in Nat /\ Smaller * q = resources_attempted
  BY <1>1, <1>3, Quotient
<1>5. Resume = q - 1
  BY DEF Resume
<1> HIDE DEF q
<1>6. Resume + 1 = q
  BY <1>4, <1>5
<1>7. QED BY <1>3, <1>4, <1>5, <1>6

\* A full page, with the page size as it is or restored.
LEMMA FullPageIs ==
  ASSUME FullPage, restore_page_size \in BOOLEAN, save_idx \in BOOLEAN
  PROVE  /\ Got({200}) /\ ~Partial
         /\ listed' = listed \cup Page
         /\ resources_attempted' = resources_attempted + Cardinality(Page)
         /\ saved_idx' = saved_idx /\ glitches' = glitches
         /\ UNCHANGED serverVars
         /\ status' \in {"asking", "complete"}
         /\ status' = "asking" => NextCall
         /\ restore_page_size /\ resources_attempted' % original_page_size = 0 =>
              LET number == PageNumber(idx, original_page_size, page_number)
              IN /\ page_size' = original_page_size
                 /\ page_number' = PageNumber(saved_idx, original_page_size, number)
                 /\ idx' = saved_idx + 1
                 /\ ~restore_page_size' /\ save_idx'
                 /\ status' = "complete" =>
                      ~(Remaining(saved_idx, original_page_size, number) > 0)
         /\ ~(restore_page_size /\ resources_attempted' % original_page_size = 0) =>
              /\ page_size' = page_size
              /\ page_number' = PageNumber(idx, page_size, page_number)
              /\ idx' = idx + 1
              /\ restore_page_size' = restore_page_size /\ save_idx' = save_idx
              /\ status' = "complete" =>
                   ~(Remaining(idx, page_size, page_number) > 0)
<1> DEFINE restore == /\ restore_page_size
                      /\ resources_attempted' % original_page_size = 0
           size    == IF restore THEN original_page_size ELSE page_size
           number  == IF restore THEN PageNumber(idx, size, page_number)
                                 ELSE page_number
           i       == IF restore THEN saved_idx ELSE idx
<1>1. /\ Got({200}) /\ ~Partial
      /\ listed' = listed \cup Page
      /\ resources_attempted' = resources_attempted + Cardinality(Page)
      /\ UNCHANGED <<serverVars, saved_idx, glitches>>
      /\ IF status' = "asking" THEN NextCall ELSE UNCHANGED callVars
  BY DEF FullPage
<1>2. /\ Advance(i, size, number)
      /\ restore_page_size' = (restore_page_size /\ ~restore)
      /\ save_idx' = (save_idx \/ restore)
      /\ status' = IF Remaining(i, size, number) > 0 THEN "asking" ELSE "complete"
  BY DEF FullPage
<1>3. CASE restore
  <2>1. size = original_page_size /\ i = saved_idx
        /\ number = PageNumber(idx, original_page_size, page_number)
    BY <1>3
  <2> HIDE DEF size, number, i
  <2>2. /\ page_size' = original_page_size
        /\ page_number' = PageNumber(saved_idx, original_page_size, number)
        /\ idx' = saved_idx + 1
    BY <1>2, <2>1 DEF Advance
  <2>3. ~restore_page_size' /\ save_idx'
    BY <1>2, <1>3
  <2>4. QED BY <1>1, <1>2, <1>3, <2>1, <2>2, <2>3
<1>4. CASE ~restore
  <2>1. size = page_size /\ i = idx /\ number = page_number
    BY <1>4
  <2> HIDE DEF size, number, i
  <2>2. /\ page_size' = page_size
        /\ page_number' = PageNumber(idx, page_size, page_number)
        /\ idx' = idx + 1
    BY <1>2, <2>1 DEF Advance
  <2>3. status' \in {"asking", "complete"}
        /\ (status' = "complete" => ~(Remaining(idx, page_size, page_number) > 0))
    BY <1>2, <2>1
  <2>4. restore_page_size' = restore_page_size /\ save_idx' = save_idx
    BY <1>2, <1>4, Zenon
  <2>5. QED BY <1>1, <1>4, <2>2, <2>3, <2>4
<1>5. QED BY <1>3, <1>4

\* What a server error does to the pages: the one resource is skipped, or the
\* page becomes smaller.
Isolate ==
  /\ page_size = 1 /\ page_size' = page_size
  /\ resources_attempted' = resources_attempted + 1
  /\ restore_page_size' = TRUE
  /\ page_number' = PageNumber(idx, page_size, page_number)
  /\ idx' = idx + 1

Halve ==
  /\ page_size > 1 /\ page_size' = Smaller
  /\ page_number' = PageNumber(Resume, Smaller,
                      PageNumber(Resume, Smaller, page_number))
  /\ idx' = Resume + 1
  /\ UNCHANGED <<resources_attempted, restore_page_size>>

\* A server error, with the resource isolated or the page made smaller.
LEMMA FailedPageIs ==
  ASSUME FailedPage
  PROVE  /\ Got(500..599) /\ NextCall
         /\ glitches' = IF Page \cap bad # {} THEN glitches ELSE glitches + 1
         /\ saved_idx' = Saved /\ save_idx' = FALSE
         /\ UNCHANGED <<serverVars, listed, status>>
         /\ Isolate \/ Halve
<1>1. CASE page_size = 1 /\ resources_attempted' = Isolated
           /\ restore_page_size' = TRUE /\ Advance(idx, page_size, page_number)
  BY <1>1 DEF FailedPage, Advance, Isolated, Isolate
<1>2. CASE /\ page_size > 1
           /\ Advance(Resume, Smaller, PageNumber(Resume, Smaller, page_number))
           /\ UNCHANGED <<resources_attempted, restore_page_size>>
  BY <1>2 DEF FailedPage, Advance, Halve
<1>3. QED BY <1>1, <1>2 DEF FailedPage

\* The variables of the listing that a call for a page leaves alone.
listing == <<setting, total, bad, glitches, page_size, page_number, idx,
             resources_attempted, saved_idx, save_idx, restore_page_size,
             listed, status>>

\* What a step may be, apart from those above.
LEMMA OtherSteps ==
  ASSUME [ListNext]_listVars
  PROVE  \/ UNCHANGED listing
         \/ LastPage \/ FullPage \/ FailedPage
         \/ /\ RefusedPage \/ RaisedPage
            /\ status' \in {"truncated", "raised"} /\ UNCHANGED callVars
            /\ UNCHANGED <<setting, total, bad, glitches, page_size, page_number,
                           idx, resources_attempted, saved_idx, save_idx,
                           restore_page_size, listed>>
<1>1. CASE Request
  BY <1>1 DEF Request, serverVars, pageVars, listing
<1>2. CASE PageReply
  BY <1>2 DEF PageReply, serverVars, pageVars, listing
<1>3. CASE UNCHANGED listVars
  BY <1>3 DEF listVars, serverVars, pageVars, listing
<1>4. CASE RefusedPage
  BY <1>4 DEF RefusedPage, serverVars
<1>5. CASE RaisedPage
  BY <1>5 DEF RaisedPage, serverVars
<1>6. QED
  BY <1>1, <1>2, <1>3, <1>4, <1>5 DEF ListNext, Step, ListReturned

\* What the server may have answered for the page: no bad resource with a 200,
\* and no more errors without one than the setting has.
Answer ==
  status = "asking" /\ phase = "returned" =>
    /\ outcome = 200 => Page \cap bad = {}
    /\ outcome \in 500..599 /\ Page \cap bad = {} => glitches < setting.glitches

\* No step leaves the types.
LEMMA ListTypeStep ==
  ASSUME ListInv, ListTypeOK, Answer, [ListNext]_listVars
  PROVE  ListTypeOK'
<1>0. TypeOK' /\ setting' \in Settings /\ setting \in Settings
  BY ListStep DEF ListInv, RetryInv
<1>1. /\ original_page_size \in Nat \ {0} /\ total \in setting.totals
      /\ setting.totals \subseteq Nat /\ setting.glitches \in 0..1
      /\ page_size \in Nat \ {0} /\ page_size <= original_page_size
      /\ page_number \in Nat /\ resources_attempted \in Nat
      /\ saved_idx \in Nat /\ idx \in Nat
      /\ bad \subseteq 0..total - 1 /\ listed \subseteq 0..total - 1
      /\ glitches \in 0..1
      /\ save_idx \in BOOLEAN /\ restore_page_size \in BOOLEAN
      /\ status \in {"asking", "complete", "truncated", "raised"}
  BY <1>0, SettingIs DEF ListTypeOK
<1>2. total \in Nat /\ Start \in Nat
  BY <1>1, StartIs
<1>3. Page \subseteq 0..total - 1
  BY DEF Page
<1>4. Cardinality(Page) \in Nat
  BY <1>1, <1>2, PageIs
<1>5. setting' = setting => original_page_size' = original_page_size
  BY DEF original_page_size
<1>6. CASE UNCHANGED listing
  BY <1>0, <1>1, <1>6 DEF listing, ListTypeOK, original_page_size
<1>7. CASE LastPage
  BY <1>0, <1>1, <1>3, <1>7 DEF LastPage, serverVars, ListTypeOK, original_page_size
<1>8. CASE FullPage
  <2> DEFINE restore == /\ restore_page_size
                        /\ resources_attempted' % original_page_size = 0
             number == PageNumber(idx, original_page_size, page_number)
  <2>1. number \in Nat /\ PageNumber(saved_idx, original_page_size, number) \in Nat
        /\ PageNumber(idx, page_size, page_number) \in Nat
    <3>1. idx \in Int /\ idx >= -1 /\ saved_idx \in Int /\ saved_idx >= -1
          /\ page_size \in Nat /\ original_page_size \in Nat
      BY <1>1
    <3>2. number \in Nat /\ PageNumber(idx, page_size, page_number) \in Nat
      BY <1>0, <1>1, <3>1, PageNumberIs
    <3> HIDE DEF number
    <3>3. QED BY <1>0, <3>1, <3>2, PageNumberIs
  <2>2. /\ listed' = listed \cup Page
        /\ resources_attempted' \in Nat /\ saved_idx' = saved_idx
        /\ glitches' = glitches /\ total' = total /\ bad' = bad /\ setting' = setting
        /\ status' \in {"asking", "complete"}
    BY <1>1, <1>4, <1>8, FullPageIs DEF serverVars
  <2>3. /\ page_size' \in 1..original_page_size /\ page_number' \in Nat
        /\ idx' \in Nat /\ restore_page_size' \in BOOLEAN /\ save_idx' \in BOOLEAN
    <3>1. CASE restore
      <4>1. /\ page_size' = original_page_size
            /\ page_number' = PageNumber(saved_idx, original_page_size, number)
            /\ idx' = saved_idx + 1 /\ ~restore_page_size' /\ save_idx'
        BY <1>1, <1>8, <3>1, FullPageIs, Zenon
      <4> HIDE DEF number
      <4>2. restore_page_size' \in BOOLEAN /\ save_idx' \in BOOLEAN
        BY <1>8 DEF FullPage
      <4>3. QED BY <1>1, <2>1, <4>1, <4>2
    <3>2. CASE ~restore
      BY <1>1, <1>8, <2>1, <3>2, FullPageIs
    <3>3. QED BY <3>1, <3>2
  <2>4. original_page_size' = original_page_size
    BY <2>2 DEF original_page_size
  <2>5. QED
    BY <1>0, <1>1, <1>3, <2>2, <2>3, <2>4 DEF ListTypeOK
<1>9. CASE FailedPage
  <2>1. /\ saved_idx' = Saved /\ save_idx' = FALSE
        /\ glitches' = IF Page \cap bad # {} THEN glitches ELSE glitches + 1
        /\ UNCHANGED <<serverVars, listed, status>>
        /\ Got(500..599)
    BY <1>9, FailedPageIs
  <2>2. saved_idx' \in Nat
    BY <1>1, <2>1 DEF Saved
  <2>3. glitches' \in 0..1
    BY <1>1, <2>1 DEF Answer, Got
  <2>4. page_size' \in 1..original_page_size /\ page_number' \in Nat /\ idx' \in Nat
        /\ resources_attempted' \in Nat /\ restore_page_size' \in BOOLEAN
    <3>1. CASE Isolate
      <4>1. idx \in Int /\ idx >= -1 /\ page_size \in Nat
        BY <1>1
      <4>2. PageNumber(idx, page_size, page_number) \in Nat
        BY <1>0, <1>1, <4>1, PageNumberIs
      <4>3. QED BY <1>1, <3>1, <4>2 DEF Isolate
    <3>2. CASE Halve
      <4>1. Smaller \in 1..page_size - 1 /\ Resume \in Int /\ Resume >= -1
        BY <1>1, <3>2, ResumeIs DEF Halve
      <4>2. Smaller \in Nat
        BY <1>1, <4>1
      <4> DEFINE number == PageNumber(Resume, Smaller, page_number)
      <4>3. number \in Nat
        BY <1>0, <1>1, <4>1, <4>2, PageNumberIs
      <4> HIDE DEF number
      <4>4. PageNumber(Resume, Smaller, number) \in Nat
        BY <1>0, <4>1, <4>2, <4>3, PageNumberIs
      <4>5. page_number' = PageNumber(Resume, Smaller, number)
        BY <3>2 DEF number, Halve
      <4>6. QED BY <1>1, <3>2, <4>1, <4>4, <4>5 DEF Halve
    <3>3. QED BY <1>9, <3>1, <3>2, FailedPageIs
  <2>5. QED
    BY <1>0, <1>1, <1>5, <2>1, <2>2, <2>3, <2>4 DEF ListTypeOK, serverVars
<1>10. CASE RefusedPage \/ RaisedPage
  <2>1. /\ UNCHANGED <<setting, total, bad, page_size, page_number, idx,
                      resources_attempted, saved_idx, save_idx, restore_page_size,
                      listed, glitches>>
        /\ status' \in {"truncated", "raised"}
    BY <1>10 DEF RefusedPage, RaisedPage, serverVars
  <2>2. QED BY <1>0, <1>1, <1>5, <2>1 DEF ListTypeOK
<1>11. QED BY <1>6, <1>7, <1>8, <1>9, <1>10, OtherSteps

\* The good positions before the next page are listed.
Below == \A p \in 0..total - 1 : p < Start /\ p \notin bad => p \in listed

\* What the server answers is remembered until the listing looks at it.
LEMMA AnswerStep ==
  ASSUME ListInv, Answer, [ListNext]_listVars
  PROVE  Answer'
<1>1. UNCHANGED <<serverVars, pageVars>> =>
        /\ status' = status /\ glitches' = glitches /\ Page' = Page
        /\ bad' = bad /\ setting' = setting
  BY DEF serverVars, pageVars, Page, Start, Paging
<1>2. NextCall => Answer'
  BY DEF NextCall, Answer
<1>3. CASE Request
  <2>1. phase' = "returned" => outcome' = 1
    BY <1>3 DEF Request, Send, GiveUp
  <2>2. QED BY <2>1 DEF Answer
<1>4. CASE PageReply
  <2>1. PICK took \in setting.latencies :
          \/ \E code \in setting.replies :
               /\ MayReply(code)
               /\ \E header \in Headers(code) \cap setting.headers :
                    Reply(code, header, took)
          \/ setting.noReply /\ Transport(took)
    BY <1>4 DEF PageReply
  <2>2. CASE Transport(took)
    BY <2>2 DEF Transport, Raise, Answer
  <2>3. ASSUME NEW code \in setting.replies, NEW header, MayReply(code),
               Reply(code, header, took)
        PROVE  Answer'
    <3>1. phase' = "returned" => outcome' = code
      BY <2>3 DEF Reply, Raise
    <3>2. UNCHANGED <<serverVars, pageVars>>
      BY <1>4 DEF PageReply
    <3>3. /\ code = 200 => Page \cap bad = {}
          /\ code \in 500..599 /\ Page \cap bad = {} => glitches < setting.glitches
      BY <2>3 DEF MayReply
    <3>4. QED BY <1>1, <3>1, <3>2, <3>3 DEF Answer
  <2>4. QED BY <2>1, <2>2, <2>3
<1>5. CASE LastPage \/ RefusedPage \/ RaisedPage
  BY <1>5 DEF LastPage, RefusedPage, RaisedPage, Answer
<1>6. CASE FullPage
  <2>1. status' = "asking" => NextCall
    BY <1>6 DEF FullPage
  <2>2. QED BY <1>2, <2>1 DEF Answer
<1>7. CASE FailedPage
  BY <1>2, <1>7 DEF FailedPage
<1>8. CASE UNCHANGED listVars
  <2>1. UNCHANGED <<serverVars, pageVars>> /\ phase' = phase /\ outcome' = outcome
    BY <1>8 DEF listVars, callVars, vars
  <2>2. QED BY <1>1, <2>1 DEF Answer
<1>9. QED
  BY <1>3, <1>4, <1>5, <1>6, <1>7, <1>8 DEF ListNext, Step, ListReturned

\* What the invariant says of the types, spelled out.
LEMMA ListTypes ==
  ASSUME ListInv, ListTypeOK
  PROVE  /\ setting \in Settings /\ original_page_size \in Nat \ {0}
         /\ total \in Nat /\ bad \subseteq 0..total - 1
         /\ page_size \in Nat \ {0} /\ page_number \in Nat
         /\ idx \in Nat /\ idx \in Int /\ idx >= -1
         /\ saved_idx \in Nat /\ saved_idx \in Int /\ saved_idx >= -1
         /\ resources_attempted \in Nat /\ glitches \in 0..1
         /\ restore_page_size \in BOOLEAN /\ save_idx \in BOOLEAN
<1>1. setting \in Settings
  BY DEF ListInv
<1>2. original_page_size \in Nat \ {0} /\ setting.totals \subseteq Nat
  BY <1>1, SettingIs
<1>3. QED BY <1>1, <1>2 DEF ListTypeOK

\* The pages that follow one another leave no gap.
LEMMA BelowGrows ==
  ASSUME ListTypeOK, ListTypeOK', Below, total' = total, bad' = bad,
         listed \cup (Page \ bad) \subseteq listed', Start \in Nat, Start' \in Nat,
         Start' <= Start + page_size
  PROVE  Below'
<1> SUFFICES ASSUME NEW p \in 0..total - 1, p < Start', p \notin bad
             PROVE  p \in listed'
  BY DEF Below
<1>1. CASE p < Start
  BY <1>1 DEF Below
<1>2. CASE ~(p < Start)
  <2>1. p \in Nat /\ page_size \in Nat
    BY SettingIs DEF ListTypeOK
  <2>2. p \in Page
    BY <1>2, <2>1 DEF Page
  <2>3. QED BY <2>2
<1>3. QED BY <1>1, <1>2

\* The positions of a list come before what is past its end.
LEMMA Before ==
  ASSUME NEW n \in Nat, NEW s \in Nat, s >= n, NEW p \in 0..n - 1
  PROVE  p < s
OBVIOUS

\* Once the pages reach the end of the list, everything good is listed.
LEMMA BelowDone ==
  ASSUME Below', total' \in Nat, Start' \in Nat, Start' >= total'
  PROVE  AllGoodListed'
<1> SUFFICES ASSUME NEW p \in 0..total' - 1, p \notin bad' PROVE p \in listed'
  BY DEF AllGoodListed
<1>1. p < Start'
  BY Before
<1>2. QED BY <1>1 DEF Below

\* A page that is not full reaches the end of the list.
LEMMA LastPageDone ==
  ASSUME ListTypeOK, Below, LastPage
  PROVE  AllGoodListed'
<1>1. total \in Nat /\ page_size \in Nat /\ page_number \in Nat
  BY SettingIs DEF ListTypeOK
<1>2. Start \in Nat /\ Start + page_size > total
  BY <1>1, StartIs, PageIs DEF LastPage, Partial
<1>3. \A p \in 0..total - 1 : p < Start \/ p \in Page
  BY <1>1, <1>2 DEF Page
<1>4. total' = total /\ bad' = bad /\ listed' = listed \cup Page
  BY DEF LastPage, serverVars
<1>5. QED BY <1>3, <1>4 DEF Below, AllGoodListed

\* While no page fails, the pages are full ones in order.
Whole ==
  bad = {} /\ glitches = 0 =>
    /\ page_size = original_page_size /\ ~restore_page_size
    /\ page_number = IF Paging = "page" THEN idx ELSE original_page_size * idx
    /\ Below

\* Before the one bad resource b is isolated: what was attempted is what lies
\* before the next page, and the saved page is the one that b is in.
Ahead(b) ==
  /\ resources_attempted = page_number /\ ~restore_page_size
  /\ save_idx => page_size = original_page_size
  /\ ~save_idx => /\ original_page_size * saved_idx <= b
                  /\ b < original_page_size * (saved_idx + 1)

\* After it: page by page of one resource to the end of the saved page, and in
\* full pages from there.
Behind(b) ==
  IF restore_page_size
    THEN /\ page_size = 1 /\ resources_attempted = page_number
         /\ original_page_size * saved_idx <= b
         /\ b < original_page_size * (saved_idx + 1)
    ELSE page_size = original_page_size

\* Around the one bad resource, when pages are counted by idx.
Around ==
  Paging = "index" /\ glitches = 0 =>
    \A b \in bad :
      bad = {b} =>
        /\ page_number = page_size * idx
        /\ IF b >= page_number THEN Ahead(b) ELSE Behind(b)
        /\ Below

\* Where a full page leads while no page fails.
LEMMA WholeFullPage ==
  ASSUME ListInv, ListTypeOK, ListTypeOK', Whole, FullPage, bad = {}, glitches = 0
  PROVE  /\ Whole'
         /\ status' = "complete" => AllGoodListed'
<1>0. /\ setting \in Settings /\ original_page_size \in Nat \ {0}
      /\ total \in Nat /\ page_size \in Nat \ {0} /\ page_number \in Nat
      /\ idx \in Nat /\ idx \in Int /\ idx >= -1
      /\ restore_page_size \in BOOLEAN /\ save_idx \in BOOLEAN
  BY ListTypes
<1>1. /\ Paging \in {"page", "offset", "index"} /\ Counting \in {"number", "idx", "none"}
      /\ Paging = "offset" => Counting = "none"
      /\ Paging = "index" => Counting = "idx"
  BY <1>0, SettingIs
<1>2. /\ page_size = original_page_size /\ ~restore_page_size
      /\ page_number = IF Paging = "page" THEN idx ELSE original_page_size * idx
      /\ Below
  BY DEF Whole
<1>3. /\ page_size' = page_size /\ ~restore_page_size' /\ idx' = idx + 1
      /\ page_number' = PageNumber(idx, page_size, page_number)
      /\ status' = "complete" => ~(Remaining(idx, page_size, page_number) > 0)
      /\ listed' = listed \cup Page /\ UNCHANGED serverVars
  BY <1>0, <1>1, <1>2, FullPageIs
<1>4. /\ total' = total /\ bad' = bad /\ Paging' = Paging
      /\ original_page_size' = original_page_size
  BY <1>3 DEF serverVars, Paging, original_page_size
<1>5. /\ Paging = "page" => PageNumber(idx, page_size, page_number) = page_number + 1
      /\ Paging = "offset" =>
           PageNumber(idx, page_size, page_number) = page_number + page_size
      /\ Paging = "index" => PageNumber(idx, page_size, page_number) = page_size * (idx + 1)
  BY <1>0, <1>1, PageNumberIs
<1>6. page_number' = IF Paging = "page" THEN idx' ELSE original_page_size * idx'
  <2>1. original_page_size * (idx + 1) = original_page_size * idx + original_page_size
    BY <1>0, <1>1
  <2>2. QED BY <1>0, <1>1, <1>2, <1>3, <1>5, <2>1
<1>7. Start = page_size * idx /\ Start' = page_size * (idx + 1)
  <2>1. idx * page_size = page_size * idx
        /\ (idx + 1) * page_size = page_size * (idx + 1)
    BY <1>0, <1>1
  <2>2. QED BY <1>2, <1>3, <1>4, <1>6, <2>1 DEF Start
<1>8. page_size * (idx + 1) = page_size * idx + page_size /\ page_size * idx \in Nat
  BY <1>0, <1>1
<1>9. Below'
  <2>1. Start \in Nat /\ Start' \in Nat /\ Start' <= Start + page_size
    BY <1>0, <1>1, <1>7, <1>8
  <2>2. QED BY <1>2, <1>3, <1>4, <2>1, BelowGrows
<1>10. status' = "complete" => Start' >= total'
  <2> SUFFICES ASSUME status' = "complete" PROVE Start' >= total
    BY <1>4
  <2>1. ~(Remaining(idx, page_size, page_number) > 0)
    BY <1>3
  <2>2. CASE Counting = "number"
    <3>1. Paging = "page" /\ page_number = idx
      BY <1>0, <1>1, <1>2, <2>2
    <3>2. Remaining(idx, page_size, page_number) = total - page_size * (idx + 1)
      BY <2>2, <3>1 DEF Remaining
    <3>3. QED BY <1>0, <1>1, <1>7, <1>8, <2>1, <3>2
  <2>3. CASE Counting = "idx"
    <3>1. Remaining(idx, page_size, page_number) = total - page_size * (idx + 1)
      BY <2>3 DEF Remaining
    <3>2. QED BY <1>0, <1>1, <1>7, <1>8, <2>1, <3>1
  <2>4. CASE Counting = "none"
    BY <2>1, <2>4 DEF Remaining
  <2>5. QED BY <1>0, <1>1, <2>2, <2>3, <2>4
<1>11. status' = "complete" => AllGoodListed'
  <2>1. Start' \in Nat
    BY <1>0, <1>1, <1>7, <1>8
  <2>2. QED BY <1>0, <1>4, <1>9, <1>10, <2>1, BelowDone
<1>12. Whole'
  BY <1>2, <1>3, <1>4, <1>6, <1>9 DEF Whole
<1>13. QED BY <1>11, <1>12

\* Where a full page leads around the one bad resource.
LEMMA AroundFullPage ==
  ASSUME ListInv, ListTypeOK, ListTypeOK', Answer, Around, FullPage,
         Paging = "index", glitches = 0, NEW b \in bad, bad = {b}
  PROVE  /\ Around'
         /\ status' = "complete" => AllGoodListed'
<1> DEFINE S == original_page_size
<1>0. /\ setting \in Settings /\ S \in Nat \ {0} /\ total \in Nat
      /\ page_size \in Nat \ {0} /\ page_number \in Nat
      /\ idx \in Nat /\ idx \in Int /\ idx >= -1
      /\ saved_idx \in Nat /\ saved_idx \in Int /\ saved_idx >= -1
      /\ resources_attempted \in Nat /\ b \in 0..total - 1
      /\ restore_page_size \in BOOLEAN /\ save_idx \in BOOLEAN
  BY ListTypes
<1>1. Counting = "idx" /\ b \in Nat /\ page_number' \in Nat
  BY <1>0, SettingIs DEF ListTypeOK
<1>2. /\ page_number = page_size * idx
      /\ IF b >= page_number THEN Ahead(b) ELSE Behind(b)
      /\ Below
  BY DEF Around
<1>3. /\ listed' = listed \cup Page /\ saved_idx' = saved_idx
      /\ resources_attempted' = resources_attempted + Cardinality(Page)
      /\ UNCHANGED serverVars /\ ~Partial /\ Got({200})
  BY <1>0, <1>1, FullPageIs
<1>4. /\ total' = total /\ bad' = bad /\ Paging' = Paging /\ S' = S
      /\ setting' = setting
  BY <1>3 DEF serverVars, Paging, original_page_size
<1>5. Start = page_number /\ Start' = page_number'
  BY <1>4 DEF Start
<1>6. resources_attempted' = resources_attempted + page_size
  BY <1>0, <1>1, <1>3, <1>5, PageIs
<1>7. b < page_number \/ b >= page_number + page_size
  <2>1. b \notin Page
    BY <1>3 DEF Answer, Got
  <2>2. QED BY <1>0, <1>1, <1>5, <2>1 DEF Page
<1>8. CASE restore_page_size /\ resources_attempted' % S = 0
  <2> DEFINE number == PageNumber(idx, S, page_number)
  <2>1. /\ page_size' = S /\ idx' = saved_idx + 1
        /\ page_number' = PageNumber(saved_idx, S, number)
        /\ ~restore_page_size' /\ save_idx'
        /\ status' = "complete" => ~(Remaining(saved_idx, S, number) > 0)
    BY <1>0, <1>1, <1>8, FullPageIs, Zenon
  <2>2. number \in Nat
    BY <1>0, <1>1, PageNumberIs
  <2> HIDE DEF number
  <2>3. page_number' = S * (saved_idx + 1)
    BY <1>0, <1>1, <2>1, <2>2, PageNumberIs
  <2>4. /\ b < page_number /\ page_size = 1 /\ resources_attempted = page_number
        /\ S * saved_idx <= b /\ b < S * (saved_idx + 1)
    BY <1>0, <1>1, <1>2, <1>8 DEF Ahead, Behind
  <2>5. page_number' <= page_number + page_size
    <3>1. S * saved_idx \in Nat
      BY <1>0, <1>1
    <3>2. resources_attempted' \in Nat /\ S * saved_idx < resources_attempted'
          /\ resources_attempted' = page_number + page_size
      BY <1>0, <1>1, <1>6, <2>4, <3>1
    <3>3. S * (saved_idx + 1) <= resources_attempted'
      <4>1. S \in Nat /\ S > 0 /\ resources_attempted' % S = 0
        BY <1>0, <1>8
      <4>2. QED BY <1>0, <3>2, <4>1, NextMultiple
    <3>4. QED BY <2>3, <3>2, <3>3
  <2>6. Below'
    BY <1>0, <1>1, <1>2, <1>3, <1>4, <1>5, <2>5, BelowGrows
  <2>7. status' = "complete" => page_number' >= total
    <3>1. Remaining(saved_idx, S, number) = total - S * (saved_idx + 1)
      BY <1>0, <1>1 DEF Remaining
    <3>2. S * (saved_idx + 1) \in Nat
      BY <1>0, <1>1
    <3>3. QED BY <1>0, <1>1, <2>1, <2>3, <3>1, <3>2
  <2>8. status' = "complete" => AllGoodListed'
    BY <1>0, <1>1, <1>4, <1>5, <2>6, <2>7, BelowDone
  <2>9. page_number' = page_size' * idx' /\ b < page_number'
    BY <2>1, <2>3, <2>4
  <2>10. (IF b >= page_number THEN Ahead(b) ELSE Behind(b))'
    <3>1. Behind(b)'
      BY <1>4, <2>1 DEF Behind
    <3>2. ~(b >= page_number')
      BY <1>0, <1>1, <2>9
    <3>3. QED BY <3>1, <3>2
  <2>11. Around'
    BY <1>4, <2>6, <2>9, <2>10 DEF Around
  <2>12. QED BY <2>8, <2>11
<1>9. CASE ~(restore_page_size /\ resources_attempted' % S = 0)
  <2>1. /\ page_size' = page_size /\ idx' = idx + 1
        /\ page_number' = PageNumber(idx, page_size, page_number)
        /\ restore_page_size' = restore_page_size /\ save_idx' = save_idx
        /\ status' = "complete" => ~(Remaining(idx, page_size, page_number) > 0)
    BY <1>0, <1>1, <1>9, FullPageIs, Zenon
  <2>2. page_number' = page_size * (idx + 1)
    BY <1>0, <1>1, <2>1, PageNumberIs
  <2>3. page_number' = page_number + page_size
    <3>1. page_size * (idx + 1) = page_size * idx + page_size
      BY <1>0, <1>1
    <3>2. QED BY <1>2, <2>2, <3>1
  <2>4. Below'
    BY <1>0, <1>1, <1>2, <1>3, <1>4, <1>5, <2>3, BelowGrows
  <2>5. status' = "complete" => page_number' >= total
    <3>1. Remaining(idx, page_size, page_number) = total - page_number'
      BY <1>0, <1>1, <2>2 DEF Remaining
    <3>2. QED BY <1>0, <1>1, <2>1, <3>1
  <2>6. status' = "complete" => AllGoodListed'
    BY <1>0, <1>1, <1>4, <1>5, <2>4, <2>5, BelowDone
  <2>7. (IF b >= page_number THEN Ahead(b) ELSE Behind(b))'
    <3>1. CASE b >= page_number
      <4>1. Ahead(b)
        BY <1>2, <3>1
      <4>2. b >= page_number'
        BY <1>0, <1>1, <1>7, <2>3, <3>1
      <4>3. Ahead(b)'
        BY <1>0, <1>1, <1>3, <1>4, <1>6, <2>1, <2>3, <4>1 DEF Ahead
      <4>4. QED BY <4>2, <4>3
    <3>2. CASE ~(b >= page_number)
      <4>1. Behind(b)
        BY <1>2, <3>2
      <4>2. ~(b >= page_number')
        BY <1>0, <1>1, <2>3, <3>2
      <4>3. Behind(b)'
        BY <1>0, <1>1, <1>3, <1>4, <1>6, <2>1, <2>3, <4>1 DEF Behind
      <4>4. QED BY <4>2, <4>3
    <3>3. QED BY <3>1, <3>2
  <2>8. page_number' = page_size' * idx'
    BY <2>1, <2>2
  <2>9. Around'
    BY <1>4, <2>4, <2>7, <2>8 DEF Around
  <2>10. QED BY <2>6, <2>9
<1>10. QED BY <1>8, <1>9

\* Where a server error leads: it is the one bad resource's.
LEMMA AroundFailedPage ==
  ASSUME ListInv, ListTypeOK, ListTypeOK', Around, FailedPage,
         Paging = "index", glitches = 0, glitches' = 0, NEW b \in bad, bad = {b}
  PROVE  Around'
<1> DEFINE S == original_page_size
<1>0. /\ setting \in Settings /\ S \in Nat \ {0} /\ total \in Nat
      /\ page_size \in Nat \ {0} /\ page_number \in Nat
      /\ idx \in Nat /\ idx \in Int /\ idx >= -1
      /\ saved_idx \in Nat /\ saved_idx \in Int /\ saved_idx >= -1
      /\ resources_attempted \in Nat /\ b \in 0..total - 1
      /\ restore_page_size \in BOOLEAN /\ save_idx \in BOOLEAN
  BY ListTypes
<1>1. /\ page_number = page_size * idx
      /\ IF b >= page_number THEN Ahead(b) ELSE Behind(b)
      /\ Below
  BY DEF Around
<1>2. /\ saved_idx' = Saved /\ save_idx' = FALSE
      /\ UNCHANGED <<serverVars, listed, status>>
      /\ Isolate \/ Halve
      /\ Page \cap bad # {}
  BY <1>0, FailedPageIs
<1>3. /\ total' = total /\ bad' = bad /\ Paging' = Paging /\ S' = S
      /\ listed' = listed
  BY <1>2 DEF serverVars, Paging, original_page_size
<1>4. Start = page_number /\ Start' = page_number'
  BY <1>3 DEF Start
<1>5. b >= page_number /\ b < page_number + page_size /\ b \in Nat
  <2>1. b \in Page
    BY <1>2
  <2>2. QED BY <1>0, <1>4, <2>1 DEF Page
<1>6. Ahead(b)
  BY <1>1, <1>5
<1>7. S * saved_idx' <= b /\ b < S * (saved_idx' + 1)
  <2>1. CASE save_idx
    <3>1. page_size = S /\ saved_idx' = idx
      BY <1>2, <1>6, <2>1 DEF Ahead, Saved
    <3>2. S * (idx + 1) = S * idx + S /\ S * idx = page_number
      BY <1>0, <1>1, <3>1
    <3>3. QED BY <1>0, <1>5, <3>1, <3>2
  <2>2. CASE ~save_idx
    BY <1>2, <1>6, <2>2 DEF Ahead, Saved
  <2>3. QED BY <2>1, <2>2
<1>8. CASE Isolate
  <2>1. /\ page_size = 1 /\ page_size' = 1 /\ restore_page_size' = TRUE
        /\ resources_attempted' = resources_attempted + 1 /\ idx' = idx + 1
        /\ page_number' = PageNumber(idx, page_size, page_number)
    BY <1>8 DEF Isolate
  <2>2. page_number' = page_size * (idx + 1)
    BY <1>0, <2>1, PageNumberIs
  <2>3. page_number' = page_number + 1 /\ page_number' = page_size' * idx'
    BY <1>0, <1>1, <2>1, <2>2
  <2>4. resources_attempted' = page_number' /\ b < page_number'
    BY <1>0, <1>5, <1>6, <2>1, <2>3 DEF Ahead
  <2>5. Behind(b)'
    BY <1>3, <1>7, <2>1, <2>4 DEF Behind
  <2>6. ~(b >= page_number')
    BY <1>0, <1>5, <2>3, <2>4
  <2>7. Below'
    <3> SUFFICES ASSUME NEW p \in 0..total - 1, p < page_number', p # b
                 PROVE  p \in listed
      BY <1>3, <1>4 DEF Below
    <3>1. p < page_number
      BY <1>0, <1>5, <2>1, <2>3
    <3>2. QED BY <1>1, <1>4, <3>1 DEF Below
  <2>8. QED BY <1>3, <2>3, <2>5, <2>6, <2>7 DEF Around
<1>9. CASE Halve
  <2>1. /\ page_size > 1 /\ page_size' = Smaller /\ idx' = Resume + 1
        /\ page_number' = PageNumber(Resume, Smaller,
                            PageNumber(Resume, Smaller, page_number))
        /\ resources_attempted' = resources_attempted
        /\ restore_page_size' = restore_page_size
    BY <1>9 DEF Halve
  <2>2. /\ Smaller \in 1..page_size - 1 /\ Resume \in Int /\ Resume >= -1
        /\ Smaller * (Resume + 1) = resources_attempted
    BY <1>0, <2>1, ResumeIs
  <2>3. Smaller \in Nat
    BY <1>0, <2>2
  <2> DEFINE number == PageNumber(Resume, Smaller, page_number)
  <2>4. number \in Nat
    BY <1>0, <2>2, <2>3, PageNumberIs
  <2> HIDE DEF number
  <2>5. PageNumber(Resume, Smaller, number) = Smaller * (Resume + 1)
    BY <1>0, <2>2, <2>3, <2>4, PageNumberIs
  <2>6. page_number' = page_number /\ page_number' = page_size' * idx'
    <3>1. resources_attempted = page_number
      BY <1>6 DEF Ahead
    <3>2. page_number' = PageNumber(Resume, Smaller, number)
      BY <2>1 DEF number
    <3>3. QED BY <2>1, <2>2, <2>5, <3>1, <3>2
  <2>7. Ahead(b)'
    BY <1>2, <1>3, <1>6, <1>7, <2>1, <2>6 DEF Ahead
  <2>8. b >= page_number'
    BY <1>5, <2>6
  <2>9. Below'
    BY <1>1, <1>3, <1>4, <2>6 DEF Below
  <2>10. QED BY <1>3, <2>6, <2>7, <2>8, <2>9 DEF Around
<1>10. QED BY <1>2, <1>8, <1>9

\* Steps that stay on the page keep what is known of the pages before it.
LEMMA SamePage ==
  ASSUME Whole, Around, listed \subseteq listed',
         UNCHANGED <<setting, total, bad, glitches, page_size, page_number, idx,
                     resources_attempted, saved_idx, save_idx,
                     restore_page_size>>
  PROVE  Whole' /\ Around'
<1>1. /\ Paging' = Paging /\ original_page_size' = original_page_size
      /\ Start' = Start
  BY DEF Paging, original_page_size, Start
<1>2. Below => Below'
  BY <1>1 DEF Below
<1>3. Whole'
  BY <1>1, <1>2 DEF Whole
<1>4. ASSUME NEW b PROVE Ahead(b)' = Ahead(b) /\ Behind(b)' = Behind(b)
  BY <1>1 DEF Ahead, Behind
<1>5. Around'
  BY <1>1, <1>2, <1>4 DEF Around
<1>6. QED BY <1>3, <1>5

\* The inductive invariant of what is listed.
ListedInv ==
  /\ ListInv /\ ListTypeOK /\ Answer
  /\ Whole /\ Around /\ GoodListed

\* The lists that GoodListed does not speak of.
LEMMA GoodListedFor ==
  ASSUME ListTypeOK, setting \in Settings,
         ~(bad = {} /\ glitches = 0),
         ~(Paging = "index" /\ glitches = 0 /\ \E b \in bad : bad = {b})
  PROVE  \/ glitches > 0
         \/ bad # {} /\ ~(Paging = "index" /\ Cardinality(bad) = 1)
<1>1. total \in Nat
  BY SettingIs DEF ListTypeOK
<1>2. IsFiniteSet(bad)
  <2>1. IsFiniteSet(0..total - 1)
    BY <1>1, FS_Interval
  <2>2. bad \subseteq 0..total - 1
    BY DEF ListTypeOK
  <2>3. QED BY <2>1, <2>2, FS_Subset
<1>3. Cardinality(bad) = 1 <=> \E b \in bad : bad = {b}
  BY <1>2, FS_Singleton
<1>4. glitches \in Nat
  BY DEF ListTypeOK
<1>5. ASSUME ~(glitches > 0)
      PROVE  bad # {} /\ ~(Paging = "index" /\ Cardinality(bad) = 1)
  <2>1. glitches = 0
    BY <1>4, <1>5
  <2>2. bad # {}
    BY <2>1
  <2>3. ~(Paging = "index" /\ Cardinality(bad) = 1)
    BY <1>3, <2>1, Zenon
  <2>4. QED BY <2>2, <2>3
<1>6. QED BY <1>5

\* No step leaves it.
LEMMA ListedStep == ListedInv /\ [ListNext]_listVars => ListedInv'
<1> SUFFICES ASSUME ListedInv, [ListNext]_listVars PROVE ListedInv'
  OBVIOUS
<1>0. ListInv /\ ListTypeOK /\ Answer /\ Whole /\ Around /\ GoodListed
  BY DEF ListedInv
<1>1. ListInv' /\ ListTypeOK' /\ Answer'
  BY <1>0, ListStep, ListTypeStep, AnswerStep
<1>2. setting \in Settings /\ setting' \in Settings
  BY <1>0, <1>1 DEF ListInv
<1>3. CASE UNCHANGED listing
  <2>1. Whole' /\ Around'
    BY <1>0, <1>3, SamePage DEF listing
  <2>2. GoodListed'
    BY <1>0, <1>3 DEF listing, GoodListed, AllGoodListed, Paging
  <2>3. QED BY <1>1, <2>1, <2>2 DEF ListedInv
<1>4. CASE /\ RefusedPage \/ RaisedPage
           /\ status' \in {"truncated", "raised"} /\ UNCHANGED callVars
           /\ UNCHANGED <<setting, total, bad, glitches, page_size, page_number,
                          idx, resources_attempted, saved_idx, save_idx,
                          restore_page_size, listed>>
  <2>1. Whole' /\ Around'
    BY <1>0, <1>4, SamePage
  <2>2. GoodListed'
    BY <1>4 DEF GoodListed, AllGoodListed
  <2>3. QED BY <1>1, <2>1, <2>2 DEF ListedInv
<1>5. CASE LastPage
  <2>1. /\ UNCHANGED <<setting, total, bad, glitches, page_size, page_number, idx,
                       resources_attempted, saved_idx, save_idx,
                       restore_page_size>>
        /\ listed' = listed \cup Page
    BY <1>5 DEF LastPage, serverVars
  <2>2. Whole' /\ Around'
    BY <1>0, <2>1, SamePage
  <2>3. GoodListed'
    <3>1. CASE Below
      BY <1>0, <1>5, <3>1, LastPageDone DEF GoodListed
    <3>2. CASE ~Below
      <4>1. ~(bad = {} /\ glitches = 0)
            /\ ~(Paging = "index" /\ glitches = 0 /\ \E b \in bad : bad = {b})
        BY <1>0, <3>2 DEF Whole, Around
      <4>2. \/ glitches > 0
            \/ bad # {} /\ ~(Paging = "index" /\ Cardinality(bad) = 1)
        BY <1>0, <1>2, <4>1, GoodListedFor
      <4>3. QED BY <2>1, <4>2 DEF GoodListed, Paging
    <3>3. QED BY <3>1, <3>2
  <2>4. QED BY <1>1, <2>2, <2>3 DEF ListedInv
<1>6. CASE FullPage
  <2>1. UNCHANGED <<setting, total, bad, glitches>>
    BY <1>6 DEF FullPage, serverVars
  <2>2. Paging' = Paging
    BY <2>1 DEF Paging
  <2>3. CASE bad = {} /\ glitches = 0
    <3>1. Whole' /\ (status' = "complete" => AllGoodListed')
      BY <1>0, <1>1, <1>6, <2>3, WholeFullPage
    <3>2. Around'
      BY <2>1, <2>3 DEF Around
    <3>3. GoodListed'
      BY <3>1 DEF GoodListed, AllGoodListed
    <3>4. QED BY <1>1, <3>1, <3>2, <3>3 DEF ListedInv
  <2>4. CASE Paging = "index" /\ glitches = 0 /\ \E b \in bad : bad = {b}
    <3>1. PICK b \in bad : bad = {b}
      BY <2>4
    <3>2. Around' /\ (status' = "complete" => AllGoodListed')
      BY <1>0, <1>1, <1>6, <2>4, <3>1, AroundFullPage
    <3>3. Whole'
      BY <2>1, <3>1 DEF Whole
    <3>4. GoodListed'
      BY <3>2 DEF GoodListed, AllGoodListed
    <3>5. QED BY <1>1, <3>2, <3>3, <3>4 DEF ListedInv
  <2>5. CASE /\ ~(bad = {} /\ glitches = 0)
             /\ ~(Paging = "index" /\ glitches = 0 /\ \E b \in bad : bad = {b})
    <3>1. Whole' /\ Around'
      BY <2>1, <2>2, <2>5 DEF Whole, Around
    <3>2. \/ glitches > 0
          \/ bad # {} /\ ~(Paging = "index" /\ Cardinality(bad) = 1)
      BY <1>0, <1>2, <2>5, GoodListedFor
    <3>3. GoodListed'
      BY <2>1, <2>2, <3>2 DEF GoodListed
    <3>4. QED BY <1>1, <3>1, <3>3 DEF ListedInv
  <2>6. QED BY <2>3, <2>4, <2>5
<1>7. CASE FailedPage
  <2>1. /\ UNCHANGED <<serverVars, listed, status>> /\ Got(500..599)
        /\ glitches' = IF Page \cap bad # {} THEN glitches ELSE glitches + 1
    BY <1>7, FailedPageIs
  <2>2. GoodListed'
    BY <2>1 DEF GoodListed, AllGoodListed, Got
  <2>3. bad' = bad /\ Paging' = Paging /\ glitches \in Nat
    BY <1>0, <2>1 DEF serverVars, Paging, ListTypeOK
  <2>4. Whole'
    <3> SUFFICES ASSUME bad = {}, glitches' = 0 PROVE FALSE
      BY <2>3 DEF Whole
    <3>1. QED BY <2>1, <2>3
  <2>5. Around'
    <3> SUFFICES ASSUME Paging = "index", glitches' = 0, NEW b \in bad, bad = {b}
                 PROVE  Around'
      BY <2>3 DEF Around
    <3>1. glitches = 0
      BY <2>1, <2>3
    <3>2. QED BY <1>0, <1>1, <1>7, <3>1, AroundFailedPage
  <2>6. QED BY <1>1, <2>2, <2>4, <2>5 DEF ListedInv
<1>8. QED BY <1>3, <1>4, <1>5, <1>6, <1>7, OtherSteps

\* The invariant holds throughout a listing.
LEMMA ListedInvariant == ListSpec => []ListedInv
<1>1. ASSUME ListInit PROVE ListedInv
  <2>1. ListInv
    BY <1>1, RetryAssumption DEF ListInit, Init, ListInv, RetryInv, TypeOK, Longest
  <2>2. original_page_size \in Nat \ {0} /\ setting.totals \subseteq Nat
    BY <2>1, SettingIs DEF ListInv
  <2>3. ListTypeOK
    <3>1. TypeOK /\ setting \in Settings /\ total \in setting.totals
      BY <1>1, <2>1 DEF ListInit, ListInv, RetryInv
    <3>2. bad \in SUBSET (0..total - 1) /\ listed \in SUBSET (0..total - 1)
      BY <1>1 DEF ListInit
    <3>3. page_size \in 1..original_page_size
      BY <1>1, <2>2 DEF ListInit
    <3>4. /\ glitches = 0 /\ page_number = 0 /\ idx = 0 /\ saved_idx = 0
          /\ resources_attempted = 0 /\ save_idx = TRUE
          /\ restore_page_size = FALSE /\ status = "asking"
      BY <1>1 DEF ListInit
    <3>5. /\ {bad, listed} \subseteq SUBSET (0..total - 1)
          /\ {page_number, resources_attempted, saved_idx, idx} \subseteq Nat
          /\ glitches \in 0..1
      BY <3>2, <3>4
    <3>6. QED BY <3>1, <3>3, <3>4, <3>5 DEF ListTypeOK
  <2>4. Answer /\ GoodListed
    BY <1>1 DEF ListInit, Init, Answer, GoodListed, AllGoodListed
  <2>5. Start = 0
    BY <1>1, <2>2 DEF ListInit, Start
  <2>6. Below
    BY <2>5 DEF Below
  <2>7. Whole
    BY <1>1, <2>2, <2>6 DEF ListInit, Whole
  <2>8. Around
    <3> SUFFICES ASSUME NEW b \in bad
                 PROVE  /\ page_number = page_size * idx
                        /\ b >= page_number /\ Ahead(b)
      BY <2>6 DEF Around
    <3>1. b \in Nat
      BY <2>3 DEF ListTypeOK
    <3>2. QED BY <1>1, <2>2, <3>1 DEF ListInit, Ahead
  <2>9. QED BY <2>1, <2>3, <2>4, <2>7, <2>8 DEF ListedInv
<1>2. QED BY <1>1, ListedStep, PTL DEF ListSpec

\* Every variable of a listing keeps its type: no halving takes the page size
\* to 0 or above its own, for any list and any answers.
THEOREM ListTypeOKCorrect == ListSpec => []ListTypeOK
<1>1. ListedInv => ListTypeOK
  BY DEF ListedInv
<1>2. QED BY <1>1, ListedInvariant, PTL

\* A list that is not cut short has every resource, for any page size and
\* length, paging and count: between two pages, at the end of the list, and
\* around the one resource that is isolated when pages are counted by idx.
THEOREM GoodListedCorrect == ListSpec => []GoodListed
<1>1. ListedInv => GoodListed
  BY DEF ListedInv
<1>2. QED BY <1>1, ListedInvariant, PTL

-----------------------------------------------------------------------------
(* Sequences, by the lengths that a set of them has.                       *)

\* A set of naturals has a least member.
LEMMA LeastOf ==
  ASSUME NEW T \in SUBSET Nat, T # {}
  PROVE  \E x \in T : \A y \in T : x <= y
<1> DEFINE R == OpToRel(<, Nat)
<1>1. IsWellFoundedOn(R, Nat)
  BY NatLessThanWellFounded
<1>2. \A x, y \in Nat : <<x, y>> \in R <=> x < y
  BY DEF OpToRel
<1> HIDE DEF R
<1>3. \E x \in T : \A y \in T : ~(<<y, x>> \in R)
  BY <1>1, WFMin
<1>4. PICK x \in T : \A y \in T : ~(<<y, x>> \in R)
  BY <1>3
<1>5. ASSUME NEW y \in T PROVE x <= y
  <2>1. x \in Nat /\ y \in Nat
    OBVIOUS
  <2>2. ~(y < x)
    BY <1>2, <1>4, <2>1, Zenon
  <2>3. QED BY <2>1, <2>2
<1>6. QED BY <1>5

\* A set that has the empty sequence, and with a sequence all that are one longer,
\* has all sequences.
LEMMA AllSequences ==
  ASSUME NEW X, NEW T \in SUBSET Seq(X), <<>> \in T,
         \A s \in T, e \in X : Append(s, e) \in T
  PROVE  T = Seq(X)
<1> SUFFICES ASSUME NEW s \in Seq(X), s \notin T PROVE FALSE
  OBVIOUS
<1> DEFINE L == {n \in Nat : \E t \in Seq(X) : t \notin T /\ Len(t) = n}
<1>1. L \in SUBSET Nat /\ L # {}
  <2>1. Len(s) \in Nat /\ Len(s) \in L
    OBVIOUS
  <2>2. QED BY <2>1
<1>2. PICK n \in L : \A m \in L : n <= m
  <2> HIDE DEF L
  <2>1. QED BY <1>1, LeastOf
<1>3. PICK t \in Seq(X) : t \notin T /\ Len(t) = n
  BY <1>2
<1>4. t # <<>> /\ n \in Nat /\ n # 0
  BY <1>3
<1> DEFINE u == [k \in 1..(n - 1) |-> t[k]]
<1>5. u \in Seq(X) /\ Len(u) = n - 1 /\ t[n] \in X
  BY <1>3, <1>4
<1>6. Append(u, t[n]) = t
  <2>1. Append(u, t[n]) \in Seq(X) /\ Len(Append(u, t[n])) = n
    BY <1>4, <1>5
  <2>2. ASSUME NEW k \in 1..n PROVE Append(u, t[n])[k] = t[k]
    <3>1. k # n => k \in 1..(n - 1) /\ u[k] = t[k]
      BY <1>4
    <3> HIDE DEF u
    <3>2. k # n => Append(u, t[n])[k] = u[k]
      BY <1>5, <3>1
    <3>3. Append(u, t[n])[n] = t[n]
      BY <1>4, <1>5
    <3>4. QED BY <3>1, <3>2, <3>3
  <2> HIDE DEF u
  <2>3. QED BY <1>3, <2>1, <2>2, SeqEqual
<1>7. u \in T
  <2>1. n - 1 \notin L
    BY <1>2, <1>4
  <2>2. n - 1 \in Nat
    BY <1>4
  <2> HIDE DEF u
  <2>3. QED BY <1>5, <2>1, <2>2
<1>8. QED BY <1>3, <1>5, <1>6, <1>7

-----------------------------------------------------------------------------
(* The members of a set in a sequence.                                     *)

\* What Only computes for each prefix.
KeptBy(f, s, S) ==
  f = [k \in 0..Len(s) |->
         IF k = 0 THEN <<>>
         ELSE IF s[k] \in S THEN Append(f[k - 1], s[k]) ELSE f[k - 1]]

LEMMA KeptUnique ==
  ASSUME NEW X, NEW s \in Seq(X), NEW e \in X, NEW S, NEW f, NEW g,
         KeptBy(f, s, S), KeptBy(g, Append(s, e), S)
  PROVE  \A k \in 0..Len(s) : g[k] = f[k]
<1> SUFFICES ASSUME NEW j \in 0..Len(s), g[j] # f[j] PROVE FALSE
  OBVIOUS
<1> DEFINE L == {k \in 0..Len(s) : g[k] # f[k]}
<1>1. L \in SUBSET Nat /\ L # {}
  OBVIOUS
<1>2. PICK k \in L : \A m \in L : k <= m
  BY <1>1, LeastOf
<1>3. k \in 0..Len(s) /\ g[k] # f[k] /\ Len(s) \in Nat
  BY <1>2
<1>4. /\ f[0] = <<>> /\ g[0] = <<>>
      /\ Len(Append(s, e)) = Len(s) + 1
      /\ \A m \in 1..Len(s) : Append(s, e)[m] = s[m]
  BY DEF KeptBy
<1>5. k # 0
  BY <1>3, <1>4
<1>6. k - 1 \in 0..Len(s) /\ k \in 1..Len(s) /\ k \in 0..(Len(s) + 1)
  BY <1>3, <1>5
<1>7. g[k - 1] = f[k - 1]
  <2>1. k - 1 \notin L
    BY <1>2, <1>3, <1>5
  <2>2. QED BY <1>6, <2>1
<1>8. f[k] = IF s[k] \in S THEN Append(f[k - 1], s[k]) ELSE f[k - 1]
  BY <1>3, <1>5 DEF KeptBy
<1>9. g[k] = IF Append(s, e)[k] \in S THEN Append(g[k - 1], Append(s, e)[k])
             ELSE g[k - 1]
  BY <1>4, <1>5, <1>6 DEF KeptBy
<1>10. QED BY <1>3, <1>4, <1>6, <1>7, <1>8, <1>9

LEMMA KeptExists ==
  ASSUME NEW X, NEW S
  PROVE  \A s \in Seq(X) : \E f : KeptBy(f, s, S)
<1> DEFINE T == {s \in Seq(X) : \E f : KeptBy(f, s, S)}
<1>1. <<>> \in T
  <2>1. KeptBy([k \in 0..0 |-> <<>>], <<>>, S)
    BY DEF KeptBy
  <2>2. QED BY <2>1
<1>2. ASSUME NEW s \in T, NEW e \in X PROVE Append(s, e) \in T
  <2>1. PICK f : KeptBy(f, s, S)
    OBVIOUS
  <2> DEFINE n == Len(s)
             g == [k \in 0..(n + 1) |->
                     IF k = n + 1 THEN IF e \in S THEN Append(f[n], e) ELSE f[n]
                     ELSE f[k]]
             t == Append(s, e)
  <2>2. /\ s \in Seq(X) /\ n \in Nat /\ Len(t) = n + 1 /\ t \in Seq(X)
        /\ t[n + 1] = e /\ \A k \in 1..n : t[k] = s[k]
    OBVIOUS
  <2>3. ASSUME NEW k \in 0..(n + 1)
        PROVE  g[k] = IF k = 0 THEN <<>>
                      ELSE IF t[k] \in S THEN Append(g[k - 1], t[k]) ELSE g[k - 1]
    <3>1. CASE k = n + 1
      BY <2>2, <3>1
    <3>2. CASE k # n + 1
      <4>1. k \in 0..n /\ g[k] = f[k]
        BY <2>2, <3>2
      <4>2. f[k] = IF k = 0 THEN <<>>
                   ELSE IF s[k] \in S THEN Append(f[k - 1], s[k]) ELSE f[k - 1]
        BY <2>1, <4>1 DEF KeptBy
      <4>3. k # 0 => g[k - 1] = f[k - 1] /\ t[k] = s[k]
        BY <2>2, <4>1
      <4>4. QED BY <4>1, <4>2, <4>3
    <3>3. QED BY <3>1, <3>2
  <2>4. g = [k \in 0..(n + 1) |->
               IF k = 0 THEN <<>>
               ELSE IF t[k] \in S THEN Append(g[k - 1], t[k]) ELSE g[k - 1]]
    <3> DEFINE h == [k \in 0..(n + 1) |->
               IF k = 0 THEN <<>>
               ELSE IF t[k] \in S THEN Append(g[k - 1], t[k]) ELSE g[k - 1]]
    <3>1. DOMAIN g = 0..(n + 1) /\ g = [k \in 0..(n + 1) |-> g[k]]
      OBVIOUS
    <3> HIDE DEF g
    <3>2. h = [k \in 0..(n + 1) |-> g[k]]
      BY <2>3
    <3>3. QED BY <3>1, <3>2
  <2> HIDE DEF g
  <2>5. KeptBy(g, t, S)
    <3> HIDE DEF t
    <3>1. QED BY <2>2, <2>4 DEF KeptBy
  <2>6. QED BY <2>2, <2>5
<1> HIDE DEF T
<1>3. T \in SUBSET Seq(X)
  BY DEF T
<1>4. T = Seq(X)
  BY <1>1, <1>2, <1>3, AllSequences
<1>5. QED BY <1>4 DEF T

\* Only, from one sequence to the next.
LEMMA OnlyIs ==
  ASSUME NEW X, NEW s \in Seq(X), NEW S
  PROVE  \E f : KeptBy(f, s, S) /\ Only(s, S) = f[Len(s)]
<1> DEFINE kept == CHOOSE f : KeptBy(f, s, S)
<1>1. KeptBy(kept, s, S)
  BY KeptExists
<1>2. Only(s, S) = kept[Len(s)]
  BY DEF Only, KeptBy
<1>3. QED BY <1>1, <1>2

LEMMA OnlyNone ==
  ASSUME NEW S
  PROVE  Only(<<>>, S) = <<>>
<1>1. PICK f : KeptBy(f, <<>>, S) /\ Only(<<>>, S) = f[Len(<<>>)]
  <2>1. <<>> \in Seq({})
    OBVIOUS
  <2>2. QED BY <2>1, OnlyIs
<1>2. QED BY <1>1 DEF KeptBy

LEMMA OnlyOneMore ==
  ASSUME NEW X, NEW s \in Seq(X), NEW e \in X, NEW S
  PROVE  Only(Append(s, e), S) =
           IF e \in S THEN Append(Only(s, S), e) ELSE Only(s, S)
<1> DEFINE t == Append(s, e)
<1>1. PICK f : KeptBy(f, s, S) /\ Only(s, S) = f[Len(s)]
  BY OnlyIs
<1>2. t \in Seq(X) /\ Len(t) = Len(s) + 1 /\ t[Len(s) + 1] = e /\ Len(s) \in Nat
  OBVIOUS
<1>3. PICK g : KeptBy(g, t, S) /\ Only(t, S) = g[Len(t)]
  BY <1>2, OnlyIs
<1>4. g[Len(s)] = f[Len(s)]
  BY <1>1, <1>2, <1>3, KeptUnique
<1> HIDE DEF t
<1>5. g[Len(s) + 1] = IF e \in S THEN Append(g[Len(s)], e) ELSE g[Len(s)]
  <2>1. /\ Len(s) + 1 \in 0..Len(t) /\ Len(s) + 1 # 0 /\ (Len(s) + 1) - 1 = Len(s)
    BY <1>2
  <2>2. QED BY <1>2, <1>3, <2>1 DEF KeptBy
<1>6. Only(t, S) = IF e \in S THEN Append(Only(s, S), e) ELSE Only(s, S)
  BY <1>1, <1>2, <1>3, <1>4, <1>5
<1>7. QED BY <1>6 DEF t

LEMMA ToSetOneMore ==
  ASSUME NEW X, NEW s \in Seq(X), NEW e \in X
  PROVE  /\ ToSet(Append(s, e)) = ToSet(s) \cup {e}
         /\ ToSet(s) \subseteq X
<1> DEFINE t == Append(s, e)
<1>1. /\ t \in Seq(X) /\ DOMAIN t = 1..(Len(s) + 1) /\ DOMAIN s = 1..Len(s)
      /\ Len(s) \in Nat /\ t[Len(s) + 1] = e
      /\ \A k \in 1..Len(s) : t[k] = s[k] /\ s[k] \in X
  OBVIOUS
<1> HIDE DEF t
<1>2. ToSet(t) = ToSet(s) \cup {e}
  BY <1>1 DEF ToSet
<1>3. QED BY <1>1, <1>2 DEF ToSet, t

LEMMA ToSetNone == ToSet(<<>>) = {}
BY DEF ToSet

LEMMA ToSetIn ==
  ASSUME NEW X, NEW s \in Seq(X)
  PROVE  ToSet(s) \subseteq X
BY DEF ToSet

\* What the members are, whichever sequence.
LEMMA OnlyElements ==
  ASSUME NEW X, NEW S
  PROVE  \A s \in Seq(X) : Only(s, S) \in Seq(X) /\ ToSet(Only(s, S)) = ToSet(s) \cap S
<1> DEFINE T == {s \in Seq(X) : /\ Only(s, S) \in Seq(X)
                                /\ ToSet(Only(s, S)) = ToSet(s) \cap S}
<1>1. <<>> \in T
  <2>1. <<>> \in Seq(X) /\ Only(<<>>, S) = <<>> /\ ToSet(<<>>) = {}
    BY OnlyNone, ToSetNone
  <2>2. QED BY <2>1
<1>2. ASSUME NEW s \in T, NEW e \in X PROVE Append(s, e) \in T
  <2>1. /\ s \in Seq(X) /\ Append(s, e) \in Seq(X) /\ Only(s, S) \in Seq(X)
        /\ ToSet(Only(s, S)) = ToSet(s) \cap S
    OBVIOUS
  <2>2. Only(Append(s, e), S) = IF e \in S THEN Append(Only(s, S), e) ELSE Only(s, S)
    BY <2>1, OnlyOneMore
  <2>3. /\ ToSet(Append(s, e)) = ToSet(s) \cup {e}
        /\ ToSet(Append(Only(s, S), e)) = ToSet(Only(s, S)) \cup {e}
    BY <2>1, ToSetOneMore
  <2>4. Only(Append(s, e), S) \in Seq(X)
    BY <2>1, <2>2
  <2>5. ToSet(Only(Append(s, e), S)) = ToSet(Append(s, e)) \cap S
    BY <2>1, <2>2, <2>3
  <2>6. QED BY <2>1, <2>4, <2>5
<1> HIDE DEF T
<1>3. T \in SUBSET Seq(X)
  BY DEF T
<1>4. T = Seq(X)
  BY <1>1, <1>2, <1>3, AllSequences
<1>5. QED BY <1>4 DEF T

\* The sets need to agree on the members only.
LEMMA OnlySame ==
  ASSUME NEW X, NEW S, NEW R
  PROVE  \A s \in Seq(X) : ToSet(s) \cap S = ToSet(s) \cap R => Only(s, S) = Only(s, R)
<1> DEFINE T == {s \in Seq(X) : ToSet(s) \cap S = ToSet(s) \cap R => Only(s, S) = Only(s, R)}
<1>1. <<>> \in T
  BY OnlyNone
<1>2. ASSUME NEW s \in T, NEW e \in X PROVE Append(s, e) \in T
  <2>1. /\ s \in Seq(X) /\ Append(s, e) \in Seq(X)
        /\ ToSet(s) \cap S = ToSet(s) \cap R => Only(s, S) = Only(s, R)
    OBVIOUS
  <2>2. /\ Only(Append(s, e), S) = IF e \in S THEN Append(Only(s, S), e) ELSE Only(s, S)
        /\ Only(Append(s, e), R) = IF e \in R THEN Append(Only(s, R), e) ELSE Only(s, R)
    BY <2>1, OnlyOneMore
  <2>3. ToSet(Append(s, e)) = ToSet(s) \cup {e}
    BY <2>1, ToSetOneMore
  <2>4. ASSUME ToSet(Append(s, e)) \cap S = ToSet(Append(s, e)) \cap R
        PROVE  Only(Append(s, e), S) = Only(Append(s, e), R)
    <3>1. (e \in S <=> e \in R) /\ ToSet(s) \cap S = ToSet(s) \cap R
      <4>1. \A x \in ToSet(s) \cup {e} : x \in S <=> x \in R
        BY <2>3, <2>4
      <4>2. QED BY <4>1
    <3>2. QED BY <2>1, <2>2, <3>1
  <2>5. QED BY <2>1, <2>4
<1> HIDE DEF T
<1>3. T \in SUBSET Seq(X)
  BY DEF T
<1>4. T = Seq(X)
  BY <1>1, <1>2, <1>3, AllSequences
<1>5. QED BY <1>4 DEF T

\* Of all members, and of none.
LEMMA OnlyAll ==
  ASSUME NEW X
  PROVE  \A s \in Seq(X) : Only(s, X) = s
<1> DEFINE T == {s \in Seq(X) : Only(s, X) = s}
<1>1. <<>> \in T
  BY OnlyNone
<1>2. ASSUME NEW s \in T, NEW e \in X PROVE Append(s, e) \in T
  <2>1. s \in Seq(X) /\ Append(s, e) \in Seq(X) /\ Only(s, X) = s
    OBVIOUS
  <2>2. Only(Append(s, e), X) = Append(Only(s, X), e)
    BY <2>1, OnlyOneMore
  <2>3. QED BY <2>1, <2>2
<1> HIDE DEF T
<1>3. T \in SUBSET Seq(X)
  BY DEF T
<1>4. T = Seq(X)
  BY <1>1, <1>2, <1>3, AllSequences
<1>5. QED BY <1>4 DEF T

LEMMA OnlyWhole ==
  ASSUME NEW X, NEW s \in Seq(X), NEW S, ToSet(s) \subseteq S
  PROVE  Only(s, S) = s
<1>1. ToSet(s) \cap S = ToSet(s) \cap X
  BY ToSetIn
<1>2. QED BY <1>1, OnlySame, OnlyAll

LEMMA OnlyEmpty ==
  ASSUME NEW X, NEW s \in Seq(X), NEW S, ToSet(s) \cap S = {}
  PROVE  Only(s, S) = <<>>
<1>1. Only(s, S) \in Seq(X) /\ ToSet(Only(s, S)) = {}
  BY OnlyElements
<1> DEFINE q == Only(s, S)
<1>2. q \in Seq(X) /\ \A k \in DOMAIN q : FALSE
  BY <1>1 DEF ToSet
<1> HIDE DEF q
<1>3. Len(q) \in Nat /\ DOMAIN q = 1..Len(q)
  BY <1>2
<1>4. Len(q) = 0
  <2>1. ~(1 \in 1..Len(q))
    BY <1>2, <1>3
  <2>2. QED BY <1>3, <2>1
<1>5. q = <<>>
  BY <1>2, <1>4, EmptySeq
<1>6. QED BY <1>5 DEF q

\* The members of two sequences.
LEMMA OnlyBoth ==
  ASSUME NEW X, NEW r \in Seq(X), NEW p \in Seq(X), NEW S
  PROVE  Only(r \o p, S) = Only(r, S) \o Only(p, S)
<1> DEFINE T == {s \in Seq(X) : Only(r \o s, S) = Only(r, S) \o Only(s, S)}
<1>0. Only(r, S) \in Seq(X)
  BY OnlyElements
<1>1. <<>> \in T
  <2>1. <<>> \in Seq(X) /\ r \o <<>> = r /\ Only(<<>>, S) = <<>>
    BY OnlyNone
  <2>2. \A q \in Seq(X) : q \o <<>> = q
    OBVIOUS
  <2>3. Only(r, S) \o Only(<<>>, S) = Only(r, S)
    BY <1>0, <2>1, <2>2
  <2>4. QED BY <2>1, <2>3
<1>2. ASSUME NEW s \in T, NEW e \in X PROVE Append(s, e) \in T
  <2>1. /\ s \in Seq(X) /\ Append(s, e) \in Seq(X) /\ r \o s \in Seq(X)
        /\ Only(r \o s, S) = Only(r, S) \o Only(s, S)
    OBVIOUS
  <2>2. \A u, v \in Seq(X) : u \o Append(v, e) = Append(u \o v, e)
    OBVIOUS
  <2> HIDE DEF T
  <2> DEFINE q == r \o s
  <2>3. Only(Append(s, e), S) = IF e \in S THEN Append(Only(s, S), e) ELSE Only(s, S)
    BY <2>1, OnlyOneMore
  <2>4. Only(Append(q, e), S) = IF e \in S THEN Append(Only(q, S), e) ELSE Only(q, S)
    <3> HIDE DEF q
    <3>1. q \in Seq(X)
      BY <2>1 DEF q
    <3>2. QED BY <3>1, OnlyOneMore
  <2>5. Only(s, S) \in Seq(X)
    BY <2>1, OnlyElements
  <2>6. r \o Append(s, e) = Append(q, e)
    BY <2>1, <2>2
  <2>7. Only(q, S) = Only(r, S) \o Only(s, S)
    BY <2>1
  <2>8. Only(r, S) \o Append(Only(s, S), e) = Append(Only(r, S) \o Only(s, S), e)
    BY <1>0, <2>2, <2>5
  <2> HIDE DEF q
  <2>9. Only(r \o Append(s, e), S) = Only(r, S) \o Only(Append(s, e), S)
    BY <2>3, <2>4, <2>6, <2>7, <2>8
  <2>10. QED BY <2>1, <2>9 DEF T
<1> HIDE DEF T
<1>3. T \in SUBSET Seq(X)
  BY DEF T
<1>4. T = Seq(X)
  BY <1>1, <1>2, <1>3, AllSequences
<1>5. p \in T
  BY <1>4
<1>6. QED BY <1>5 DEF T

\* The same, and what else is used of a concatenation, under a name.
Joined(r, s) == r \o s

LEMMA OnlyJoined ==
  ASSUME NEW X, NEW r \in Seq(X), NEW s \in Seq(X)
  PROVE  /\ Joined(r, s) \in Seq(X) /\ Joined(r, <<>>) = r /\ Joined(<<>>, s) = s
         /\ \A S : Only(Joined(r, s), S) = Joined(Only(r, S), Only(s, S))
<1>1. ASSUME NEW S PROVE Only(r \o s, S) = Only(r, S) \o Only(s, S)
  BY OnlyBoth, SMTT(60)
<1>2. r \o s \in Seq(X) /\ r \o <<>> = r /\ <<>> \o s = s
  OBVIOUS
<1>3. Joined(r, s) \in Seq(X) /\ Joined(r, <<>>) = r /\ Joined(<<>>, s) = s
  BY <1>2 DEF Joined
<1>4. ASSUME NEW S PROVE Only(Joined(r, s), S) = Joined(Only(r, S), Only(s, S))
  BY <1>1, Zenon DEF Joined
<1>5. QED BY <1>3, <1>4

\* The members of some of the members.
LEMMA OnlyOnly ==
  ASSUME NEW X, NEW S, NEW R
  PROVE  \A s \in Seq(X) : Only(Only(s, S), R) = Only(s, S \cap R)
<1> DEFINE T == {s \in Seq(X) : Only(Only(s, S), R) = Only(s, S \cap R)}
<1>1. <<>> \in T
  BY OnlyNone
<1>2. ASSUME NEW s \in T, NEW e \in X PROVE Append(s, e) \in T
  <2>1. /\ s \in Seq(X) /\ Append(s, e) \in Seq(X)
        /\ Only(Only(s, S), R) = Only(s, S \cap R)
    OBVIOUS
  <2>2. Only(s, S) \in Seq(X)
    BY <2>1, OnlyElements
  <2> HIDE DEF T
  <2> DEFINE q == Only(s, S)
             B == S \cap R
  <2>3. Only(Append(s, e), S) = IF e \in S THEN Append(q, e) ELSE q
    BY <2>1, OnlyOneMore
  <2> HIDE DEF q, B
  <2>4. Only(Append(s, e), B) = IF e \in B THEN Append(Only(s, B), e) ELSE Only(s, B)
    BY <2>1, OnlyOneMore
  <2>5. Only(Append(q, e), R) = IF e \in R THEN Append(Only(q, R), e) ELSE Only(q, R)
    <3>1. q \in Seq(X)
      BY <2>2 DEF q
    <3>2. QED BY <3>1, OnlyOneMore
  <2>6. Only(q, R) = Only(s, B) /\ (e \in B <=> e \in S /\ e \in R)
    BY <2>1 DEF q, B
  <2>7. Only(Only(Append(s, e), S), R) = Only(Append(s, e), B)
    BY <2>3, <2>4, <2>5, <2>6
  <2>8. QED BY <2>1, <2>7 DEF T, B
<1> HIDE DEF T
<1>3. T \in SUBSET Seq(X)
  BY DEF T
<1>4. T = Seq(X)
  BY <1>1, <1>2, <1>3, AllSequences
<1>5. QED BY <1>4 DEF T

LEMMA ToSetBoth ==
  ASSUME NEW X, NEW r \in Seq(X), NEW s \in Seq(X)
  PROVE  ToSet(r \o s) = ToSet(r) \cup ToSet(s)
<1>1. /\ r \o s \in Seq(X) /\ Len(r \o s) = Len(r) + Len(s)
      /\ Len(r) \in Nat /\ Len(s) \in Nat
      /\ DOMAIN r = 1..Len(r) /\ DOMAIN s = 1..Len(s)
      /\ DOMAIN (r \o s) = 1..(Len(r) + Len(s))
  OBVIOUS
<1>2. /\ \A k \in 1..Len(r) : (r \o s)[k] = r[k]
      /\ \A k \in 1..Len(s) : (r \o s)[Len(r) + k] = s[k]
      /\ \A k \in 1..(Len(r) + Len(s)) :
           k \in 1..Len(r) \/ (k - Len(r) \in 1..Len(s) /\ Len(r) + (k - Len(r)) = k)
  OBVIOUS
<1> DEFINE q == r \o s
<1>3. /\ \A k \in 1..Len(r) : q[k] = r[k] /\ k \in DOMAIN q
      /\ \A k \in 1..Len(s) : q[Len(r) + k] = s[k] /\ Len(r) + k \in DOMAIN q
      /\ \A k \in DOMAIN q : k \in 1..Len(r) \/ \E j \in 1..Len(s) : k = Len(r) + j
  <2>1. DOMAIN q = 1..(Len(r) + Len(s))
    BY <1>1
  <2>2. /\ \A k \in 1..Len(r) : k \in DOMAIN q
        /\ \A k \in 1..Len(s) : Len(r) + k \in DOMAIN q
    BY <1>1, <2>1
  <2>3. ASSUME NEW k \in DOMAIN q
        PROVE  k \in 1..Len(r) \/ \E j \in 1..Len(s) : k = Len(r) + j
    <3>1. k \in 1..Len(r) \/ (k - Len(r) \in 1..Len(s) /\ Len(r) + (k - Len(r)) = k)
      BY <1>2, <2>1
    <3> HIDE DEF q
    <3>2. QED BY <3>1
  <2>4. QED BY <1>2, <2>2, <2>3
<1> HIDE DEF q
<1>4. ToSet(q) \subseteq ToSet(r) \cup ToSet(s)
  <2> SUFFICES ASSUME NEW k \in DOMAIN q PROVE q[k] \in ToSet(r) \cup ToSet(s)
    BY DEF ToSet
  <2>1. QED BY <1>1, <1>3 DEF ToSet
<1>5. ToSet(r) \subseteq ToSet(q)
  BY <1>1, <1>3 DEF ToSet
<1>6. ToSet(s) \subseteq ToSet(q)
  BY <1>1, <1>3 DEF ToSet
<1>7. QED BY <1>4, <1>5, <1>6 DEF q

-----------------------------------------------------------------------------
(* Two orders that agree on what they share.                               *)

Agrees(r, s) == Only(r, ToSet(s)) = Only(s, ToSet(r))

LEMMA AgreesItself ==
  ASSUME NEW r
  PROVE  Agrees(r, r)
BY DEF Agrees

LEMMA AgreesOnly ==
  ASSUME NEW X, NEW r \in Seq(X), NEW s \in Seq(X), Agrees(r, s), NEW A
  PROVE  Agrees(Only(r, A), s)
<1>1. Only(Only(r, A), ToSet(s)) = Only(r, A \cap ToSet(s))
  BY OnlyOnly
<1>2. Only(Only(r, ToSet(s)), A) = Only(r, ToSet(s) \cap A)
  BY OnlyOnly
<1>3. Only(Only(s, ToSet(r)), A) = Only(s, ToSet(r) \cap A)
  BY OnlyOnly
<1>4. ToSet(Only(r, A)) = ToSet(r) \cap A
  BY OnlyElements
<1>5. A \cap ToSet(s) = ToSet(s) \cap A
  OBVIOUS
<1>6. QED BY <1>1, <1>2, <1>3, <1>4, <1>5 DEF Agrees

LEMMA AgreesOneMore ==
  ASSUME NEW X, NEW r \in Seq(X), NEW s \in Seq(X), Agrees(r, s),
         NEW e \in X, e \notin ToSet(s)
  PROVE  Agrees(Append(r, e), s)
<1>1. Only(Append(r, e), ToSet(s)) = Only(r, ToSet(s))
  BY OnlyOneMore
<1>2. ToSet(Append(r, e)) = ToSet(r) \cup {e}
  BY ToSetOneMore
<1>3. ToSet(s) \cap (ToSet(r) \cup {e}) = ToSet(s) \cap ToSet(r)
  OBVIOUS
<1>4. Only(s, ToSet(r) \cup {e}) = Only(s, ToSet(r))
  BY <1>3, OnlySame
<1>5. QED BY <1>1, <1>2, <1>4 DEF Agrees

\* What has all of another's order agrees when the other is the same of it.
LEMMA EqualAgrees ==
  ASSUME NEW X, NEW w \in Seq(X), NEW s \in Seq(X),
         SameOrder(w, s), ToSet(w) \subseteq ToSet(s)
  PROVE  w = s
<1>1. Only(w, ToSet(s)) = w
  BY OnlyWhole
<1>2. QED BY <1>1 DEF SameOrder

-----------------------------------------------------------------------------
(* Merging an order into another, and placing the result.                  *)

LEMMA MergedIs ==
  ASSUME NEW X, NEW w \in Seq(X), NEW f \in Seq(X)
  PROVE  /\ Merged(w, f) \in Seq(X) /\ ToSet(Merged(w, f)) = ToSet(f)
         /\ Only(Merged(w, f), ToSet(w)) = Only(w, ToSet(f))
         /\ Only(Merged(w, f), ToSet(f) \ ToSet(w)) = Only(f, ToSet(f) \ ToSet(w))
<1> DEFINE W == ToSet(w)
           F == ToSet(f)
           a == Only(w, F)
           b == Only(f, F \ W)
<1>1. /\ a \in Seq(X) /\ ToSet(a) = W \cap F
      /\ b \in Seq(X) /\ ToSet(b) = F \cap (F \ W)
  BY OnlyElements
<1>2. Merged(w, f) = Joined(a, b)
  BY DEF Merged, Joined
<1>3. /\ Only(a, W) = a /\ Only(a, F \ W) = <<>>
      /\ Only(b, F \ W) = b /\ Only(b, W) = <<>>
  <2> HIDE DEF a, b, W, F
  <2>1. ToSet(a) \subseteq W /\ ToSet(a) \cap (F \ W) = {}
    BY <1>1
  <2>2. ToSet(b) \subseteq F \ W /\ ToSet(b) \cap W = {}
    BY <1>1
  <2>3. QED BY <1>1, <2>1, <2>2, OnlyWhole, OnlyEmpty
<1> HIDE DEF a, b, W, F
<1>4. /\ Joined(a, b) \in Seq(X) /\ Joined(a, <<>>) = a /\ Joined(<<>>, b) = b
      /\ \A S : Only(Joined(a, b), S) = Joined(Only(a, S), Only(b, S))
  BY <1>1, OnlyJoined
<1>5. ToSet(Joined(a, b)) = F
  <2>1. ToSet(a \o b) = ToSet(a) \cup ToSet(b)
    BY <1>1, ToSetBoth
  <2>2. ToSet(Joined(a, b)) = ToSet(a) \cup ToSet(b)
    BY <2>1, Zenon DEF Joined
  <2>3. QED BY <1>1, <2>2
<1>6. Only(Joined(a, b), W) = a /\ Only(Joined(a, b), F \ W) = b
  BY <1>3, <1>4
<1>7. QED BY <1>2, <1>4, <1>5, <1>6 DEF a, b, W, F

\* p is put into g: what it does not name follows in its old order.
PutInto(p, g) == p \o Only(g, ToSet(g) \ ToSet(p))

LEMMA PlacedIs ==
  ASSUME NEW X, NEW p \in Seq(X), NEW g \in Seq(X), ToSet(p) \subseteq ToSet(g)
  PROVE  /\ PutInto(p, g) \in Seq(X) /\ ToSet(PutInto(p, g)) = ToSet(g)
         /\ Agrees(PutInto(p, g), p)
         /\ \A S : (ToSet(g) \ ToSet(p)) \cap S = {} =>
              Only(PutInto(p, g), S) = Only(p, S)
<1> DEFINE P == ToSet(p)
           G == ToSet(g)
           q == Only(g, G \ P)
           r == Joined(p, q)
<1>1. q \in Seq(X) /\ ToSet(q) = G \cap (G \ P)
  BY OnlyElements
<1>2. PutInto(p, g) = r
  BY DEF PutInto, Joined
<1> HIDE DEF q
<1>3. ToSet(r) = G
  <2>1. ToSet(p \o q) = P \cup ToSet(q)
    BY <1>1, ToSetBoth
  <2>2. ToSet(r) = P \cup ToSet(q)
    BY <2>1, Zenon DEF Joined
  <2> HIDE DEF r
  <2>3. QED BY <1>1, <2>2
<1>4. /\ r \in Seq(X) /\ \A t \in Seq(X) : Joined(t, <<>>) = t
      /\ \A S : Only(r, S) = Joined(Only(p, S), Only(q, S))
  BY <1>1, OnlyJoined
<1> HIDE DEF r
<1>5. ASSUME NEW S, (G \ P) \cap S = {} PROVE Only(r, S) = Only(p, S)
  <2>1. ToSet(q) \cap S = {}
    BY <1>1, <1>5
  <2>2. Only(q, S) = <<>>
    BY <1>1, <2>1, OnlyEmpty
  <2>3. Only(p, S) \in Seq(X)
    BY OnlyElements
  <2>4. QED BY <1>4, <2>2, <2>3
<1>6. Agrees(r, p)
  <2>1. (G \ P) \cap P = {}
    OBVIOUS
  <2>2. Only(r, P) = Only(p, P)
    BY <1>5, <2>1
  <2>3. Only(p, P) = p /\ Only(p, G) = p
    BY OnlyWhole
  <2>4. QED BY <1>3, <2>2, <2>3 DEF Agrees
<1>7. QED BY <1>2, <1>3, <1>4, <1>5, <1>6

-----------------------------------------------------------------------------
(* The orders that the model makes.                                        *)

\* What the wanted order may have: also ids that the destination does not have.
Thing == Object \cup (Item \X {0, 1}) \cup {Invalid}

LEMMA SeqIn ==
  ASSUME NEW X, NEW Y, NEW s \in Seq(X), ToSet(s) \subseteq Y
  PROVE  s \in Seq(Y)
<1>1. Len(s) \in Nat /\ DOMAIN s = 1..Len(s) /\ s = [k \in 1..Len(s) |-> s[k]]
  OBVIOUS
<1>2. \A k \in 1..Len(s) : s[k] \in Y
  BY <1>1 DEF ToSet
<1>3. [k \in 1..Len(s) |-> s[k]] \in Seq(Y)
  BY <1>1, <1>2
<1>4. QED BY <1>1, <1>3

LEMMA NoOrderIsNone ==
  ASSUME NEW X, NEW s \in Seq(X)
  PROVE  s # NoOrder
<1>1. DOMAIN s = 1..Len(s) /\ Len(s) \in Nat
  OBVIOUS
<1>2. 0 \notin DOMAIN s /\ 0 \in DOMAIN NoOrder
  BY <1>1 DEF NoOrder
<1>3. QED BY <1>2

\* Objects, by name and generation.
LEMMA ObjectIs ==
  ASSUME NEW o \in Object
  PROVE  /\ Name(o) \in Item \cup Extra
         /\ Name(o) \in Item => o \in Item \X (1..MaxMade) /\ o[2] \in Nat
         /\ Name(o) \in Extra => Name(o) \notin Item
<1>1. Item \cap Extra = {} /\ MaxMade \in Nat
  BY OrdersAssumption
<1>2. CASE o \in Item \X (1..MaxMade)
  BY <1>1, <1>2 DEF Name
<1>3. CASE o \in Extra \X {1}
  BY <1>1, <1>3 DEF Name
<1>4. QED BY <1>2, <1>3 DEF Object

LEMMA ListsAre == Lists \subseteq Seq(Item)
<1> SUFFICES ASSUME NEW S \in SUBSET Item, NEW l \in SetToSeqs(S)
             PROVE  l \in Seq(Item)
  BY DEF Lists, SetToAllKPermutations
<1>1. IsFiniteSet(S)
  BY OrdersAssumption, FS_Subset
<1>2. Cardinality(S) \in Nat
  BY <1>1, FS_CardinalityType
<1>3. l \in [1..Cardinality(S) -> S]
  BY DEF SetToSeqs
<1>4. l \in [1..Cardinality(S) -> Item]
  BY <1>3
<1>5. QED BY <1>2, <1>4

\* The wanted order is one of items.
LEMMA WantedIs ==
  ASSUME OrdersTypeOK
  PROVE  /\ src \in Seq(Item)
         /\ Wanted \in Seq(Thing)
         /\ \A o \in ToSet(Wanted) : Name(o) \in Item
<1>1. src \in Seq(Item)
  <2>1. src \in Lists \/ src = <<>>
    BY DEF OrdersTypeOK
  <2>2. <<>> \in Seq(Item)
    OBVIOUS
  <2>3. QED BY <2>1, <2>2, ListsAre
<1>2. ASSUME NEW i \in Item
      PROVE  /\ Connected(i) \in Thing
             /\ Connected(i) # Invalid => Name(Connected(i)) = i
  <2>1. dest[i] \in {Nothing, Invalid} \cup Named(Object, i)
    BY DEF OrdersTypeOK
  <2>2. <<i, 1>> \in Thing /\ <<i, 0>> \in Thing
    BY DEF Thing
  <2>3. CASE dest[i] = Nothing
    BY <2>2, <2>3 DEF Connected, Name
  <2>4. CASE dest[i] # Nothing /\ dest[i] = Invalid
    BY <2>4 DEF Connected, Thing
  <2>5. CASE dest[i] # Nothing /\ dest[i] \in Named(Object, i)
    BY <2>5 DEF Connected, Named, Thing
  <2>6. QED BY <2>1, <2>3, <2>4, <2>5
<1> DEFINE ids == [k \in DOMAIN src |-> Connected(src[k])]
<1>3. /\ Len(src) \in Nat /\ DOMAIN src = 1..Len(src)
      /\ \A k \in 1..Len(src) : src[k] \in Item
  BY <1>1
<1>4. ids \in Seq(Thing)
  <2>1. ids \in [1..Len(src) -> Thing]
    BY <1>2, <1>3
  <2> HIDE DEF ids
  <2>2. QED BY <1>3, <2>1
<1>5. \A o \in ToSet(ids) : o # Invalid => Name(o) \in Item
  <2> SUFFICES ASSUME NEW k \in DOMAIN ids, ids[k] # Invalid
               PROVE  Name(ids[k]) \in Item
    BY DEF ToSet
  <2>1. src[k] \in Item /\ ids[k] = Connected(src[k])
    BY <1>3
  <2> HIDE DEF ids
  <2>2. QED BY <1>2, <2>1
<1>6. Wanted = Only(ids, ToSet(ids) \ {Invalid})
  BY DEF Wanted
<1> HIDE DEF ids
<1>7. /\ Wanted \in Seq(Thing)
      /\ ToSet(Wanted) = ToSet(ids) \cap (ToSet(ids) \ {Invalid})
  BY <1>4, <1>6, OnlyElements
<1>8. QED BY <1>1, <1>5, <1>7

LEMMA ObjectsAreThings == Seq(Object) \subseteq Seq(Thing)
<1>1. Object \subseteq Thing
  BY DEF Thing
<1>2. QED BY <1>1

\* The merged order has the objects of the destination.
LEMMA MergedObjects ==
  ASSUME OrdersTypeOK, NEW f \in Seq(Object)
  PROVE  /\ Merged(Wanted, f) \in Seq(Object)
         /\ ToSet(Merged(Wanted, f)) = ToSet(f)
<1>1. Wanted \in Seq(Thing) /\ f \in Seq(Thing)
  BY WantedIs, ObjectsAreThings
<1>2. Merged(Wanted, f) \in Seq(Thing) /\ ToSet(Merged(Wanted, f)) = ToSet(f)
  BY <1>1, MergedIs
<1>3. ToSet(f) \subseteq Object
  BY ToSetIn
<1>4. QED BY <1>2, <1>3, SeqIn

LEMMA PlacedObjects ==
  ASSUME org \in Seq(Object), payload \in Seq(Object), Accepted
  PROVE  Placed \in Seq(Object) /\ ToSet(Placed) = ToSet(org)
<1>1. Placed = PutInto(payload, org) /\ ToSet(payload) \subseteq ToSet(org)
  BY DEF Placed, PutInto, Accepted
<1>2. QED BY <1>1, PlacedIs

LEMMA MovedLastIs ==
  ASSUME NEW s \in Seq(Object), NEW o
  PROVE  MovedLast(s, o) \in Seq(Object) /\ ToSet(MovedLast(s, o)) = ToSet(s)
<1>1. Without(s, o) \in Seq(Object) /\ ToSet(Without(s, o)) = ToSet(s) \ {o}
  <2>1. ToSet(s) \cap (ToSet(s) \ {o}) = ToSet(s) \ {o}
    OBVIOUS
  <2>2. QED BY <2>1, OnlyElements DEF Without
<1>2. CASE Contains(s, o)
  <2>1. o \in ToSet(s) /\ ToSet(s) \subseteq Object
    BY <1>2 DEF Contains, ToSet
  <2>2. ToSet(Append(Without(s, o), o)) = ToSet(Without(s, o)) \cup {o}
    BY <1>1, <2>1, ToSetOneMore
  <2>3. Append(Without(s, o), o) \in Seq(Object)
    BY <1>1, <2>1
  <2>4. (ToSet(s) \ {o}) \cup {o} = ToSet(s)
    BY <2>1
  <2>5. MovedLast(s, o) = Append(Without(s, o), o)
    BY <1>2 DEF MovedLast
  <2>6. QED BY <1>1, <2>2, <2>3, <2>4, <2>5
<1>3. CASE ~Contains(s, o)
  BY <1>3 DEF MovedLast
<1>4. QED BY <1>2, <1>3

LEMMA WithoutIs ==
  ASSUME NEW s \in Seq(Object), NEW o
  PROVE  Without(s, o) \in Seq(Object) /\ ToSet(Without(s, o)) = ToSet(s) \ {o}
<1>1. ToSet(s) \cap (ToSet(s) \ {o}) = ToSet(s) \ {o}
  OBVIOUS
<1>2. QED BY <1>1, OnlyElements DEF Without

\* What others may make of the order.
LEMMA OthersMake ==
  ASSUME OrdersTypeOK, Others
  PROVE  /\ org' \in Seq(Object)
         /\ \A o \in ToSet(org') : o \in ToSet(org) \/ Name(o) \notin Item
<1>0. org \in Seq(Object)
  BY DEF OrdersTypeOK
<1>1. ASSUME NEW e \in Extra, org' = Append(org, <<e, 1>>)
      PROVE  /\ org' \in Seq(Object)
             /\ \A o \in ToSet(org') : o \in ToSet(org) \/ Name(o) \notin Item
  <2>1. <<e, 1>> \in Object /\ Name(<<e, 1>>) = e /\ e \notin Item
    BY OrdersAssumption DEF Object, Name
  <2>2. ToSet(org') = ToSet(org) \cup {<<e, 1>>} /\ org' \in Seq(Object)
    BY <1>0, <1>1, <2>1, ToSetOneMore
  <2>3. QED BY <2>1, <2>2
<1>2. ASSUME NEW o, org' \in {Without(org, o), MovedLast(org, o)}
      PROVE  org' \in Seq(Object) /\ ToSet(org') \subseteq ToSet(org)
  BY <1>0, <1>2, WithoutIs, MovedLastIs
<1>3. \/ \E e \in Extra : org' = Append(org, <<e, 1>>)
      \/ \E o : org' \in {Without(org, o), MovedLast(org, o)}
  BY DEF Others
<1>4. CASE \E e \in Extra : org' = Append(org, <<e, 1>>)
  BY <1>1, <1>4
<1>5. CASE \E o : org' \in {Without(org, o), MovedLast(org, o)}
  BY <1>2, <1>5
<1>6. QED BY <1>3, <1>4, <1>5

-----------------------------------------------------------------------------
(* The invariant of the orders.                                            *)

\* What the merged order is merged into.
Present == IF fetched # NoOrder THEN fetched ELSE entry

PassOK ==
  /\ stage # "idle" => verdict = "none"
  /\ stage \in {"idle", "cleanup", "hooks"} => fetched = NoOrder

\* No order knows a generation that is not made yet.
OnlyMade(s) ==
  s # NoOrder => \A o \in ToSet(s) : Name(o) \in Item => o[2] <= made[Name(o)]

MadeOK == OnlyMade(org) /\ OnlyMade(entry) /\ OnlyMade(fetched)

\* The destination has not changed the order of what an order names; and an index
\* does not go away.
Told(s) ==
  s # NoOrder => /\ Agrees(org, s)
                 /\ kind = "logs_indexes" => ToSet(s) \subseteq ToSet(org)

ToldOK == ~doubt => Told(entry) /\ Told(fetched)

\* What is to be put, and what was read before.
ReadyOK ==
  stage = "put" =>
    /\ payload = Merged(Wanted, Present) /\ Present # NoOrder
    /\ kind # "logs_indexes" =>
         fetched # NoOrder /\ ToSet(org) \cap ToSet(Wanted) \subseteq ToSet(fetched)

OrdersInv ==
  /\ OrdersTypeOK /\ PassOK /\ MadeOK /\ ToldOK /\ ReadyOK
  /\ ReportedOrderMirrors

LEMMA OrdersInitInv == OrdersInit => OrdersInv
<1> SUFFICES ASSUME OrdersInit PROVE OrdersInv
  OBVIOUS
<1> USE DEF OrdersInit
<1>1. /\ skipFailed \in BOOLEAN /\ cleanup \in BOOLEAN
      /\ MaxMade \in Nat /\ MaxPasses \in Nat /\ MaxOutside \in Nat
  <2>1. PICK o \in Options : skipFailed = o[1] /\ cleanup = o[2]
    OBVIOUS
  <2>2. o \in BOOLEAN \X BOOLEAN
    BY OrdersAssumption
  <2>3. QED BY <2>1, <2>2, OrdersAssumption
<1>2. <<>> \in Seq(Object) /\ ToSet(<<>>) = {}
  BY ToSetNone
<1>3. OrdersTypeOK
  <2>1. /\ \A i \in Item : dest[i] \in {Nothing, Invalid} \cup Named(Object, i)
        /\ dest = [i \in Item |-> dest[i]]
    OBVIOUS
  <2>2. /\ made \in [Item -> 0..MaxMade] /\ passes \in 0..MaxPasses
        /\ outside \in 0..MaxOutside
    BY <1>1
  <2>3. /\ org \in Seq(Object) /\ payload \in Seq(Object)
        /\ entry \in {NoOrder} \cup Seq(Object) /\ fetched \in {NoOrder} \cup Seq(Object)
        /\ src \in Lists \cup {<<>>} /\ todo \subseteq Item /\ known \subseteq Object
    BY <1>2
  <2>4. QED BY <1>1, <2>1, <2>2, <2>3 DEF OrdersTypeOK
<1>4. QED
  BY <1>2, <1>3
     DEF OrdersInv, PassOK, MadeOK, OnlyMade, ToldOK, Told, ReadyOK,
         ReportedOrderMirrors, NothingNew

\* The changes of the states of items and order alone.
LEMMA OrdersTypeStep == OrdersTypeOK /\ [OrdersNext]_ordersVars => OrdersTypeOK'
<1> SUFFICES ASSUME OrdersTypeOK, [OrdersNext]_ordersVars PROVE OrdersTypeOK'
  OBVIOUS
<1> USE DEF orgVars, readVars, optionVars
<1>0. /\ MaxMade \in Nat /\ MaxPasses \in Nat /\ MaxOutside \in Nat
      /\ passes \in 0..MaxPasses /\ outside \in 0..MaxOutside
      /\ <<>> \in Seq(Object)
  BY OrdersAssumption DEF OrdersTypeOK
<1>1. CASE Others
  <2>1. org' \in Seq(Object)
    BY <1>1, OthersMake
  <2>2. outside' \in 0..MaxOutside
    BY <1>0, <1>1 DEF Others
  <2>3. QED BY <1>1, <2>1, <2>2 DEF Others, OrdersTypeOK
<1>2. CASE StartSync
  <2>1. passes' \in 0..MaxPasses
    BY <1>0, <1>2 DEF StartSync
  <2>2. QED BY <1>2, <2>1 DEF StartSync, OrdersTypeOK
<1>3. ASSUME NEW i \in Item, Delete(i) PROVE OrdersTypeOK'
  <2>1. org' \in Seq(Object)
    <3>1. org \in Seq(Object)
      BY DEF OrdersTypeOK
    <3>2. AfterDelete(i) \in Seq(Object)
      BY <3>1, WithoutIs, MovedLastIs DEF AfterDelete
    <3>3. QED BY <1>3, <3>1, <3>2 DEF Delete
  <2>2. dest' = dest \/ dest' = [dest EXCEPT ![i] = Nothing]
    BY <1>3 DEF Delete
  <2>3. /\ \A j \in Item : dest'[j] \in {Nothing, Invalid} \cup Named(Object, j)
        /\ dest' = [j \in Item |-> dest'[j]]
    BY <2>2 DEF OrdersTypeOK
  <2>4. doubt' \in BOOLEAN
    BY <1>3 DEF Delete, OrdersTypeOK
  <2>5. QED BY <1>3, <2>1, <2>3, <2>4 DEF Delete, OrdersTypeOK
<1>4. CASE MapExisting
  <2>1. ToSet(org) \subseteq Object
    BY ToSetIn DEF OrdersTypeOK
  <2>2. QED BY <1>4, <2>1 DEF MapExisting, OrdersTypeOK
<1>5. CASE PreApplyHook
  <2>1. ToSet(org) \subseteq Object /\ ToSet(src) \subseteq Item
    <3>1. src \in Seq(Item)
      BY WantedIs
    <3>2. QED BY <3>1, ToSetIn DEF OrdersTypeOK
  <2>2. known' \subseteq Object
    BY <1>5, <2>1 DEF PreApplyHook, OrdersTypeOK
  <2>3. todo' \subseteq Item /\ fetched' \in {NoOrder} \cup Seq(Object)
    BY <1>5, <2>1 DEF PreApplyHook, OrdersTypeOK
  <2>4. QED BY <1>5, <2>2, <2>3 DEF PreApplyHook, OrdersTypeOK
<1>6. ASSUME NEW i \in Item, Untried(i), UNCHANGED <<org, made>>,
             \/ UNCHANGED dest \/ dest' = [dest EXCEPT ![i] = Invalid]
             \/ \E o \in Named(Object, i) : dest' = [dest EXCEPT ![i] = o]
      PROVE  OrdersTypeOK'
  <2>1. /\ \A j \in Item : dest'[j] \in {Nothing, Invalid} \cup Named(Object, j)
        /\ dest' = [j \in Item |-> dest'[j]]
    BY <1>6 DEF OrdersTypeOK
  <2>2. QED BY <1>6, <2>1 DEF Untried, OrdersTypeOK
<1>7. ASSUME NEW i \in Item, \/ Adopt(i) \/ AdoptPresent(i)
                             \/ EnterInvalid(i) \/ CreateFails(i)
      PROVE  OrdersTypeOK'
  <2>1. Named(known, i) \cup Named(ToSet(org), i) \subseteq Named(Object, i)
    <3>1. known \subseteq Object /\ ToSet(org) \subseteq Object
      BY ToSetIn DEF OrdersTypeOK
    <3>2. QED BY <3>1 DEF Named
  <2>2. QED BY <1>6, <1>7, <2>1 DEF Adopt, AdoptPresent, EnterInvalid, CreateFails
<1>8. ASSUME NEW i \in Item, Create(i) PROVE OrdersTypeOK'
  <2>1. made[i] \in 0..MaxMade /\ made[i] < MaxMade
    BY <1>8 DEF Create, MayCreate, OrdersTypeOK
  <2>2. NewObject(i) \in Named(Object, i)
    <3>1. made[i] + 1 \in 1..MaxMade /\ 1 \in 1..MaxMade
      BY <1>0, <2>1
    <3>2. QED BY <3>1 DEF NewObject, Named, Object, Name
  <2>3. org' \in Seq(Object)
    BY <1>8, <2>2 DEF Create, OrdersTypeOK, Named
  <2>4. made' \in [Item -> 0..MaxMade]
    <3>1. made[i] + 1 \in 0..MaxMade
      BY <1>0, <2>1
    <3>2. QED BY <1>8, <3>1 DEF Create, OrdersTypeOK
  <2>5. /\ \A j \in Item : dest'[j] \in {Nothing, Invalid} \cup Named(Object, j)
        /\ dest' = [j \in Item |-> dest'[j]]
    <3>1. dest' = dest \/ dest' = [dest EXCEPT ![i] = NewObject(i)]
      BY <1>8 DEF Create
    <3>2. QED BY <2>2, <3>1 DEF OrdersTypeOK
  <2>6. QED BY <1>8, <2>3, <2>4, <2>5 DEF Create, Untried, OrdersTypeOK
<1>9. CASE ApplyOrder
  <2>1. Read \in {NoOrder} \cup Seq(Object)
    BY DEF Read, OrdersTypeOK
  <2> DEFINE present == IF Read # NoOrder THEN Read ELSE entry
  <2>2. present # NoOrder => present \in Seq(Object) /\ Merged(Wanted, present) \in Seq(Object)
    <3>1. present \in {NoOrder} \cup Seq(Object)
      BY <2>1 DEF OrdersTypeOK
    <3> HIDE DEF present
    <3>2. QED BY <3>1, MergedObjects
  <2>3. \/ Ends("missing") /\ UNCHANGED entry
        \/ Ends("skipped") /\ UNCHANGED entry
        \/ Ends("failed") /\ UNCHANGED entry
        \/ /\ present # NoOrder /\ payload' = Merged(Wanted, present)
           /\ entry' = IF entry = NoOrder THEN present ELSE entry
           /\ fetched' = Read /\ stage' = "put" /\ UNCHANGED <<known, verdict>>
    BY <1>9 DEF ApplyOrder
  <2>4. UNCHANGED <<optionVars, orgVars, dest, src, todo, passes>>
    BY <1>9 DEF ApplyOrder
  <2>5. CASE \E v \in {"missing", "skipped", "failed"} : Ends(v) /\ UNCHANGED entry
    BY <1>0, <2>4, <2>5 DEF Ends, OrdersTypeOK
  <2> HIDE DEF present
  <2>6. CASE /\ present # NoOrder /\ payload' = Merged(Wanted, present)
             /\ entry' = IF entry = NoOrder THEN present ELSE entry
             /\ fetched' = Read /\ stage' = "put" /\ UNCHANGED <<known, verdict>>
    BY <2>1, <2>2, <2>4, <2>6 DEF OrdersTypeOK
  <2>7. QED BY <2>3, <2>5, <2>6
<1>10. CASE OrderHookFails
  BY <1>0, <1>10 DEF OrderHookFails, Ends, OrdersTypeOK
<1>11. CASE PutOrder
  <2>1. Placed \in Seq(Object)
    BY <1>11, PlacedObjects DEF PutOrder, OrdersTypeOK
  <2>2. org' \in Seq(Object) /\ entry' \in Seq(Object)
    BY <1>11, <2>1 DEF PutOrder, OrdersTypeOK
  <2>3. QED BY <1>0, <1>11, <2>2 DEF PutOrder, Ends, OrdersTypeOK
<1>12. CASE PutLost
  <2>1. Placed \in Seq(Object)
    BY <1>12, PlacedObjects DEF PutLost, OrdersTypeOK
  <2>2. QED BY <1>0, <1>12, <2>1 DEF PutLost, Ends, OrdersTypeOK
<1>13. CASE PutRefused \/ PutFails
  BY <1>0, <1>13 DEF PutRefused, PutFails, Ends, OrdersTypeOK
<1>14. CASE UNCHANGED ordersVars
  BY <1>14 DEF ordersVars, OrdersTypeOK
<1>15. QED
  BY <1>1, <1>2, <1>3, <1>4, <1>5, <1>7, <1>8, <1>9, <1>10, <1>11, <1>12, <1>13,
     <1>14 DEF OrdersNext

\* The parts of the invariant that OrdersTypeStep leaves.
OrdersRest == PassOK /\ MadeOK /\ ToldOK /\ ReadyOK /\ ReportedOrderMirrors

LEMMA WantedStays ==
  ASSUME UNCHANGED <<src, dest, kind>>
  PROVE  Wanted' = Wanted
<1>1. \A i : Connected(i)' = Connected(i)
  BY DEF Connected
<1>2. QED BY <1>1 DEF Wanted

\* Every step that leaves the order of the destination alone.
LEMMA OrderStays ==
  ASSUME OrdersInv, UNCHANGED <<kind, org, made, entry, doubt>>,
         fetched' \in {fetched, NoOrder}
  PROVE  MadeOK' /\ ToldOK'
<1>1. MadeOK'
  BY DEF OrdersInv, MadeOK, OnlyMade
<1>2. ToldOK'
  BY DEF OrdersInv, ToldOK, Told
<1>3. QED BY <1>1, <1>2

\* Every step that neither prepares an order nor reports one.
LEMMA NothingSaid ==
  ASSUME stage' # "put", verdict' \notin {"success", "skipped"}
  PROVE  ReadyOK' /\ ReportedOrderMirrors'
BY DEF ReadyOK, ReportedOrderMirrors, NothingNew

LEMMA OthersRest == OrdersInv /\ Others => OrdersRest'
<1> SUFFICES ASSUME OrdersInv, Others PROVE OrdersRest'
  OBVIOUS
<1>1. \A o \in ToSet(org') : o \in ToSet(org) \/ Name(o) \notin Item
  BY OthersMake DEF OrdersInv
<1>2. /\ doubt' = TRUE
      /\ UNCHANGED <<kind, dest, entry, src, stage, made, fetched, payload, verdict>>
  BY DEF Others, optionVars, readVars
<1>3. PassOK'
  BY <1>2 DEF OrdersInv, PassOK
<1>4. MadeOK'
  <2>1. org # NoOrder
    BY NoOrderIsNone DEF OrdersInv, OrdersTypeOK
  <2>2. OnlyMade(org)'
    BY <1>1, <1>2, <2>1 DEF OrdersInv, MadeOK, OnlyMade
  <2>3. QED BY <1>2, <2>2 DEF OrdersInv, MadeOK, OnlyMade
<1>5. ToldOK' /\ ReportedOrderMirrors'
  BY <1>2 DEF ToldOK, ReportedOrderMirrors
<1>6. ReadyOK'
  <2>1. Wanted' = Wanted
    BY <1>2, WantedStays
  <2>2. \A o \in ToSet(Wanted) : Name(o) \in Item
    BY WantedIs DEF OrdersInv
  <2>3. ToSet(org') \cap ToSet(Wanted) \subseteq ToSet(org) \cap ToSet(Wanted)
    BY <1>1, <2>2
  <2>4. Present' = Present
    BY <1>2 DEF Present
  <2>5. QED BY <1>2, <2>1, <2>3, <2>4 DEF OrdersInv, ReadyOK
<1>7. QED BY <1>3, <1>4, <1>5, <1>6 DEF OrdersRest

\* What a deletion leaves of an order agrees as the whole did.
LEMMA DeleteRest ==
  ASSUME OrdersInv, NEW i \in Item, Delete(i)
  PROVE  OrdersRest'
<1>1. /\ stage = "cleanup" /\ stage' = "cleanup" /\ verdict' = verdict
      /\ UNCHANGED <<kind, entry, made, fetched, payload, src>>
  BY DEF Delete, optionVars, readVars
<1>2. verdict = "none" /\ fetched = NoOrder /\ org \in Seq(Object) /\ org # NoOrder
  BY <1>1, NoOrderIsNone DEF OrdersInv, PassOK, OrdersTypeOK
<1>3. PassOK'
  BY <1>1, <1>2 DEF PassOK
<1>4. ReadyOK' /\ ReportedOrderMirrors'
  BY <1>1, <1>2, NothingSaid
<1>5. CASE UNCHANGED <<org, doubt>>
  <2>1. MadeOK' /\ ToldOK'
    BY <1>1, <1>5, OrderStays
  <2>2. QED BY <1>3, <1>4, <2>1 DEF OrdersRest
<1>6. CASE org' = AfterDelete(i) /\ doubt' = (doubt \/ kind = "logs_indexes")
  <2>1. /\ ToSet(org') \subseteq ToSet(org)
        /\ kind # "logs_indexes" => org' = org \/ org' = Without(org, dest[i])
    BY <1>2, <1>6, WithoutIs, MovedLastIs DEF AfterDelete
  <2>2. MadeOK'
    BY <1>1, <1>2, <2>1 DEF OrdersInv, MadeOK, OnlyMade
  <2>3. ASSUME ~doubt', entry # NoOrder PROVE Told(entry)'
    <3>1. ~doubt /\ kind # "logs_indexes"
      BY <1>6, <2>3
    <3>2. entry \in Seq(Object) /\ Agrees(org, entry)
      BY <2>3, <3>1 DEF OrdersInv, OrdersTypeOK, ToldOK, Told
    <3>3. Agrees(Without(org, dest[i]), entry)
      BY <1>2, <3>2, AgreesOnly DEF Without
    <3>4. Agrees(org', entry)
      BY <2>1, <3>1, <3>2, <3>3
    <3>5. QED BY <1>1, <3>1, <3>4 DEF Told
  <2>4. ToldOK'
    BY <1>1, <1>2, <2>3 DEF ToldOK, Told
  <2>5. QED BY <1>3, <1>4, <2>2, <2>4 DEF OrdersRest
<1>7. QED BY <1>5, <1>6 DEF Delete

\* A new object is in no order yet.
LEMMA CreateRest ==
  ASSUME OrdersInv, NEW i \in Item, Create(i)
  PROVE  OrdersRest'
<1> DEFINE n == NewObject(i)
<1>1. /\ stage = "apply" /\ stage' = "apply" /\ verdict' = verdict
      /\ org' = Append(org, n) /\ made' = [made EXCEPT ![i] = @ + 1]
      /\ UNCHANGED <<kind, entry, fetched, payload, src, doubt>>
  BY DEF Create, Untried, optionVars, readVars
<1>2. verdict = "none" /\ org \in Seq(Object) /\ org # NoOrder
  BY <1>1, NoOrderIsNone DEF OrdersInv, PassOK, OrdersTypeOK
<1>3. PassOK'
  BY <1>1, <1>2 DEF PassOK
<1>4. ReadyOK' /\ ReportedOrderMirrors'
  BY <1>1, <1>2, NothingSaid
<1>5. /\ made \in [Item -> 0..MaxMade] /\ made[i] \in Nat /\ made[i] < MaxMade
      /\ MaxMade \in Nat
  BY OrdersAssumption DEF OrdersInv, OrdersTypeOK, Create, MayCreate
<1>6. /\ n \in Object /\ Name(n) = i /\ n[2] \in Nat /\ n[2] <= made[i] + 1
      /\ kind # "logs_indexes" => n[2] = made[i] + 1
  <2>1. made[i] + 1 \in 1..MaxMade /\ 1 \in 1..MaxMade /\ 1 <= made[i] + 1
    BY <1>5
  <2>2. QED BY <2>1 DEF NewObject, Object, Name
<1> HIDE DEF n
<1>7. ToSet(org') = ToSet(org) \cup {n}
  BY <1>1, <1>2, <1>6, ToSetOneMore
<1>8. \A j \in Item : made[j] \in Nat /\ made'[j] \in Nat /\ made[j] <= made'[j]
  BY <1>1, <1>5
<1>9. made'[i] = made[i] + 1
  BY <1>1, <1>5
<1>10. ASSUME NEW s \in Seq(Object), OnlyMade(s)
       PROVE  /\ \A o \in ToSet(s) : Name(o) \in Item => o[2] <= made'[Name(o)]
              /\ kind # "logs_indexes" => n \notin ToSet(s)
  <2>1. ToSet(s) \subseteq Object /\ s # NoOrder
    BY ToSetIn, NoOrderIsNone
  <2>2. ASSUME NEW o \in ToSet(s), Name(o) \in Item
        PROVE  o[2] \in Nat /\ o[2] <= made[Name(o)] /\ o[2] <= made'[Name(o)]
    <3>1. o[2] \in Nat /\ o[2] <= made[Name(o)]
      BY <1>10, <2>1, <2>2, ObjectIs DEF OnlyMade
    <3>2. made[Name(o)] \in Nat /\ made'[Name(o)] \in Nat
          /\ made[Name(o)] <= made'[Name(o)]
      BY <1>8, <2>2
    <3> DEFINE u == o[2]
               v == made[Name(o)]
               w == made'[Name(o)]
    <3> HIDE DEF u, v, w
    <3>3. u \in Nat /\ v \in Nat /\ w \in Nat /\ u <= v /\ v <= w => u <= w
      OBVIOUS
    <3>4. QED BY <3>1, <3>2, <3>3 DEF u, v, w
  <2>3. ASSUME kind # "logs_indexes", n \in ToSet(s) PROVE FALSE
    <3>1. n[2] <= made[i] /\ n[2] = made[i] + 1
      BY <1>6, <2>2, <2>3
    <3>2. QED BY <1>5, <3>1
  <2>4. QED BY <2>2, <2>3
<1>11. MadeOK'
  <2>1. \A s \in {NoOrder} \cup Seq(Object) : OnlyMade(s) =>
          (s # NoOrder => \A o \in ToSet(s) : Name(o) \in Item => o[2] <= made'[Name(o)])
    BY <1>10
  <2>2. OnlyMade(entry)' /\ OnlyMade(fetched)'
    BY <1>1, <2>1 DEF OrdersInv, OrdersTypeOK, MadeOK, OnlyMade
  <2>3. \A o \in ToSet(org) : Name(o) \in Item => o[2] <= made'[Name(o)]
    BY <1>2, <1>10 DEF OrdersInv, MadeOK
  <2>4. Name(n) \in Item => n[2] <= made'[Name(n)]
    BY <1>6, <1>9
  <2>5. OnlyMade(org)'
    BY <1>7, <2>3, <2>4 DEF OnlyMade
  <2>6. QED BY <2>2, <2>5 DEF MadeOK
<1>12. ASSUME NEW s \in Seq(Object), OnlyMade(s), Told(s)
       PROVE  /\ Agrees(org', s)
              /\ kind = "logs_indexes" => ToSet(s) \subseteq ToSet(org')
  <2>1. /\ s # NoOrder /\ Agrees(org, s)
        /\ kind = "logs_indexes" => ToSet(s) \subseteq ToSet(org)
    BY <1>12, NoOrderIsNone DEF Told
  <2>2. n \notin ToSet(s)
    <3>1. CASE kind # "logs_indexes"
      BY <1>10, <1>12, <3>1
    <3>2. CASE kind = "logs_indexes"
      <4>1. Named(ToSet(org), i) = {}
        BY <3>2 DEF Create, MayCreate
      <4>2. QED BY <1>6, <2>1, <3>2, <4>1 DEF Named
    <3>3. QED BY <3>1, <3>2
  <2>3. Agrees(Append(org, n), s)
    BY <1>2, <1>6, <2>1, <2>2, AgreesOneMore
  <2>4. QED BY <1>1, <1>7, <2>1, <2>3
<1>13. ToldOK'
  <2>1. \A s \in {NoOrder} \cup Seq(Object) : OnlyMade(s) /\ Told(s) =>
          (s # NoOrder => /\ Agrees(org', s)
                          /\ kind = "logs_indexes" => ToSet(s) \subseteq ToSet(org'))
    BY <1>12
  <2>2. QED
    BY <1>1, <2>1 DEF OrdersInv, OrdersTypeOK, MadeOK, ToldOK, Told
<1>14. QED BY <1>3, <1>4, <1>11, <1>13 DEF OrdersRest

\* The steps that neither change an order nor report one.
LEMMA QuietRest ==
  ASSUME OrdersInv, \/ StartSync \/ MapExisting \/ OrderHookFails
                    \/ PutRefused \/ PutFails
                    \/ \E i \in Item : \/ Adopt(i) \/ AdoptPresent(i)
                                       \/ EnterInvalid(i) \/ CreateFails(i)
  PROVE  OrdersRest'
<1> USE DEF optionVars, orgVars, readVars
<1>1. CASE StartSync \/ MapExisting
  <2>1. /\ UNCHANGED <<kind, org, made, entry, doubt, fetched>>
        /\ stage' \in {"cleanup", "hooks"} /\ verdict' = "none"
        /\ stage \in {"idle", "cleanup"}
    BY <1>1 DEF StartSync, MapExisting, OrdersInv, PassOK
  <2>2. PassOK'
    BY <2>1 DEF OrdersInv, PassOK
  <2>3. QED BY <2>1, <2>2, OrderStays, NothingSaid DEF OrdersRest
<1>2. CASE OrderHookFails \/ PutRefused \/ PutFails
  <2>1. /\ UNCHANGED <<kind, org, made, entry, doubt>> /\ fetched' = NoOrder
        /\ stage' = "idle" /\ verdict' \in {"failed", "refused"}
    BY <1>2 DEF OrderHookFails, PutRefused, PutFails, Ends
  <2>2. PassOK'
    BY <2>1 DEF PassOK
  <2>3. QED BY <2>1, <2>2, OrderStays, NothingSaid DEF OrdersRest
<1>3. CASE \E i \in Item : \/ Adopt(i) \/ AdoptPresent(i)
                           \/ EnterInvalid(i) \/ CreateFails(i)
  <2>1. /\ UNCHANGED <<kind, org, made, entry, doubt, fetched, verdict>>
        /\ stage = "apply" /\ stage' = "apply"
    BY <1>3 DEF Adopt, AdoptPresent, EnterInvalid, CreateFails, Untried
  <2>2. verdict' = "none" /\ PassOK'
    BY <2>1 DEF OrdersInv, PassOK
  <2>3. QED BY <2>1, <2>2, OrderStays, NothingSaid DEF OrdersRest
<1>4. QED BY <1>1, <1>2, <1>3

\* The order of the indexes is read.
LEMMA HookRest == OrdersInv /\ PreApplyHook => OrdersRest'
<1> SUFFICES ASSUME OrdersInv, PreApplyHook PROVE OrdersRest'
  OBVIOUS
<1>1. /\ UNCHANGED <<kind, org, made, entry, doubt, verdict>>
      /\ fetched' \in {fetched, org} /\ stage = "hooks" /\ stage' = "apply"
  BY DEF PreApplyHook, optionVars, orgVars
<1>2. verdict' = "none" /\ PassOK'
  BY <1>1 DEF OrdersInv, PassOK
<1>3. ReadyOK' /\ ReportedOrderMirrors'
  BY <1>1, <1>2, NothingSaid
<1>4. CASE fetched' = fetched
  BY <1>1, <1>2, <1>3, <1>4, OrderStays DEF OrdersRest
<1>5. CASE fetched' = org
  <2>1. MadeOK'
    BY <1>1, <1>5 DEF OrdersInv, MadeOK, OnlyMade
  <2>2. Agrees(org, org)
    BY AgreesItself
  <2>3. ToldOK'
    BY <1>1, <1>5, <2>2 DEF OrdersInv, ToldOK, Told
  <2>4. QED BY <1>2, <1>3, <2>1, <2>3 DEF OrdersRest
<1>6. QED BY <1>1, <1>4, <1>5

\* The order is compared, and merged into what was read.
LEMMA ApplyRest == OrdersInv /\ ApplyOrder => OrdersRest'
<1> SUFFICES ASSUME OrdersInv, ApplyOrder PROVE OrdersRest'
  OBVIOUS
<1>1. /\ UNCHANGED <<kind, org, made, doubt, dest, src>>
      /\ stage = "apply" /\ verdict = "none"
  BY DEF ApplyOrder, optionVars, orgVars, OrdersInv, PassOK
<1>2. Wanted' = Wanted
  BY <1>1, WantedStays
<1>3. /\ org \in Seq(Object) /\ entry \in {NoOrder} \cup Seq(Object)
      /\ org # NoOrder
  BY NoOrderIsNone DEF OrdersInv, OrdersTypeOK
<1>4. CASE UNCHANGED entry /\ (Ends("missing") \/ Ends("failed"))
  <2>1. /\ fetched' = NoOrder /\ stage' = "idle" /\ verdict' \in {"missing", "failed"}
        /\ entry' = entry
    BY <1>4 DEF Ends
  <2>2. PassOK'
    BY <2>1 DEF PassOK
  <2>3. QED BY <1>1, <2>1, <2>2, OrderStays, NothingSaid DEF OrdersRest
<1>5. CASE UNCHANGED entry /\ Ends("skipped") /\ entry # NoOrder /\ SameOrder(Wanted, entry)
  <2>1. /\ fetched' = NoOrder /\ stage' = "idle" /\ verdict' = "skipped"
        /\ entry' = entry
    BY <1>5 DEF Ends
  <2>2. PassOK' /\ ReadyOK'
    BY <2>1 DEF PassOK, ReadyOK
  <2>3. MadeOK' /\ ToldOK'
    BY <1>1, <2>1, OrderStays
  <2>4. ASSUME ToSet(Wanted) \subseteq ToSet(entry), ~doubt PROVE Mirrors'
    <3>1. entry \in Seq(Thing) /\ Wanted \in Seq(Thing)
      BY <1>3, <1>5, WantedIs, ObjectsAreThings DEF OrdersInv
    <3>2. Wanted = entry
      BY <1>5, <2>4, <3>1, EqualAgrees
    <3>3. Agrees(org, entry)
      BY <1>5, <2>4 DEF OrdersInv, ToldOK, Told
    <3>4. QED BY <1>1, <1>2, <3>2, <3>3 DEF Mirrors, Agrees
  <2>5. ReportedOrderMirrors'
    BY <1>1, <1>2, <2>1, <2>4 DEF ReportedOrderMirrors, NothingNew
  <2>6. QED BY <2>2, <2>3, <2>5 DEF OrdersRest
<1> DEFINE present == IF Read # NoOrder THEN Read ELSE entry
<1>6. CASE /\ present # NoOrder /\ payload' = Merged(Wanted, present)
           /\ entry' = IF entry = NoOrder THEN present ELSE entry
           /\ fetched' = Read
           /\ stage' = "put" /\ UNCHANGED <<known, verdict>>
  <2>1. PassOK' /\ ReportedOrderMirrors'
    BY <1>1, <1>6 DEF PassOK, ReportedOrderMirrors, NothingNew
  <2>2. /\ Read \in {fetched, org} /\ (kind # "logs_indexes" => Read = org)
        /\ entry' \in {entry, Read} /\ fetched' = Read
    BY <1>6 DEF Read
  <2>3. MadeOK'
    BY <1>1, <2>2 DEF OrdersInv, MadeOK, OnlyMade
  <2>4. Agrees(org, org)
    BY AgreesItself
  <2>5. ToldOK'
    <3>1. ASSUME ~doubt PROVE Told(fetched) /\ Told(entry) /\ Told(org)
      BY <2>4, <3>1 DEF OrdersInv, ToldOK, Told
    <3>2. ASSUME ~doubt PROVE Told(Read) /\ (entry' = entry \/ entry' = Read)
      BY <2>2, <3>1, <3>2
    <3>3. ASSUME ~doubt PROVE Told(fetched)' /\ Told(entry)'
      BY <1>1, <2>2, <3>1, <3>2, <3>3 DEF Told
    <3>4. QED BY <1>1, <3>3 DEF ToldOK
  <2>6. Present' = present
    <3>1. Read = NoOrder => entry # NoOrder /\ entry' = entry
      BY <1>6
    <3>2. QED BY <1>6, <3>1 DEF Present
  <2>7. ReadyOK'
    BY <1>1, <1>2, <1>3, <1>6, <2>2, <2>6 DEF ReadyOK
  <2>8. QED BY <2>1, <2>3, <2>5, <2>7 DEF OrdersRest
<1>7. QED BY <1>4, <1>5, <1>6 DEF ApplyOrder

\* What a merged order that is accepted makes of the destination's.
LEMMA PutMakes ==
  ASSUME OrdersInv, stage = "put", Accepted
  PROVE  /\ Placed \in Seq(Object) /\ ToSet(Placed) = ToSet(org)
         /\ ToSet(payload) \subseteq ToSet(org) /\ payload \in Seq(Object)
         /\ Agrees(Placed, payload)
         /\ Only(Placed, ToSet(Wanted)) = Only(Wanted, ToSet(org))
         /\ LET extras == ToSet(Present) \ ToSet(Wanted)
            IN  Only(Placed, extras) = Only(Present, extras)
<1>1. /\ org \in Seq(Object) /\ payload \in Seq(Object) /\ Present \in Seq(Object)
      /\ payload = Merged(Wanted, Present)
      /\ kind # "logs_indexes" =>
           Present = fetched /\ ToSet(org) \cap ToSet(Wanted) \subseteq ToSet(Present)
  BY DEF OrdersInv, OrdersTypeOK, ReadyOK, Present
<1>2. Wanted \in Seq(Thing) /\ Present \in Seq(Thing)
  BY <1>1, WantedIs, ObjectsAreThings DEF OrdersInv
<1> DEFINE W == ToSet(Wanted)
           P == ToSet(Present)
<1>3. /\ ToSet(payload) = P /\ Only(payload, W) = Only(Wanted, P)
      /\ Only(payload, P \ W) = Only(Present, P \ W)
  BY <1>1, <1>2, MergedIs
<1>4. /\ P \subseteq ToSet(org)
      /\ kind = "logs_indexes" => ToSet(org) \subseteq P
  BY <1>3 DEF Accepted
<1>5. Placed = PutInto(payload, org)
  BY DEF Placed, PutInto
<1>6. /\ Placed \in Seq(Object) /\ ToSet(Placed) = ToSet(org)
      /\ Agrees(Placed, payload)
      /\ \A S : (ToSet(org) \ P) \cap S = {} => Only(Placed, S) = Only(payload, S)
  BY <1>1, <1>3, <1>4, <1>5, PlacedIs
<1> HIDE DEF W, P
<1>7. W \cap ToSet(org) = W \cap P
  BY <1>1, <1>4 DEF W, P
<1>8. Only(Placed, W) = Only(Wanted, ToSet(org))
  <2>1. (ToSet(org) \ P) \cap W = {}
    BY <1>7
  <2>2. Only(Wanted, P) = Only(Wanted, ToSet(org))
    BY <1>2, <1>7, OnlySame DEF W
  <2>3. QED BY <1>3, <1>6, <2>1, <2>2
<1>9. Only(Placed, P \ W) = Only(Present, P \ W)
  <2>1. (ToSet(org) \ P) \cap (P \ W) = {}
    OBVIOUS
  <2>2. QED BY <1>3, <1>6, <2>1
<1>10. QED BY <1>1, <1>3, <1>4, <1>6, <1>8, <1>9 DEF W, P

LEMMA PutRest == OrdersInv /\ (PutOrder \/ PutLost) => OrdersRest'
<1> SUFFICES ASSUME OrdersInv, PutOrder \/ PutLost PROVE OrdersRest'
  OBVIOUS
<1>1. /\ stage = "put" /\ Accepted /\ org' = Placed
      /\ stage' = "idle" /\ fetched' = NoOrder
      /\ UNCHANGED <<kind, made, dest, src>>
      /\ \/ /\ doubt' = FALSE /\ entry' \in {payload, Placed}
            /\ kind = "logs_indexes" => entry' = Placed
         \/ doubt' = TRUE /\ entry' = entry /\ verdict' = "failed"
  BY DEF PutOrder, PutLost, Ends, optionVars
<1>2. /\ Placed \in Seq(Object) /\ ToSet(Placed) = ToSet(org)
      /\ ToSet(payload) \subseteq ToSet(org) /\ payload \in Seq(Object)
      /\ Agrees(Placed, payload)
      /\ Only(Placed, ToSet(Wanted)) = Only(Wanted, ToSet(org))
  BY <1>1, PutMakes
<1>3. Wanted' = Wanted
  BY <1>1, WantedStays
<1>4. PassOK' /\ ReadyOK'
  BY <1>1 DEF PassOK, ReadyOK
<1>5. MadeOK'
  <2>1. org \in Seq(Object) /\ org # NoOrder
    BY NoOrderIsNone DEF OrdersInv, OrdersTypeOK
  <2>2. QED BY <1>1, <1>2, <2>1 DEF OrdersInv, MadeOK, OnlyMade
<1>6. ToldOK'
  <2>1. Agrees(Placed, Placed)
    BY AgreesItself
  <2>2. QED BY <1>1, <1>2, <2>1 DEF ToldOK, Told
<1>7. ReportedOrderMirrors'
  <2>1. Mirrors'
    BY <1>1, <1>2, <1>3 DEF Mirrors
  <2>2. QED BY <2>1 DEF ReportedOrderMirrors
<1>8. QED BY <1>4, <1>5, <1>6, <1>7 DEF OrdersRest

LEMMA OrdersStep == OrdersInv /\ [OrdersNext]_ordersVars => OrdersInv'
<1> SUFFICES ASSUME OrdersInv, [OrdersNext]_ordersVars PROVE OrdersInv'
  OBVIOUS
<1>1. OrdersTypeOK'
  BY OrdersTypeStep DEF OrdersInv
<1>2. OrdersRest'
  <2>1. CASE UNCHANGED ordersVars
    <3>1. /\ UNCHANGED <<kind, org, made, dest, entry, src, stage, fetched, payload,
                         verdict, doubt>>
      BY <2>1 DEF ordersVars, optionVars, orgVars, readVars
    <3>2. Wanted' = Wanted /\ Present' = Present
      BY <3>1, WantedStays DEF Present
    <3>3. MadeOK' /\ ToldOK'
      BY <3>1, OrderStays
    <3>4. PassOK' /\ ReadyOK'
      BY <3>1, <3>2 DEF OrdersInv, PassOK, ReadyOK
    <3>5. ReportedOrderMirrors'
      BY <3>1, <3>2 DEF OrdersInv, ReportedOrderMirrors, NothingNew, Mirrors
    <3>6. QED BY <3>3, <3>4, <3>5 DEF OrdersRest
  <2>2. QED
    BY <2>1, OthersRest, DeleteRest, CreateRest, QuietRest, HookRest, ApplyRest,
       PutRest DEF OrdersNext
<1>3. QED BY <1>1, <1>2 DEF OrdersInv, OrdersRest

LEMMA OrdersInvariant == OrdersSpec => []OrdersInv
<1>1. QED BY OrdersInitInv, OrdersStep, PTL DEF OrdersSpec

\* Type correctness of the ordered resources.
THEOREM OrdersTypeOKCorrect == OrdersSpec => []OrdersTypeOK
<1>1. OrdersInv => OrdersTypeOK
  BY DEF OrdersInv
<1>2. QED BY <1>1, OrdersInvariant, PTL

\* An order that a sync reports as applied, or as equal already, is the one the
\* destination has, for every list of items, every number of syncs and every
\* place where one of them fails (check_diff, update_resource and the put of the
\* four ..._order resources).
THEOREM ReportedOrderMirrorsCorrect == OrdersSpec => []ReportedOrderMirrors
<1>1. OrdersInv => ReportedOrderMirrors
  BY DEF OrdersInv
<1>2. QED BY <1>1, OrdersInvariant, PTL

\* Putting an order loses no object and keeps the relative order of what only the
\* destination has (update_resource, which merges the orders).
THEOREM ExtrasKeepOrderCorrect == OrdersSpec => ExtrasKeepOrder
<1> DEFINE Kept ==
      (PutOrder \/ PutLost) /\ fetched # NoOrder =>
         LET extras == ToSet(fetched) \ ToSet(Wanted)
         IN /\ ToSet(org') = ToSet(org)
            /\ Only(org', extras) = Only(fetched, extras)
<1>1. OrdersInv /\ [OrdersNext]_ordersVars => [Kept]_ordersVars
  <2> SUFFICES ASSUME OrdersInv, PutOrder \/ PutLost, fetched # NoOrder
               PROVE  LET extras == ToSet(fetched) \ ToSet(Wanted)
                      IN /\ ToSet(org') = ToSet(org)
                         /\ Only(org', extras) = Only(fetched, extras)
    OBVIOUS
  <2>1. stage = "put" /\ Accepted /\ org' = Placed /\ Present = fetched
    BY DEF PutOrder, PutLost, Present
  <2>2. QED BY <2>1, PutMakes
<1>2. QED BY <1>1, OrdersInvariant, PTL DEF OrdersSpec, ExtrasKeepOrder
=============================================================================
