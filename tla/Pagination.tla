----------------------------- MODULE Pagination -----------------------------
(***************************************************************************)
(* CustomClient.paginated_request: the listing of one resource type, page  *)
(* by page.  A server error is taken for a resource that cannot be         *)
(* serialized: the page size is halved until one resource is isolated and  *)
(* skipped, and restored afterwards.  Any other error ends the list early. *)
(*                                                                         *)
(* The models configure how the next page is asked for and how the end is  *)
(* recognised:                                                             *)
(*   "page"    page_number + 1, in pages (the default)                     *)
(*   "offset"  page_number + page_size, in resources (downtimes, powerpacks)*)
(*   "index"   page_size * (idx + 1), in resources (notebooks)             *)
(* and by the total and the page number (the default), by the total and    *)
(* idx (notebooks), or by a page that is not full alone.                   *)
(*                                                                         *)
(* Each page is a call of RequestRetry, whose variables are those of the   *)
(* call under way; a call that raises anything but an HTTP error raises    *)
(* out of the listing.                                                     *)
(*                                                                         *)
(* The list is fixed while it is read; position p is its p-th resource.    *)
(***************************************************************************)
EXTENDS RequestRetry, FiniteSets

CONSTANTS
  MaxTotal,    \* the longest list considered
  Settings,    \* the lists and the servers considered, see below
  MaxBad       \* at most so many resources make their page fail

\* A PaginationConfig: page_number_func and remaining_func, as the models pair
\* them.
Style == {s \in [paging   : {"page", "offset", "index"},
                 counting : {"number", "idx", "none"}] :
            /\ s.paging = "offset" => s.counting = "none"
            /\ s.paging = "index" => s.counting = "idx"}

\* How a list is paged, and how the API answers for it.
Setting ==
  [style     : Style,
   page_size : Nat \ {0},
   totals    : SUBSET (0..MaxTotal),
   latencies : SUBSET Latencies,
   replies   : SUBSET Replies,
   headers   : SUBSET (Asked \cup {Absent, Garbled}),
   noReply   : BOOLEAN,
   glitches  : 0..1]  \* calls for pages without a bad resource that fail

ASSUME PaginationAssumption ==
  /\ MaxTotal \in Nat /\ MaxBad \in Nat
  /\ Settings \subseteq Setting

VARIABLES
  setting,            \* a member of Settings
  total, bad,         \* the list, and the resources that fail their page
  glitches,           \* such calls so far
  page_size, page_number, idx, resources_attempted, saved_idx, save_idx,
  restore_page_size,
  listed,             \* positions of the resources collected
  status              \* "asking", "complete", "truncated" or "raised"

serverVars == <<setting, total, bad>>
pageVars == <<page_size, page_number, idx, resources_attempted, saved_idx,
              save_idx, restore_page_size, listed, status, glitches>>
callVars == vars
listVars == <<serverVars, pageVars, callVars>>

Paging   == setting.style.paging
Counting == setting.style.counting
original_page_size == setting.page_size

ListInit ==
  /\ Init
  /\ setting \in Settings
  /\ total \in setting.totals
  /\ bad \in {S \in SUBSET (0..total - 1) : Cardinality(S) <= MaxBad}
  /\ glitches = 0
  /\ page_size = original_page_size /\ page_number = 0
  /\ idx = 0 /\ saved_idx = 0 /\ save_idx = TRUE
  /\ resources_attempted = 0 /\ restore_page_size = FALSE
  /\ listed = {} /\ status = "asking"

\* What the API returns for the page.
Start == IF Paging = "page" THEN page_number * page_size ELSE page_number
Page  == {p \in 0..total - 1 : p >= Start /\ p < Start + page_size}

\* page_number_func.
PageNumber(i, size, number) ==
  CASE Paging = "page"   -> number + 1
    [] Paging = "offset" -> number + size
    [] Paging = "index"  -> size * (i + 1)

\* (X_... is a faulty variant of X that a property below catches.)
Remaining_OneMore(i, size, number) ==
  CASE Counting = "number" -> total - size * (number + 2)
    [] Counting = "idx"    -> total - size * (i + 2)
    [] Counting = "none"   -> 1

\* remaining_func.
Remaining(i, size, number) ==
  CASE Counting = "number" -> total - size * (number + 1)
    [] Counting = "idx"    -> total - size * (i + 1)
    [] Counting = "none"   -> 1

\* The end of the loop body: the next page is page_number_func of this one.
Advance(i, size, number) ==
  /\ page_number' = PageNumber(i, size, number)
  /\ idx' = i + 1
  /\ page_size' = size

\* The call for the next page begins.
NextCall ==
  /\ now' = 0 /\ retry_count' = 0 /\ phase' = "ready" /\ outcome' = None
  /\ requests' = 0 /\ last' = None /\ backoff' = 0

-----------------------------------------------------------------------------
(* The call for a page.                                                    *)

\* A page with a bad resource is a server error, whenever it is asked for.
MayReply(code) ==
  IF Page \cap bad # {} THEN code # 200
                        ELSE code >= 500 => glitches < setting.glitches

Request == status = "asking" /\ (Send \/ GiveUp) /\ UNCHANGED <<serverVars, pageVars>>

PageReply ==
  /\ status = "asking"
  /\ \E took \in setting.latencies :
       \/ \E code \in setting.replies :
            /\ MayReply(code)
            /\ \E header \in Headers(code) \cap setting.headers :
                 Reply(code, header, took)
       \/ setting.noReply /\ Transport(took)
  /\ UNCHANGED <<serverVars, pageVars>>

-----------------------------------------------------------------------------
(* What the listing makes of it.                                           *)

Got(codes) == status = "asking" /\ phase = "returned" /\ outcome \in codes

\* A page that is not full is the last one.
Partial == Cardinality(Page) < page_size

LastPage ==
  /\ Got({200}) /\ Partial
  /\ listed' = listed \cup Page
  /\ status' = "complete"
  /\ UNCHANGED <<serverVars, page_size, page_number, idx, resources_attempted,
                 saved_idx, save_idx, restore_page_size, glitches, callVars>>

\* A full page.  The page size is restored once the attempted resources fill
\* pages of that size.
FullPage ==
  /\ Got({200}) /\ ~Partial
  /\ listed' = listed \cup Page
  /\ resources_attempted' = resources_attempted + Cardinality(Page)
  /\ LET restore == /\ restore_page_size
                    /\ resources_attempted' % original_page_size = 0
         size    == IF restore THEN original_page_size ELSE page_size
         number  == IF restore THEN PageNumber(idx, size, page_number)
                               ELSE page_number
         i       == IF restore THEN saved_idx ELSE idx
     IN /\ Advance(i, size, number)
        /\ restore_page_size' = (restore_page_size /\ ~restore)
        /\ save_idx' = (save_idx \/ restore)
        /\ status' = IF Remaining(i, size, number) > 0 THEN "asking"
                                                       ELSE "complete"
  /\ IF status' = "asking" THEN NextCall ELSE UNCHANGED callVars
  /\ UNCHANGED <<serverVars, saved_idx, glitches>>

Smaller_RoundedUp == page_size \div 2 + 1

\* Half the page size, or less, so that it divides what was attempted.
Smaller ==
  LET divisors == {s \in 1..page_size \div 2 : resources_attempted % s = 0}
  IN CHOOSE s \in divisors : \A d \in divisors : d <= s

\* The resource that is skipped counts as attempted.
Isolated == resources_attempted + 1

\* The page before the first one that was not attempted.
Resume == resources_attempted \div Smaller - 1

\* The page to come back to once the batch is dealt with.
Saved == IF save_idx THEN idx ELSE saved_idx

\* A server error, after the retries of request_with_retry.
FailedPage ==
  /\ Got(500..599)
  /\ glitches' = IF Page \cap bad # {} THEN glitches ELSE glitches + 1
  /\ NextCall
  /\ saved_idx' = Saved
  /\ save_idx' = FALSE
  /\ \/ /\ page_size = 1
        /\ resources_attempted' = Isolated
        /\ restore_page_size' = TRUE
        /\ Advance(idx, page_size, page_number)
     \/ /\ page_size > 1
        /\ Advance(Resume, Smaller, PageNumber(Resume, Smaller, page_number))
        /\ UNCHANGED <<resources_attempted, restore_page_size>>
  /\ UNCHANGED <<serverVars, listed, status>>

\* A 403, a 404, an exhausted 429: what was collected is returned.
RefusedPage ==
  /\ Got(400..499)
  /\ status' = "truncated"
  /\ UNCHANGED <<serverVars, page_size, page_number, idx, resources_attempted,
                 saved_idx, save_idx, restore_page_size, listed, glitches,
                 callVars>>

\* The retry limit, a transport error, a timeout: no resource is returned.
RaisedPage ==
  /\ Got({Limit, NoAnswer})
  /\ status' = "raised"
  /\ UNCHANGED <<serverVars, page_size, page_number, idx, resources_attempted,
                 saved_idx, save_idx, restore_page_size, listed, glitches,
                 callVars>>

ListReturned == status # "asking" /\ UNCHANGED listVars

Step == \/ Request \/ PageReply
        \/ LastPage \/ FullPage \/ FailedPage \/ RefusedPage \/ RaisedPage

ListNext == Step \/ ListReturned

\* Every request is answered or times out.
ListSpec == ListInit /\ [][ListNext]_listVars /\ WF_listVars(Step)

-----------------------------------------------------------------------------
(* Properties.                                                             *)

\* Every variable keeps its type; in particular a page size never drops to 0.
ListTypeOK ==
  /\ TypeOK
  /\ setting \in Settings
  /\ total \in setting.totals
  /\ {bad, listed} \subseteq SUBSET (0..total - 1)
  /\ glitches \in 0..1
  /\ page_size \in 1..original_page_size
  /\ {page_number, resources_attempted, saved_idx, idx} \subseteq Nat
  /\ save_idx \in BOOLEAN /\ restore_page_size \in BOOLEAN
  /\ status \in {"asking", "complete", "truncated", "raised"}

\* A list that is not cut short has every resource that does not fail its page.
AllGoodListed == status = "complete" => (0..total - 1) \ bad \subseteq listed

\* The same when no resource fails its page, and around one that does when pages
\* are counted by idx: no position falls between two pages, at the end of the
\* list or around the resource that is isolated, whatever retries the calls made.
GoodListed ==
  \/ glitches > 0
  \/ bad # {} /\ ~(Paging = "index" /\ Cardinality(bad) = 1)
  \/ AllGoodListed

\* The listing ends, retries and their pauses included: coming back to a saved
\* page after an isolation does not start the same isolation again for ever.
ListEnds == <>(status # "asking")
=============================================================================
