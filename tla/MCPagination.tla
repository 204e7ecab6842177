---------------------------- MODULE MCPagination ----------------------------
(***************************************************************************)
(* Instances of Pagination for TLC: long lists from a server whose only    *)
(* errors are those of bad resources, and short ones from a server that    *)
(* answers anything.                                                       *)
(***************************************************************************)
EXTENDS Pagination

\* The default: page numbers, until the total is reached.
ByNumber == [paging |-> "page", counting |-> "number"]

\* Page numbers, until a page is not full: monitors, teams, security rules.
ByPage == [paging |-> "page", counting |-> "none"]

\* Page numbers, until idx pages make the total: team memberships.
ByCount == [paging |-> "page", counting |-> "idx"]

\* Offsets, until a page is not full: downtimes, powerpacks.
ByOffset == [paging |-> "offset", counting |-> "none"]

\* Offsets counted by idx: notebooks.
ByIndex == [paging |-> "index", counting |-> "idx"]

Long(s, n) ==
  [style |-> s, page_size |-> n, totals |-> 0..MaxTotal, latencies |-> {0},
   replies |-> {200, 500}, headers |-> {Absent}, noReply |-> FALSE,
   glitches |-> 0]

Short(s, n) ==
  [style |-> s, page_size |-> n, totals |-> 0..2, latencies |-> Latencies,
   replies |-> Replies, headers |-> Asked \cup {Absent, Garbled},
   noReply |-> TRUE, glitches |-> 1]

AllSettings ==
  {Long(s, n) : s \in {ByNumber, ByPage, ByCount, ByOffset, ByIndex}, n \in {2, 3, 4, 8}}
  \cup {Short(ByNumber, 2)}
=============================================================================
