------------------------ MODULE MCDowntimeSchedules ------------------------
(* Instances of DowntimeSchedules for TLC.                                 *)
EXTENDS DowntimeSchedules, TLC

Once(note, start, end) == [note |-> note, start |-> start, end |-> end, recs |-> {}]
Again(note, recs) == [note |-> note, start |-> None, end |-> None, recs |-> recs]
Every(start, every, lasts, count) ==
  [start |-> start, every |-> every, lasts |-> lasts, count |-> count]

\* One-time downtimes: extended, postponed, shortened, without an end.
OneTime == {Once("a", 3, 6), Once("b", 3, 9), Once("a", 5, 9), Once("a", 1, None)}

\* Two windows of two minutes, one more of them, shifted by half a minute, other
\* content, and a rule beside it.
TwoWindows == {Again("a", {Every(1, 9, 4, 2)}), Again("a", {Every(1, 9, 4, 3)}),
               Again("b", {Every(1, 9, 4, 2)}), Again("a", {Every(2, 9, 4, 2)})}

\* Rules without COUNT, shorter windows, and as many rules as the API takes.
Cadences == {Again("a", {Every(3, 9, 4, None)}), Again("b", {Every(3, 9, 2, None)}),
             Again("a", {Every(1, 16, 4, None), Every(10, 16, 2, None)})}

AllFamilies == {OneTime, TwoWindows, Cadences}

Bounds == [edits |-> 2, passes |-> 3, made |-> 3, faults |-> 1]
=============================================================================
