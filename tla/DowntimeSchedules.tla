------------------------- MODULE DowntimeSchedules -------------------------
(***************************************************************************)
(* The life of one downtime that is copied to the destination again and    *)
(* again while time passes: hook, diff, create, update, replacement and    *)
(* cancellation in model/downtime_schedules.py.                            *)
(*                                                                         *)
(* Time is counted in ticks.  A downtime mutes once, from start to end, or *)
(* has recurrences; a recurrence is an RRULE with a duration, and its      *)
(* occurrences that a change of local time leaves out (Gap) neither happen *)
(* nor count.  The API tells of a recurring downtime the window that is    *)
(* active or comes next, as of the moment it is read: the source's is as   *)
(* old as the import, the destination's as old as the last write.          *)
(***************************************************************************)
EXTENDS Naturals, FiniteSets, FiniteSetsExt

CONSTANTS
  None,            \* no time, no COUNT, no window, no downtime
  Horizon,         \* the last tick of the model
  Minute,          \* ticks in a minute, also the lead of a write
  Daily,           \* ticks between the occurrences of a bridge's rule
  Gap,             \* ticks at which a rule has no occurrence, because the local
                   \* time does not exist; the present always exists
  MaxRecurrences,  \* _MAX_API_RECURRENCES
  Families,        \* sets of downtimes, the versions one downtime may have
  Lag, Latency,    \* ticks from an import to its hook, and from there to a request
  Limits           \* how many edits, passes, objects, and deletions by others
                   \* or lost answers (faults) there are

Time == Nat \cup {None}

\* A rule of a recurring downtime.  No window is longer than the model.
Rule == [start : Nat, every : Nat \ {0}, lasts : 1..Horizon, count : Time]

\* Schedules with one window, and with recurrences; note is the rest.
Single    == [note : STRING, start : Nat, end : Time, recs : {{}}]
Recurring == [note : STRING, start : {None}, end : {None},
              recs : (SUBSET Rule) \ {{}}]
Downtime  == Single \cup Recurring

Span == [start : Nat, end : Nat]

\* What is imported of a downtime, and an entry of the destination state.
Snapshot == [res : Downtime, current : Span \cup {None}, at : Nat]
Copy    == [id : Nat, res : Downtime, current : Span \cup {None}]

\* What a pass prepares, and when; not every schedule in it is sent.
Schedule == [note : STRING, start : Time, end : Time, recs : SUBSET Rule]
Job == [action : {"none", "create", "omit", "normalize", "patch", "recreate",
                  "cancel", "cleanup"},
        res : Schedule \cup {None}, create : Schedule \cup {None},
        planned : Nat, cut : Nat, kept : BOOLEAN]

\* A user may edit a schedule, but not make a recurring one of a single one.
ASSUME DowntimeAssumption ==
  /\ {Horizon, Lag, Latency} \subseteq Nat
  /\ {Minute, Daily, MaxRecurrences} \subseteq Nat \ {0}
  /\ Gap \subseteq Nat \ 0..Horizon
  /\ None \notin Nat \cup Downtime \cup Span \cup Snapshot \cup Copy
  /\ \A f \in Families : f \subseteq Single \/ f \subseteq Recurring
  /\ Limits \in [{"edits", "passes", "made", "faults"} -> Nat]

VARIABLES
  now,
  family, version, \* the versions of the downtime; the one in the source
  snap,            \* what the import read of it, with its current_downtime
  mapped,          \* state.destination["downtime_schedules"][_id]
  live,            \* the objects of the destination
  pc,              \* "idle", "hook", "update", "create", "patch" or "delete"
  job,             \* the prepared write and the time it was prepared for
  outcome,         \* of the last pass
  doubt,           \* the entry may differ from its object
  spent,           \* how much of Limits is used
  lost             \* whether the answer to a create was lost

boundVars == <<spent, lost>>
downtimeVars == <<now, family, version, snap, mapped, live, pc, job, outcome,
                  doubt, boundVars>>

Ids == 1..Limits.made
Spend(what) == /\ spent[what] < Limits[what]
               /\ spent' = [spent EXCEPT ![what] = @ + 1]

-----------------------------------------------------------------------------
(* Schedules.                                                              *)

End == 2 * Horizon

\* The occurrences of a rule up to End, COUNT counting only those that exist.
Existing(r) ==
  {t \in r.start..End : (t - r.start) % r.every = 0 /\ t \notin Gap}
Occurrences(r) ==
  LET real == Existing(r)
  IN  {t \in real : \/ r.count = None
                    \/ Cardinality({u \in real : u <= t}) <= r.count}

Window(start, end) == [start |-> start, end |-> end]

RuleWindows(rules) ==
  UNION {{Window(t, t + r.lasts) : t \in Occurrences(r)} : r \in rules}

Windows(d) ==
  IF d.recs = {} THEN {Window(d.start, IF d.end = None THEN End ELSE d.end)}
  ELSE RuleWindows(d.recs)

\* The windows of a version are further apart than an import, its hook and the
\* requests: what was read as active or next is still one of the two.
ASSUME WindowsApart ==
  \A f \in Families : \A d \in f : \A v, w \in Windows(d) :
    v # w => \/ v.end + Lag + 2 * Latency < w.start
             \/ w.end + Lag + 2 * Latency < v.start

Within(w, t) == w.start <= t /\ t < w.end
Mutes(d, t)  == \E w \in Windows(d) : Within(w, t)

\* current_downtime as the API derives it at t.
Current(d, t) ==
  LET active   == {w \in Windows(d) : Within(w, t)}
      upcoming == {w \in Windows(d) : w.start > t}
  IN  IF active # {} THEN active
      ELSE IF upcoming # {}
      THEN {CHOOSE w \in upcoming : \A v \in upcoming : w.start <= v.start}
      ELSE {None}

Later(r, cutoff) == {t \in Occurrences(r) : t > cutoff}

\* The occurrence it starts at is counted among the ones that are over.
Rebased_OneLess(r, cutoff) ==
  LET later == Later(r, cutoff)
  IN  IF later = {} THEN {}
      ELSE {[r EXCEPT !.start = Min(later),
                      !.count = IF @ = None THEN None
                                ELSE Cardinality(later) - 1]}

\* _normalized_recurrences: each rule from its first occurrence after the cutoff.
Rebased(r, cutoff) ==
  LET later == Later(r, cutoff)
      over  == Occurrences(r) \ later
  IN  IF later = {} THEN {}
      ELSE {[r EXCEPT !.start = Min(later),
                      !.count = IF @ = None THEN None
                                ELSE @ - Cardinality(over)]}

Future(d, cutoff) == UNION {Rebased(r, cutoff) : r \in d.recs}

-----------------------------------------------------------------------------
(* Plans: the window that is active now and the cadence after the cutoff.  *)

Plan(d, current, t) ==
  [active |-> IF current # None /\ Within(current, t) THEN current ELSE None,
   future |-> Future(d, t + Minute)]

\* A rest shorter than a minute cannot be expressed.
Effective(p, t) ==
  IF p.active # None /\ p.active.end - t < Minute THEN None ELSE p.active

\* Minutes rounded up.
Bridge_RoundedUp(p, t) ==
  LET w == Effective(p, t)
  IN  IF w = None THEN {}
      ELSE {[start |-> t, every |-> Daily, count |-> 1,
             lasts |-> ((w.end - t + Minute - 1) \div Minute) * Minute]}

\* A single occurrence that covers the whole minutes left of the active window.
Bridge(p, t) ==
  LET w == Effective(p, t)
  IN  IF w = None THEN {}
      ELSE {[start |-> t, every |-> Daily, count |-> 1,
             lasts |-> ((w.end - t) \div Minute) * Minute]}

Materialized(p, t) == Bridge(p, t) \cup p.future

\* SkipResource: the bridge would be one recurrence too many.
TooMany(p, t) == Bridge(p, t) # {} /\ Cardinality(p.future) >= MaxRecurrences

\* _active_windows_equivalent: ends up to a minute early are a bridge's rounding.
SameWindow(s, d, t) ==
  \/ /\ s.active # None /\ d.active # None
     /\ d.active.end <= s.active.end /\ s.active.end < d.active.end + Minute
  \/ Effective(s, t) = None /\ d.active = None

\* The cadence is not compared while a window is active.
Equivalent_ActiveOnly(s, d, t) ==
  /\ s.active # None \/ s.future = d.future
  /\ SameWindow(s, d, t)

Equivalent(s, d, t) == s.future = d.future /\ SameWindow(s, d, t)

Decide(action, recs) == [action |-> action, recs |-> recs]

\* A bridge is told from the window it stands for by its start.
Decision_ByStart(res, s, d, t, theirs) ==
  IF Equivalent(s, d, t) /\ (s.active = None \/ s.active = d.active)
  THEN Decide(IF s.active = None /\ s.future # {} THEN "normalize" ELSE "omit", theirs)
  ELSE IF s.active # None /\ d.active # None /\ s.active.start # d.active.start
  THEN Decide("recreate", Materialized(s, t))
  ELSE IF s.active # None \/ s.future # {} THEN Decide("patch", Materialized(s, t))
  ELSE Decide("cancel", {})

\* _prepare_update_recurrences: what to do, and the recurrences to compare and send.
Decision(res, s, d, t, theirs) ==
  LET omit     == Decide("omit", theirs)
      replace  == Decide("recreate", Materialized(s, t))
      sActive  == Effective(s, t)
  IN CASE Equivalent(s, d, t) ->
            IF s.active = None /\ d.active = None /\ s.future # {}
            THEN Decide("normalize", theirs) ELSE omit
       [] ~Equivalent(s, d, t) /\ s.active # None /\ sActive = None
            /\ d.active # None ->
            IF SameWindow(s, d, t) THEN omit
            ELSE IF s.future # {} THEN replace ELSE Decide("cancel", {})
       [] ~Equivalent(s, d, t) /\ sActive # None ->
            IF d.active = None THEN Decide("patch", Materialized(s, t))
            ELSE IF sActive.start = d.active.start THEN Decide("patch", res.recs)
            ELSE IF SameWindow(s, d, t) THEN omit ELSE replace
       [] OTHER ->
            IF s.future # {} THEN Decide("patch", s.future)
            ELSE IF d.active # None \/ d.future # {} THEN Decide("cancel", {})
            ELSE omit

\* Whether Materialized was called, and raised.
Overfull(decision, s, d, t) ==
  /\ \/ decision.action = "recreate"
     \/ decision.action = "patch" /\ Effective(s, t) # None /\ d.active = None
  /\ TooMany(s, t)

\* _normalize_create_schedule: the form that is created, none if it is skipped.
CreateForm(res, current, t) ==
  LET p == Plan(res, current, t)
  IN  IF res.recs = {}
      THEN IF res.end # None /\ res.end <= t THEN {}
           ELSE {IF res.start <= t THEN [res EXCEPT !.start = t + Minute] ELSE res}
      ELSE IF Materialized(p, t) = {} \/ TooMany(p, t) THEN {}
           ELSE {[res EXCEPT !.recs = Materialized(p, t)]}

\* pre_resource_action_hook: an earlier start or end gives way to the destination's.
Kept(res, theirs) ==
  LET earlier(a, b) == a # None /\ b # None /\ a < b
  IN  [res EXCEPT
         !.start = IF earlier(@, theirs.start) THEN theirs.start ELSE @,
         !.end   = IF earlier(@, theirs.end) THEN theirs.end ELSE @]

-----------------------------------------------------------------------------
(* Time, users and the import.                                             *)

NoJob == [action |-> "none", res |-> None, create |-> None, planned |-> 0,
          cut |-> 0, kept |-> FALSE]

DowntimeInit ==
  /\ now = 0 /\ family \in Families /\ version \in family
  /\ snap = None /\ mapped = None /\ live = [i \in Ids |-> None]
  /\ pc = "idle" /\ job = NoJob /\ outcome = "none" /\ doubt = FALSE
  /\ spent = [k \in DOMAIN Limits |-> 0] /\ lost = FALSE

\* A request takes at most Latency, and a hook follows its import within Lag.
Tick ==
  /\ now < Horizon /\ now' = now + 1
  /\ pc = "hook" => now < snap.at + Lag
  /\ pc \in {"update", "create", "patch", "delete"} => now < job.planned + Latency
  /\ UNCHANGED <<family, version, snap, mapped, live, pc, job, outcome, doubt,
                 boundVars>>

\* Somebody deletes an object of the destination.  Only a request can tell.
OutsideDelete(i) ==
  /\ pc \in {"create", "patch", "delete"} /\ live[i] # None /\ Spend("faults")
  /\ live' = [live EXCEPT ![i] = None] /\ doubt' = TRUE
  /\ UNCHANGED <<now, family, version, snap, mapped, pc, job, outcome, lost>>

Prepare(action, res, create, cut, kept) ==
  job' = [action |-> action, res |-> res, create |-> create, planned |-> now,
          cut |-> cut, kept |-> kept]

\* What is only for the pass is dropped with it.
EndPass(result) == /\ pc' = "idle" /\ outcome' = result
                   /\ job' = NoJob /\ snap' = None

\* A user may have changed the downtime, or canceled it, since the last import.
Edited == IF spent.edits < Limits.edits /\ version # None THEN family \cup {None}
          ELSE {version}

\* import_resource: a canceled downtime is skipped, and left to the cleanup.
Import ==
  /\ pc = "idle" /\ spent.passes < Limits.passes
  /\ version' \in Edited
  /\ spent' = [spent EXCEPT !.passes = @ + 1,
                            !.edits = IF version' = version THEN @ ELSE @ + 1]
  /\ IF version' # None
     THEN /\ \E c \in Current(version', now) :
               snap' = [res |-> version', current |-> c, at |-> now]
          /\ pc' = "hook" /\ outcome' = "none" /\ UNCHANGED job
     ELSE IF mapped = None THEN EndPass("skipped")
     ELSE /\ snap' = None /\ Prepare("cleanup", None, None, now, FALSE)
          /\ pc' = "delete" /\ outcome' = "none"
  /\ UNCHANGED <<now, family, mapped, live, doubt, lost>>

-----------------------------------------------------------------------------
(* The pass: the hook and the diff in front of the write.                  *)

HookCreate ==
  /\ pc = "hook" /\ mapped = None
  /\ LET form == CreateForm(snap.res, snap.current, now)
     IN IF form = {} THEN EndPass("skipped")
        ELSE /\ \E f \in form :
                  Prepare("create", f, snap.res, now + Minute, FALSE)
             /\ pc' = "create" /\ UNCHANGED <<outcome, snap>>
  /\ UNCHANGED <<now, family, version, mapped, live, doubt, boundVars>>

\* check_diff compares with the entry, current_downtime left out.
Differs(action, res) == action = "cancel" \/ res # mapped.res

HookUpdate ==
  /\ pc = "hook" /\ mapped # None
  /\ LET res == Kept(snap.res, mapped.res)
         s   == Plan(res, snap.current, now)
         d   == Plan(mapped.res, mapped.current, now)
         x   == IF res.recs = {} THEN Decide("patch", {})
                ELSE Decision(res, s, d, now, mapped.res.recs)
         new == [res EXCEPT !.recs = x.recs]
     IN IF res.recs # {} /\ Overfull(x, s, d, now)
        THEN EndPass("skipped")
        ELSE IF ~Differs(x.action, new) THEN EndPass("same")
        ELSE /\ Prepare(x.action, new, res, now + Minute, res # snap.res)
             /\ pc' = "update" /\ UNCHANGED <<outcome, snap>>
  /\ UNCHANGED <<now, family, version, mapped, live, doubt, boundVars>>

\* update_resource up to its first request.
StartUpdate ==
  /\ pc = "update"
  /\ pc' = IF job.action \in {"cancel", "recreate"} THEN "delete" ELSE "patch"
  /\ job' = IF job.action # "normalize" THEN job
            ELSE LET f == Future(job.res, now + Minute)
                 IN [job EXCEPT !.cut = now + Minute, !.res.recs = f,
                                !.action = IF f = {} THEN "omit" ELSE @]
  /\ UNCHANGED <<now, family, version, snap, mapped, live, outcome, doubt,
                 boundVars>>

-----------------------------------------------------------------------------
(* Requests to the destination.                                            *)

\* "Downtime cannot be scheduled in the past", and no window is empty.
InPast(res) == res.recs = {} /\ \/ res.start < now
                                \/ res.end # None /\ res.end <= res.start

\* "The downtime being created is a duplicate of ... existing downtimes".
Duplicates(res) == {i \in Ids : live[i] = res
                                /\ \E w \in Windows(res) : w.end > now}

\* "The API rejects changing an active child's start."
MovesActive(old, new) ==
  LET active(d) == {w.start : w \in {v \in Windows(d) : Within(v, now)}}
  IN  active(old) # {} /\ active(new) # {} /\ active(old) \cap active(new) = {}

Entry(i, res) == \E c \in Current(res, now) :
                   mapped' = [id |-> i, res |-> res, current |-> c]

\* create_resource: created, created without an answer, adopted or refused.
PostCreated ==
  /\ pc = "create" /\ Duplicates(job.res) = {} /\ ~InPast(job.res)
  /\ spent.made < Limits.made
  /\ LET i == spent.made + 1
     IN  /\ live' = [live EXCEPT ![i] = job.res]
         /\ \/ /\ Entry(i, job.res) /\ doubt' = FALSE /\ EndPass("ok")
               /\ spent' = [spent EXCEPT !.made = i] /\ UNCHANGED lost
            \/ /\ spent.faults < Limits.faults
               /\ spent' = [spent EXCEPT !.made = i, !.faults = @ + 1]
               /\ lost' = TRUE /\ EndPass("failed") /\ UNCHANGED <<mapped, doubt>>
  /\ UNCHANGED <<now, family, version>>

PostDuplicate ==
  /\ pc = "create" /\ \E i \in Ids :
       /\ Duplicates(job.res) = {i}
       /\ Entry(i, job.res)
  /\ doubt' = FALSE /\ EndPass("ok")
  /\ UNCHANGED <<now, family, version, live, boundVars>>

\* The entry is dropped before the request.
Forgotten_First(confirmed) == None

\* _delete_resource drops the entry when the deletion was confirmed, a 404 included.
Forgotten(confirmed) == IF confirmed THEN None ELSE mapped

\* Any request may be refused.  Nothing changes then.
Refused ==
  /\ pc \in {"create", "patch", "delete"} /\ EndPass("failed")
  /\ mapped' = IF pc = "delete" THEN Forgotten(FALSE) ELSE mapped
  /\ UNCHANGED <<now, family, version, live, doubt, boundVars>>

\* The body of a PATCH: without the schedule, or with it.
Patched(old) ==
  IF job.action = "omit" THEN [old EXCEPT !.note = job.res.note] ELSE job.res

PatchDone ==
  /\ pc = "patch" /\ live[mapped.id] # None
  /\ LET new == Patched(live[mapped.id])
     IN  /\ ~MovesActive(live[mapped.id], new)
         /\ live' = [live EXCEPT ![mapped.id] = new]
         /\ \/ Entry(mapped.id, new) /\ doubt' = FALSE /\ EndPass("ok")
               /\ UNCHANGED spent
            \/ Spend("faults") /\ doubt' = TRUE /\ EndPass("failed")
               /\ UNCHANGED mapped
  /\ UNCHANGED <<now, family, version, lost>>

\* The replacement is worked out afresh, from the schedule as it was imported.
Recreate ==
  LET form == CreateForm(job.create, snap.current, now)
  IN  IF form = {} THEN EndPass("skipped")
      ELSE /\ \E f \in form :
                job' = [job EXCEPT !.res = f, !.planned = now, !.cut = now + Minute]
           /\ pc' = "create" /\ UNCHANGED <<outcome, snap>>

\* "Downtime not found": the object is gone, and is created again.
PatchNotFound ==
  /\ pc = "patch" /\ live[mapped.id] = None
  /\ Recreate
  /\ UNCHANGED <<now, family, version, mapped, live, doubt, boundVars>>

AfterDelete(confirmed) ==
  IF confirmed /\ job.action = "recreate" THEN Recreate
  ELSE EndPass(IF confirmed THEN "ok" ELSE "failed")

Delete(confirmed) ==
  /\ pc = "delete"
  /\ live' = [live EXCEPT ![mapped.id] = None]
  /\ mapped' = Forgotten(confirmed)
  /\ IF confirmed THEN UNCHANGED <<doubt, spent>>
     ELSE Spend("faults") /\ doubt' = TRUE
  /\ AfterDelete(confirmed)
  /\ UNCHANGED <<now, family, version, lost>>

DowntimeNext ==
  \/ Tick \/ Import
  \/ HookCreate \/ HookUpdate \/ StartUpdate
  \/ PostCreated \/ PostDuplicate \/ Refused
  \/ PatchDone \/ PatchNotFound
  \/ \E c \in BOOLEAN : Delete(c)
  \/ \E i \in Ids : OutsideDelete(i)

DowntimeSpec == DowntimeInit /\ [][DowntimeNext]_downtimeVars
-----------------------------------------------------------------------------
(* Properties.                                                             *)

DowntimeTypeOK ==
  /\ now \in 0..Horizon /\ family \in Families
  /\ version \in family \cup {None}
  /\ snap \in Snapshot \cup {None}
  /\ mapped \in Copy \cup {None}
  /\ mapped # None => mapped.id \in Ids
  /\ live \in [Ids -> Downtime \cup {None}]
  /\ pc \in {"idle", "hook", "update", "create", "patch", "delete"}
  /\ job \in Job
  /\ outcome \in {"none", "same", "ok", "skipped", "failed"}
  /\ doubt \in BOOLEAN /\ lost \in BOOLEAN
  /\ spent \in [DOMAIN Limits -> Nat]
  /\ \A k \in DOMAIN Limits : spent[k] <= Limits[k]

\* The objects that a step writes with a schedule that follows the source's.
\* (Kept: the end or start of a one-time downtime that was moved forward is not
\* taken over, see README.md.)
WritesSchedule(i) == /\ live'[i] # live[i] /\ live'[i] # None
                     /\ job.action # "omit" /\ ~job.kept

\* What is written mutes from then on only when the imported version does:
\* neither a bridge, nor a COUNT that is carried over, nor the latency of the
\* request makes a window longer than the source's.
NeverOutlasts ==
  [][ \A i \in Ids : WritesSchedule(i) =>
        \A t \in now..End : Mutes(live'[i], t) => Mutes(snap.res, t) ]_downtimeVars

\* What a write may leave out: the lead of a past start, windows that begin
\* between the plan and its cutoff, and the rest of the active window that is
\* not a whole minute.
Excused(t) ==
  \/ snap.res.recs = {} /\ t < job.planned + Minute
  \/ \E w \in Windows(snap.res) :
       /\ Within(w, t)
       /\ \/ job.planned < w.start /\ w.start <= job.cut
          \/ /\ snap.res.recs # {} /\ w.start <= job.planned
             /\ t >= w.end - ((w.end - job.planned) % Minute)

\* What is written mutes whenever the imported version does, the active window
\* through its bridge, up to what is excused.
WindowsCovered ==
  [][ \A i \in Ids : WritesSchedule(i) =>
        \A t \in now..End :
          Mutes(snap.res, t) /\ ~Excused(t) => Mutes(live'[i], t) ]_downtimeVars

Starting(d, after) == {w \in Windows(d) : w.start > after}

\* After a pass that wrote, or found no difference, the object has the content of
\* what was imported and its windows after the cutoff; a change of cadence may
\* wait only for a window that the destination is muting.  A pass that ends this
\* way has looked at its own entry only, so others must have left it true.
FaithfulAfterPass ==
  [][ /\ pc # "idle" /\ pc' = "idle" /\ outcome' \in {"same", "ok"} /\ ~doubt'
      /\ mapped' # None /\ (doubt => job.action # "omit")
      /\ mapped # None => Kept(snap.res, mapped.res) = snap.res
      => LET o       == live'[mapped'.id]
             planned == IF pc = "hook" THEN now ELSE job.planned
             cut     == IF pc = "hook" THEN now + Minute ELSE job.cut
         IN  /\ o.note = snap.res.note
             /\ \/ o.recs # {} /\ Mutes(o, planned)
                \/ Starting(o, cut) = Starting(snap.res, cut) ]_downtimeVars

\* A sync deletes an object, to replace it or because the source is exhausted,
\* only if the object mutes otherwise than the source from now on.
FaithfulCopyKept ==
  [][ pc = "delete" /\ pc' # "delete" /\ live' # live /\ ~doubt
      /\ job.action \in {"cancel", "recreate"}
      => \E t \in job.planned..End :
           Mutes(live[mapped.id], t) # Mutes(snap.res, t) ]_downtimeVars

\* Between passes every object is the one in the entry, unless the answer of a
\* create was lost: a replacement that failed half way leaves none behind.
NoOrphan ==
  pc = "idle" /\ ~lost =>
    \A i \in Ids : live[i] # None => mapped # None /\ mapped.id = i
=============================================================================
