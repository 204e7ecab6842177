------------------------------- MODULE Orders -------------------------------
(***************************************************************************)
(* The types that are ordered in an organization, and the resource that    *)
(* holds their order: logs_pipelines, logs_archives, logs_indexes and      *)
(* sensitive_data_scanner_groups, each with its ..._order.  A destination  *)
(* may have more than the source (extras), and others change it.  A sync   *)
(* deletes what was removed, creates or adopts what is missing, reads the  *)
(* order of the destination, merges the one of the source into it and puts *)
(* the result.                                                             *)
(*                                                                         *)
(* An object of the destination is <<name, generation>>: what is created   *)
(* again under a name is another object, except an index, which is its     *)
(* name.                                                                   *)
(***************************************************************************)
EXTENDS Naturals, Sequences, SequencesExt, FiniteSets

CONSTANTS
  Item,        \* what the source may have
  Extra,       \* names of what only the destination may have
  Kinds,       \* types considered, of Kind
  Options,     \* --skip-failed-resource-connections and --cleanup, of BOOLEAN \X BOOLEAN
  Classes,     \* which pipelines are of an integration or cannot be created
  Nothing,     \* no entry in the state
  Invalid,     \* an entry with __datadog_sync_invalid
  MaxMade,     \* creations per item
  MaxPasses,   \* syncs
  MaxOutside   \* changes by others

Kind == {"logs_pipelines", "logs_archives", "logs_indexes", "scanner_groups"}

Object == (Item \X (1..MaxMade)) \cup (Extra \X {1})

ASSUME OrdersAssumption ==
  /\ Kinds \subseteq Kind /\ Options \subseteq BOOLEAN \X BOOLEAN
  /\ Classes \subseteq [Item -> {"custom", "integration", "invalid"}]
  /\ Item \cap Extra = {} /\ IsFiniteSet(Item)
  /\ {MaxMade, MaxPasses, MaxOutside} \subseteq Nat

Name(o) == o[1]

\* No order was read or stored: this is no sequence.
NoOrder == [k \in {0} |-> 0]

Lists == SetToAllKPermutations(Item)

VARIABLES
  kind, class,          \* the type; the class of each item if it is a pipeline
  skipFailed, cleanup,  \* options
  org,       \* the objects of the destination, in their order
  made,      \* objects made so far for an item
  dest,      \* the destination state of the items
  entry,     \* the destination state of the order
  src,       \* the order of the source
  stage,     \* "idle", "cleanup", "hooks", "apply" or "put"
  todo,      \* items still to be deleted, or to be created
  known,     \* _existing_resources_map, destination_integration_pipelines
  fetched,   \* destination_..._order
  payload,   \* the order that is put
  verdict,   \* of the order in this sync
  doubt,     \* the order may have changed since it was last put and answered
  passes, outside

optionVars == <<kind, class, skipFailed, cleanup>>
orgVars    == <<org, made, doubt, outside>>
readVars   == <<known, fetched, payload>>
ordersVars == <<optionVars, orgVars, dest, entry, src, stage, todo, readVars,
          verdict, passes>>

OrdersInit ==
  /\ kind \in Kinds /\ class \in Classes
  /\ \E o \in Options : skipFailed = o[1] /\ cleanup = o[2]
  /\ org = <<>> /\ made = [i \in Item |-> 0]
  /\ dest = [i \in Item |-> Nothing] /\ entry = NoOrder
  /\ src = <<>> /\ stage = "idle" /\ todo = {}
  /\ known = {} /\ fetched = NoOrder /\ payload = <<>>
  /\ verdict = "none" /\ doubt = FALSE /\ passes = 0 /\ outside = 0

-----------------------------------------------------------------------------
(* Others.                                                                 *)

\* The members of S in a sequence, in their order.
Only(s, S) ==
  LET kept[k \in 0..Len(s)] ==
        IF k = 0 THEN <<>>
        ELSE IF s[k] \in S THEN Append(kept[k - 1], s[k]) ELSE kept[k - 1]
  IN  kept[Len(s)]

Without(s, o) == Only(s, ToSet(s) \ {o})
MovedLast(s, o) == IF Contains(s, o) THEN Append(Without(s, o), o) ELSE s

\* Somebody adds an extra, deletes an object or moves it.
Others ==
  /\ outside < MaxOutside /\ outside' = outside + 1 /\ doubt' = TRUE
  /\ \/ \E e \in Extra : /\ ~Contains(org, <<e, 1>>)
                         /\ org' = Append(org, <<e, 1>>)
     \/ \E o \in ToSet(org) : org' \in {Without(org, o), MovedLast(org, o)}
  /\ UNCHANGED <<optionVars, made, dest, entry, src, stage, todo, readVars,
                 verdict, passes>>

-----------------------------------------------------------------------------
(* The items.                                                              *)

\* An import has read a new list, and a sync starts.
StartSync ==
  /\ stage = "idle" /\ passes < MaxPasses
  /\ passes' = passes + 1
  /\ src' \in Lists \cup {<<>>}
  /\ todo' = {i \in Item : /\ cleanup /\ dest[i] # Nothing
                           /\ i \notin ToSet(src')}
  /\ stage' = "cleanup" /\ verdict' = "none"
  /\ UNCHANGED <<optionVars, orgVars, dest, entry, readVars>>

IsIntegration(i) == kind = "logs_pipelines" /\ class[i] # "custom"

\* delete_resource: an index cannot be deleted and goes to the end of the order;
\* an integration pipeline stays.
AfterDelete(i) ==
  CASE kind = "logs_indexes" -> MovedLast(org, dest[i])
    [] IsIntegration(i)      -> org
    [] OTHER                 -> Without(org, dest[i])

Delete(i) ==
  /\ stage = "cleanup" /\ i \in todo
  /\ todo' = todo \ {i}
  /\ \/ /\ org' = AfterDelete(i)
        /\ doubt' = (doubt \/ kind = "logs_indexes")
        /\ \/ dest' = [dest EXCEPT ![i] = Nothing]
           \/ UNCHANGED dest
     \/ UNCHANGED <<org, dest, doubt>>
  /\ UNCHANGED <<optionVars, made, outside, entry, src, stage, readVars,
                 verdict, passes>>

\* map_existing_resources of the indexes.  The workers swallow a failure.
MapExisting ==
  /\ stage = "cleanup" /\ todo = {}
  /\ stage' = "hooks"
  /\ \/ kind = "logs_indexes" /\ known' = ToSet(org)
     \/ UNCHANGED known
  /\ UNCHANGED <<optionVars, orgVars, dest, entry, src, todo, fetched, payload,
                 verdict, passes>>

\* pre_apply_hook: the integration pipelines; the order of the indexes.
\* A failure is only logged.
PreApplyHook ==
  /\ stage = "hooks"
  /\ stage' = "apply"
  /\ todo' = {i \in ToSet(src) : dest[i] = Nothing}
  /\ \/ kind = "logs_pipelines" /\ UNCHANGED fetched
        /\ known' = {o \in ToSet(org) : Name(o) \in Item /\ IsIntegration(Name(o))}
     \/ kind = "logs_indexes" /\ fetched' = org /\ UNCHANGED known
     \/ UNCHANGED <<known, fetched>>
  /\ UNCHANGED <<optionVars, orgVars, dest, entry, src, payload, verdict,
                 passes>>

Named(S, i) == {o \in S : Name(o) = i}

Untried(i) == /\ stage = "apply" /\ i \in todo
              /\ todo' = todo \ {i}
              /\ UNCHANGED <<optionVars, doubt, outside, entry, src, stage,
                             readVars, verdict, passes>>

\* LogsIndexes.create_resource, LogsPipelines.create_resource: what is known to
\* exist is entered in the state, and an update follows or is left out.
Adopt(i) ==
  /\ Untried(i)
  /\ \E o \in Named(known, i) : dest' = [dest EXCEPT ![i] = o]
  /\ UNCHANGED <<org, made>>

\* create_resource finds what it would make: the API says that the archive
\* exists, the wait for an integration pipeline that it is there already.
AdoptPresent(i) ==
  /\ \/ kind = "logs_archives"
     \/ IsIntegration(i) /\ class[i] = "integration" /\ Named(known, i) = {}
  /\ Untried(i)
  /\ \E o \in Named(ToSet(org), i) : dest' = [dest EXCEPT ![i] = o]
  /\ UNCHANGED <<org, made>>

\* An integration pipeline that nobody can create is entered as invalid.
EnterInvalid(i) ==
  /\ IsIntegration(i) /\ class[i] = "invalid" /\ Named(known, i) = {}
  /\ Untried(i)
  /\ dest' = [dest EXCEPT ![i] = Invalid]
  /\ UNCHANGED <<org, made>>

NewObject(i) == <<i, IF kind = "logs_indexes" THEN 1 ELSE made[i] + 1>>

\* The API refuses a second index or archive of a name.
MayCreate(i) ==
  /\ Named(known, i) = {}
  /\ made[i] < MaxMade
  /\ kind \in {"logs_indexes", "logs_archives"} => Named(ToSet(org), i) = {}
  /\ IsIntegration(i) => class[i] = "integration" /\ Named(ToSet(org), i) = {}

\* POST, or for an integration pipeline the log that makes it appear and the
\* wait for it.  The object may exist and the answer be lost, or the wait end
\* too early.
Create(i) ==
  /\ Untried(i)
  /\ MayCreate(i)
  /\ org' = Append(org, NewObject(i))
  /\ made' = [made EXCEPT ![i] = @ + 1]
  /\ \/ dest' = [dest EXCEPT ![i] = NewObject(i)]
     \/ UNCHANGED dest

\* An error; also, an object that appeared since the list was read.
CreateFails(i) ==
  /\ Untried(i)
  /\ Named(known, i) = {}
  /\ UNCHANGED <<org, made, dest>>

-----------------------------------------------------------------------------
(* The order.                                                              *)

\* connect_id: what the state does not have keeps the id of the source, which
\* for an index is its name.
Connected(i) == IF dest[i] # Nothing THEN dest[i]
                ELSE IF kind = "logs_indexes" THEN <<i, 1>> ELSE <<i, 0>>

\* The order of the source in ids of the destination; invalid pipelines are
\* dropped.
Wanted == LET ids == [k \in DOMAIN src |-> Connected(src[k])]
          IN Only(ids, ToSet(ids) \ {Invalid})

\* (X_... is a faulty variant of X that a property below catches.)
SameOrder_AnyOrder(wanted, stored) ==
  ToSet(wanted) \cap ToSet(stored) = ToSet(stored)

\* check_diff as _apply_resource_cb calls it, the wanted order first: the
\* comparators leave out of it what the stored order does not have.
SameOrder(wanted, stored) == Only(wanted, ToSet(stored)) = stored

Merged_ExtrasReversed(wanted, present) ==
  Only(wanted, ToSet(present))
    \o Reverse(Only(present, ToSet(present) \ ToSet(wanted)))

\* update_resource: ids the destination does not have are omitted, its extra ids
\* follow in its own order.
Merged(wanted, present) ==
  Only(wanted, ToSet(present)) \o Only(present, ToSet(present) \ ToSet(wanted))

\* The process ends, and what it has read is gone.
Ends(o) == /\ verdict' = o /\ stage' = "idle"
           /\ known' = {} /\ fetched' = NoOrder /\ payload' = <<>>

\* destination_..._order when update_resource runs: read just before, by
\* pre_resource_action_hook, but for indexes by pre_apply_hook.
Read == IF kind = "logs_indexes" THEN fetched ELSE org

\* _apply_resource_cb for the order, once the items it names were tried.  There is
\* no await between the answer that brings the order of the destination and the
\* request that puts the merged one.  create_resource enters the order it has
\* read in the state before it puts anything.
ApplyOrder ==
  /\ stage = "apply" /\ todo = {}
  /\ IF ~skipFailed /\ \E i \in ToSet(src) : dest[i] = Nothing
     THEN Ends("missing") /\ UNCHANGED entry
     ELSE IF entry # NoOrder /\ SameOrder(Wanted, entry)
     THEN Ends("skipped") /\ UNCHANGED entry
     ELSE IF entry = NoOrder /\ Read = NoOrder
     THEN Ends("failed") /\ UNCHANGED entry
     ELSE LET present == IF Read # NoOrder THEN Read ELSE entry
          IN /\ payload' = Merged(Wanted, present)
             /\ entry' = IF entry = NoOrder THEN present ELSE entry
             /\ fetched' = Read
             /\ stage' = "put" /\ UNCHANGED <<known, verdict>>
  /\ UNCHANGED <<optionVars, orgVars, dest, src, todo, passes>>

\* pre_resource_action_hook raises.
OrderHookFails ==
  /\ stage = "apply" /\ todo = {}
  /\ kind # "logs_indexes"
  /\ Ends("failed")
  /\ UNCHANGED <<optionVars, orgVars, dest, entry, src, todo, passes>>

\* The API takes an order of what exists, of all of it for indexes
\* (logs_indexes_order.py:96); what it does not name keeps its place at the end.
Accepted == /\ ToSet(payload) \subseteq ToSet(org)
            /\ kind = "logs_indexes" => ToSet(org) \subseteq ToSet(payload)
Placed == payload \o Only(org, ToSet(org) \ ToSet(payload))

\* The state keeps the answer; for the scanner, which gives none, the payload.
PutOrder ==
  /\ stage = "put" /\ Accepted
  /\ org' = Placed /\ doubt' = FALSE
  /\ entry' = IF kind = "scanner_groups" THEN payload ELSE Placed
  /\ Ends("success")
  /\ UNCHANGED <<optionVars, made, outside, dest, src, todo, passes>>

\* The order is placed, and the answer is lost.
PutLost ==
  /\ stage = "put" /\ Accepted
  /\ org' = Placed /\ doubt' = TRUE
  /\ Ends("failed")
  /\ UNCHANGED <<optionVars, made, outside, dest, entry, src, todo, passes>>

PutRefused ==
  /\ stage = "put" /\ ~Accepted
  /\ Ends("refused")
  /\ UNCHANGED <<optionVars, orgVars, dest, entry, src, todo, passes>>

\* Another error, which says nothing of the order.
PutFails ==
  /\ stage = "put"
  /\ Ends("failed")
  /\ UNCHANGED <<optionVars, orgVars, dest, entry, src, todo, passes>>

OrdersNext ==
  \/ Others \/ StartSync
  \/ \E i \in Item : \/ Delete(i) \/ Adopt(i) \/ AdoptPresent(i)
                     \/ EnterInvalid(i) \/ Create(i) \/ CreateFails(i)
  \/ MapExisting \/ PreApplyHook
  \/ ApplyOrder \/ OrderHookFails
  \/ PutOrder \/ PutLost \/ PutRefused \/ PutFails

OrdersSpec == OrdersInit /\ [][OrdersNext]_ordersVars

-----------------------------------------------------------------------------
(* Properties.                                                             *)

OrdersTypeOK ==
  /\ kind \in Kinds /\ class \in Classes
  /\ skipFailed \in BOOLEAN /\ cleanup \in BOOLEAN
  /\ org \in Seq(Object) /\ payload \in Seq(Object)
  /\ made \in [Item -> 0..MaxMade]
  /\ \A i \in Item : dest[i] \in {Nothing, Invalid} \cup Named(Object, i)
  /\ dest = [i \in Item |-> dest[i]]
  /\ entry \in {NoOrder} \cup Seq(Object) /\ fetched \in {NoOrder} \cup Seq(Object)
  /\ src \in Lists \cup {<<>>}
  /\ stage \in {"idle", "cleanup", "hooks", "apply", "put"}
  /\ todo \subseteq Item /\ known \subseteq Object
  /\ verdict \in {"none", "missing", "skipped", "failed", "success", "refused"}
  /\ doubt \in BOOLEAN
  /\ passes \in 0..MaxPasses /\ outside \in 0..MaxOutside

\* In the destination the counterparts of the source's items are in its order.
Mirrors == Only(org, ToSet(Wanted)) = Only(Wanted, ToSet(org))

\* "No differences detected" is said when no item is new to the stored order.
NothingNew == verdict = "skipped" /\ ToSet(Wanted) \subseteq ToSet(entry)

\* An order that a sync reports as applied, or as equal already, is the one the
\* destination has, with what others added and what the sync itself created in
\* the same pass: an order read too early is refused, it does not pass for
\* applied.
ReportedOrderMirrors == (verdict = "success" \/ NothingNew) /\ ~doubt => Mirrors

\* Putting an order loses no object, and what only the destination has keeps the
\* relative order in which it was read, also the index that cleanup moved last.
ExtrasKeepOrder ==
  [][(PutOrder \/ PutLost) /\ fetched # NoOrder =>
       LET extras == ToSet(fetched) \ ToSet(Wanted)
       IN /\ ToSet(org') = ToSet(org)
          /\ Only(org', extras) = Only(fetched, extras)]_ordersVars
=============================================================================
