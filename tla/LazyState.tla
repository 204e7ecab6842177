------------------------------ MODULE LazyState ------------------------------
(***************************************************************************)
(* sync processes that share one storage, one after the other or           *)
(* overlapping, each over the resource types of its --resources.           *)
(*                                                                         *)
(* A process reads only its own types at startup (--minimize-reads), loads *)
(* each dependency it meets (State.ensure_resource_loaded), may read the   *)
(* destination files again before it applies (State.reload_destination),   *)
(* applies its resources and the dependencies it cannot resolve, and       *)
(* writes what it has in memory at its end.  A destination entry is the id *)
(* of the resource in the destination organization, 0 when there is none.  *)
(***************************************************************************)
EXTENDS Integers, FiniteSets

CONSTANTS
  Resources,
  Kind,         \* the resource type of a resource
  Refs,         \* references of a resource to others
  Lists,        \* those that are in the same access list: a binding of a
                \* restriction policy, restricted_roles
  Modes,        \* the ways in which the processes may be started, see below
  MaxId         \* ids a resource may be created with

\* An orchestration, chosen at the start and kept.
Mode == [scope      : [Resources -> Nat], \* whose --resources has its type
         principals : SUBSET Resources,  \* users, teams and roles in such lists
         drop       : BOOLEAN,  \* --drop-unresolvable-principals
         skipFailed : BOOLEAN,  \* --skip-failed-resource-connections
         refuses    : BOOLEAN,  \* the destination may refuse a create or update
         refresh    : BOOLEAN,  \* --refresh-destination-state-before-apply
         cleanup    : BOOLEAN,  \* --cleanup=force
         overlap    : BOOLEAN]  \* a process may load before the one before it
                                \* has written; it begins to apply after

ASSUME LazyAssumption ==
  /\ IsFiniteSet(Resources)
  /\ Modes \subseteq Mode
  /\ \A m \in Modes : \A r, s \in Resources :
       Kind[r] = Kind[s] => m.scope[r] = m.scope[s]
  /\ Refs \in [Resources -> SUBSET Resources]
  /\ Lists \in [Resources -> SUBSET SUBSET Resources]
  /\ \A r \in Resources : UNION Lists[r] \subseteq Refs[r]
  /\ \A m \in Modes : \A r \in Resources :
       Refs[r] \cap m.principals \subseteq UNION Lists[r]
  /\ MaxId \in Nat \ {0}

VARIABLES
  mode,        \* a member of Modes
  imported,    \* resources with a source file
  files,       \* destination files
  live,        \* <<resource, id>> that exist in the destination organization
  phase,       \* of each process
  source,      \* State.source of each process
  destination, \* State.destination of each process
  attempted,   \* State._ensure_attempted of each process
  scanned,     \* resources whose connections were examined
  edges,       \* the dependency graph: failed connections of each resource
  finished,    \* nodes of the graph that are done
  failed,      \* nodes that were not applied
  sent,        \* the references that each process wrote a resource with
  deleted      \* resources that each process deleted

org  == <<imported, files, live>>
mem  == <<source, destination, attempted>>
vars == <<mode, org, mem, phase, scanned, edges, finished, failed, sent, deleted>>

Scope      == mode.scope
Principals == mode.principals
Drop       == mode.drop
SkipFailed == mode.skipFailed
Refresh    == mode.refresh
Cleanup    == mode.cleanup
Overlap    == mode.overlap

Procs == {Scope[r] : r \in Resources}

Mine(p) == {r \in Resources : Scope[r] = p}

Init ==
  /\ mode \in Modes
  /\ imported \in SUBSET Resources
  /\ \E synced \in SUBSET Resources :
       /\ files = [r \in Resources |-> IF r \in synced THEN 1 ELSE 0]
       /\ live = {<<r, 1>> : r \in synced}
  /\ phase = [p \in Procs |-> "idle"]
  /\ source = [p \in Procs |-> {}]
  /\ destination = [p \in Procs |-> [r \in Resources |-> 0]]
  /\ attempted = [p \in Procs |-> {}]
  /\ scanned = [p \in Procs |-> {}]
  /\ edges = [p \in Procs |-> [r \in Resources |-> {}]]
  /\ finished = [p \in Procs |-> {}]
  /\ failed = [p \in Procs |-> {}]
  /\ sent = [p \in Procs |-> [r \in Resources |-> {}]]
  /\ deleted = [p \in Procs |-> {}]

\* The processes are started in order.
Started(p) ==
  \A q \in Procs : q < p =>
    IF Overlap THEN phase[q] # "idle" ELSE phase[q] = "ended"

\* State.load_state, scoped to the types of the process.
Load(p) ==
  /\ phase[p] = "idle" /\ Started(p)
  /\ source' = [source EXCEPT ![p] = imported \cap Mine(p)]
  /\ destination' = [destination EXCEPT ![p] =
       [r \in Resources |-> IF r \in Mine(p) THEN files[r] ELSE 0]]
  /\ phase' = [phase EXCEPT ![p] = "scan"]
  /\ UNCHANGED <<mode, org, attempted, scanned, edges, finished, failed, sent,
                 deleted>>

\* The dependencies of deps that ensure_resource_loaded reads.
Wanted(p, deps) == deps \ attempted[p]

\* (X_... is a faulty variant of X that a property below catches.)

Ensure_SourceOnly(p, deps) ==
  /\ source' = [source EXCEPT ![p] = @ \cup (Wanted(p, deps) \cap imported)]
  /\ attempted' = [attempted EXCEPT ![p] = @ \cup deps]
  /\ UNCHANGED destination

\* ensure_resource_loaded for each dependency in deps.
Ensure(p, deps) ==
  /\ source' = [source EXCEPT ![p] = @ \cup (Wanted(p, deps) \cap imported)]
  /\ destination' = [destination EXCEPT ![p] =
       [r \in Resources |->
          IF r \in Wanted(p, deps) /\ files[r] # 0 THEN files[r] ELSE @[r]]]
  /\ attempted' = [attempted EXCEPT ![p] = @ \cup deps]

\* connect_id: references with no destination entry.
Unresolved(p, r) == {d \in Refs[r] : destination[p][d] = 0}

\* _resource_connections of one resource.
Scan(p, r) ==
  /\ phase[p] = "scan"
  /\ r \in (imported \cap Mine(p)) \ scanned[p]
  /\ Ensure(p, Unresolved(p, r))
  /\ edges' = [edges EXCEPT ![p][r] = Unresolved(p, r)]
  /\ scanned' = [scanned EXCEPT ![p] = @ \cup {r}]
  /\ UNCHANGED <<mode, org, phase, finished, failed, sent, deleted>>

Scanned(p) ==
  /\ phase[p] = "scan" /\ scanned[p] = imported \cap Mine(p)
  /\ phase' = [phase EXCEPT ![p] = "cleanup"]
  /\ UNCHANGED <<mode, org, mem, scanned, edges, finished, failed, sent,
                 deleted>>

Nodes(p) == scanned[p] \cup UNION {edges[p][r] : r \in scanned[p]}

Orphans(p) ==
  {r \in Mine(p) \ source[p] : destination[p][r] # 0}

Forgotten_Never(p, r) == destination[p]

Forgotten(p, r) == [destination[p] EXCEPT ![r] = 0]

\* _cleanup_worker; a resource that is already gone counts as deleted.  An
\* orphan that is left when the cleanup ends is one whose delete failed.
Delete(p, r) ==
  /\ phase[p] = "cleanup" /\ Cleanup
  /\ r \in Orphans(p)
  /\ live' = live \ {<<r, destination[p][r]>>}
  /\ destination' = [destination EXCEPT ![p] = Forgotten(p, r)]
  /\ deleted' = [deleted EXCEPT ![p] = @ \cup {r}]
  /\ UNCHANGED <<mode, imported, files, phase, source, attempted, scanned,
                 edges, finished, failed, sent>>

\* The resources whose types are in the graph.
Types(p) == {r \in Resources : \E n \in Nodes(p) : Kind[n] = Kind[r]}

\* Insert if absent.
Kept(p, r) == IF destination[p][r] = 0 THEN files[r] ELSE destination[p][r]

\* _maybe_refresh_destination_state.
BeginApply(p) ==
  /\ phase[p] = "cleanup"
  /\ \A q \in Procs : q < p => phase[q] = "ended"
  /\ phase' = [phase EXCEPT ![p] = "apply"]
  /\ IF Refresh
     THEN /\ destination' = [destination EXCEPT ![p] =
               [r \in Resources |-> IF r \in Types(p) THEN Kept(p, r)
                                                      ELSE @[r]]]
          /\ attempted' = [attempted EXCEPT ![p] =
               @ \cup {r \in Types(p) : files[r] # 0}]
     ELSE UNCHANGED <<destination, attempted>>
  /\ UNCHANGED <<mode, org, source, scanned, edges, finished, failed, sent,
                 deleted>>

Dispatched(p) ==
  {r \in Nodes(p) \ finished[p] : edges[p][r] \subseteq finished[p]}

\* A dependency of another type that is already resolved is not applied.
Resolved(p, r) == r \notin Mine(p) /\ destination[p][r] # 0

\* run_sorter passes over a node.
PassOver(p, r) ==
  /\ phase[p] = "apply" /\ r \in Dispatched(p)
  /\ r \notin source[p] \/ Resolved(p, r)
  /\ finished' = [finished EXCEPT ![p] = @ \cup {r}]
  /\ UNCHANGED <<mode, org, mem, phase, scanned, edges, failed, sent, deleted>>

\* The ids a resource has not had yet.
NewIds(r) == {i \in 1..MaxId : \A j \in 1..MaxId : <<r, j>> \in live => j < i}

\* _resolve_or_drop for the unresolved principals of r, which reads their
\* files: the id of d, 0 when it has none.
Late(p, r) == Unresolved(p, r) \cap Principals
IdNow(p, r, d) ==
  IF d \in Wanted(p, Late(p, r)) THEN files[d] ELSE destination[p][d]

Stale_NotSynced(p, r) == {d \in Late(p, r) : IdNow(p, r, d) = 0}

\* Principals that are in neither state are permanently gone; one that is in
\* the source state is only not synced yet.
Stale(p, r) ==
  {d \in Late(p, r) \ source[p] :
     IdNow(p, r, d) = 0 /\ d \notin Wanted(p, Late(p, r)) \cap imported}

Dropped(p, r) == IF Drop THEN Stale(p, r) ELSE {}

\* empty_binding_risk: a list that had principals is left with none.
Emptied(p, r) ==
  \E list \in Lists[r] : list # {} /\ list \subseteq Dropped(p, r)

\* connect_resources raises, for a connection that is missing or a list that it
\* emptied.
Raises(p, r) ==
  /\ ~SkipFailed
  /\ \/ \E d \in Refs[r] \ Dropped(p, r) : IdNow(p, r, d) = 0
     \/ Emptied(p, r)

\* The destination state once that has been read.
Loaded(p, r) ==
  [d \in Resources |->
     IF d \in Late(p, r) /\ IdNow(p, r, d) # 0 THEN IdNow(p, r, d)
                                               ELSE destination[p][d]]

\* _apply_resource_cb: connect_resources, then a create or an update, which may
\* be refused.
Apply(p, r) ==
  /\ phase[p] = "apply" /\ r \in Dispatched(p)
  /\ r \in source[p] /\ ~Resolved(p, r)
  /\ source' = [source EXCEPT ![p] = @ \cup (Wanted(p, Late(p, r)) \cap imported)]
  /\ attempted' = [attempted EXCEPT ![p] = @ \cup Late(p, r)]
  /\ finished' = [finished EXCEPT ![p] = @ \cup {r}]
  /\ \/ /\ Raises(p, r) \/ mode.refuses
        /\ failed' = [failed EXCEPT ![p] = @ \cup {r}]
        /\ destination' = [destination EXCEPT ![p] = Loaded(p, r)]
        /\ UNCHANGED <<live, sent>>
     \/ /\ ~Raises(p, r)
        /\ sent' = [sent EXCEPT ![p][r] = Refs[r] \ Dropped(p, r)]
        /\ UNCHANGED failed
        /\ \/ /\ Loaded(p, r)[r] # 0
              /\ destination' = [destination EXCEPT ![p] = Loaded(p, r)]
              /\ UNCHANGED live
           \/ /\ Loaded(p, r)[r] = 0
              /\ \E i \in NewIds(r) :
                   /\ \A j \in NewIds(r) : i <= j
                   /\ live' = live \cup {<<r, i>>}
                   /\ destination' = [destination EXCEPT ![p] =
                                        [Loaded(p, r) EXCEPT ![r] = i]]
  /\ UNCHANGED <<mode, imported, files, phase, scanned, edges, deleted>>

\* dump_state writes a file for every entry and removes none.
Written(p, r) == destination[p][r] # 0

Dump(p) ==
  /\ phase[p] = "apply" /\ Nodes(p) \subseteq finished[p]
  /\ files' = [r \in Resources |->
                 IF Written(p, r) THEN destination[p][r] ELSE files[r]]
  /\ phase' = [phase EXCEPT ![p] = "ended"]
  /\ UNCHANGED <<mode, imported, live, mem, scanned, edges, finished, failed, sent,
                 deleted>>

Ended == (\A p \in Procs : phase[p] = "ended") /\ UNCHANGED vars

Step(p) ==
  \/ Load(p) \/ Scanned(p) \/ BeginApply(p) \/ Dump(p)
  \/ \E r \in Resources :
       Scan(p, r) \/ Delete(p, r) \/ PassOver(p, r) \/ Apply(p, r)

Next == (\E p \in Procs : Step(p)) \/ Ended

Spec == Init /\ [][Next]_vars

-----------------------------------------------------------------------------
(* Properties.                                                             *)

\* Every variable keeps its type.
TypeOK ==
  /\ mode \in Modes
  /\ imported \subseteq Resources
  /\ files \in [Resources -> 0..MaxId]
  /\ live \subseteq Resources \X (0..MaxId)
  /\ phase \in [Procs -> {"idle", "scan", "cleanup", "apply", "ended"}]
  /\ {source, attempted, scanned, finished, failed, deleted}
       \subseteq [Procs -> SUBSET Resources]
  /\ destination \in [Procs -> [Resources -> 0..MaxId]]
  /\ {edges, sent} \subseteq [Procs -> [Resources -> SUBSET Resources]]

\* The process of a type has written before another one looks: it has ended
\* before the other loads, or the other refreshes.
InTurn == Overlap => Refresh

\* No two processes create the same source resource: the one that meets it as
\* a dependency finds what the process of its type created.
CreatedOnce ==
  InTurn => \A r \in Resources :
              Cardinality({i \in 1..MaxId : <<r, i>> \in live}) <= 1

\* Nothing reads the destination files once a cleanup has deleted: not the process
\* of it, and not a later one, as the files of what it deletes stay.
NotReadAgain ==
  Cleanup => ~Refresh /\ Principals = {} /\ \A p, q \in Procs : p = q

\* What the step applies.
Applies(p) == source[p] \cap {r \in finished'[p] \ finished[p] :
                                ~Resolved(p, r) /\ r \notin failed'[p]}

\* A resource is applied with references to resources that exist.
AppliedRefsLive ==
  [][NotReadAgain /\ ~SkipFailed => \A p \in Procs : \A r \in Applies(p) :
       \A d \in sent'[p][r] : <<d, destination'[p][d]>> \in live']_vars

\* An access list never loses a principal that could still be resolved: what is
\* left out was not imported and is in no destination file, unless this process
\* deleted it.  And no resource is written with a list that this emptied, which
\* would open it to everyone, unless failed connections are to be skipped.
ListsKept ==
  [][\A p \in Procs : \A r \in Applies(p) :
       /\ \A d \in Refs[r] \ sent'[p][r] :
            /\ Drop /\ d \in Principals /\ d \notin imported
            /\ files[d] = 0 \/ d \in deleted[p]
       /\ SkipFailed \/ \A list \in Lists[r] :
                          list = {} \/ list \cap sent'[p][r] # {}]_vars
=============================================================================
