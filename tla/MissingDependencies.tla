------------------------- MODULE MissingDependencies -------------------------
(***************************************************************************)
(* --force-missing-dependencies: the worker pool that fetches from the     *)
(* source org the dependencies that the source state lacks, theirs, and so *)
(* on.  There are two callbacks:                                           *)
(*   - _import_missing_dep_cb (import): seeded by a closure walk over the  *)
(*     source state, skips what another worker has stored already;         *)
(*   - _force_missing_dep_import_cb (sync): seeded by                      *)
(*     get_dependency_graph, adds each resource to the dependency graph.   *)
(* The queue grows while the pool runs.  The pool passes no cancel         *)
(* callback: the one in place is the empty method of a queue that is not   *)
(* used any more, so the workers are told to stop at once and end when     *)
(* they find the queue empty.                                              *)
(*                                                                         *)
(* A reference holds a name; the resource is stored under its key.  For    *)
(* synthetics tests the two differ (a public id against a public id and a  *)
(* monitor id), for the other types NameOf is the identity.                *)
(***************************************************************************)
EXTENDS Naturals, FiniteSets

CONSTANTS
  Resource,        \* keys of the source state
  Name,            \* what references and queue items hold
  NameOf,          \* the name of each resource
  InScope,         \* resources of the types in config.resources_arg
  ReferenceGraphs, \* the references the resources of the source org may hold
  Worker,
  NoName,          \* the item of an idle worker
  MaxQueued        \* bound on how often a name is in the queue

ASSUME MissingAssumption ==
  /\ NameOf \in [Resource -> Name]
  /\ \A r, q \in Resource : NameOf[r] = NameOf[q] => r = q
  /\ \A r \in Resource : NameOf[r] \in Resource => NameOf[r] = r
  /\ IsFiniteSet(Resource) /\ IsFiniteSet(Worker) /\ Worker # {}
  /\ InScope \subseteq Resource
  /\ ReferenceGraphs \subseteq [Resource -> SUBSET Resource]
  /\ NoName \notin Name /\ MaxQueued \in Nat

VARIABLES
  atSync,    \* the sync callback, rather than the import one
  refs,      \* what each resource of the source org refers to
  source,    \* keys of state.source
  dest,      \* resources with a destination counterpart
  before,    \* source when the pool starts
  running,   \* the pool runs
  shutdown,  \* _shutdown_workers
  queue,     \* how often each name is in work_queue
  pc, item,  \* the workers and their items
  keys,      \* the nodes of _dependency_graph
  deps,      \* its edges
  failed     \* names that could not be imported, at some attempt

vars == <<atSync, refs, source, dest, before, running, shutdown, queue, pc,
          item, keys, deps, failed>>

KeyOf(n) == CHOOSE r \in Resource : NameOf[r] = n
Names(S) == {NameOf[r] : r \in S}
Unconnected(r) == refs[r] \ dest

-----------------------------------------------------------------------------
(* The seeds.                                                              *)

\* Sets that following references inside the source state src does not leave.
Closed(S, src) == \A r \in S : refs[r] \cap src \subseteq S

\* What can be reached from the scope inside src.
Reached(src) == {r \in src : \A S \in SUBSET src :
                               InScope \cap src \subseteq S /\ Closed(S, src)
                               => r \in S}

\* What the walk of _discover_missing_dependencies visits.
Walk == Reached(before)

Discovered_Shallow ==
  UNION {Names(refs[r] \ before) : r \in InScope \cap before}

\* _discover_missing_dependencies compares keys.
Discovered == UNION {Names(refs[r] \ before) : r \in Walk}

\* get_dependency_graph compares names: a key is known by its own name only.
Known(n) == n \in source
MissingNodes(r) == {n \in Names(Unconnected(r)) : ~Known(n)}
Unresolved == UNION {MissingNodes(r) : r \in InScope \cap source}

Seeds == IF atSync THEN Unresolved ELSE Discovered

-----------------------------------------------------------------------------
Init ==
  /\ atSync \in BOOLEAN
  /\ refs \in ReferenceGraphs
  /\ source \in SUBSET Resource
  /\ dest \in IF atSync THEN SUBSET Resource ELSE {{}}
  /\ before = source
  /\ shutdown = FALSE
  /\ queue = [n \in Name |-> IF n \in Seeds THEN 1 ELSE 0]
  /\ running = (Seeds # {})
  \* no more workers than missing dependencies
  /\ \E hired \in SUBSET Worker :
       /\ \/ Cardinality(hired) = Cardinality(Seeds)
          \/ hired = Worker /\ Cardinality(Seeds) > Cardinality(Worker)
       /\ pc = [w \in Worker |-> IF w \in hired THEN "idle" ELSE "returned"]
  /\ item = [w \in Worker |-> NoName]
  /\ keys = IF atSync THEN Names(InScope \cap source) ELSE {}
  /\ deps = [n \in Name |-> IF n \in keys THEN Names(Unconnected(KeyOf(n)))
                                         ELSE {}]
  /\ failed = {}

\* The stale cancel callback reports an empty queue.
Cancel ==
  /\ running /\ ~shutdown
  /\ shutdown' = TRUE
  /\ UNCHANGED <<atSync, refs, source, dest, before, running, queue, pc, item,
                 keys, deps, failed>>

\* The import callback returns early when the resource is in the source state.
Skips(n) == ~atSync /\ KeyOf(n) \in source

Waiting(n) == queue[n] > 0

\* get_nowait, and the callback up to its request.
TakeItem(w) ==
  /\ running /\ pc[w] = "idle"
  /\ \E n \in Name :
       /\ Waiting(n)
       /\ queue' = [queue EXCEPT ![n] = @ - 1]
       /\ IF Skips(n) THEN UNCHANGED <<pc, item>>
                      ELSE /\ pc' = [pc EXCEPT ![w] = "import"]
                           /\ item' = [item EXCEPT ![w] = n]
  /\ UNCHANGED <<atSync, refs, source, dest, before, running, shutdown, keys,
                 deps, failed>>

Enqueued_Stored(r, stored) == Names(refs[r])

\* The dependencies that are queued once r is stored.
Enqueued(r, stored) ==
  IF atSync THEN {n \in Names(Unconnected(r)) : n \notin stored}
            ELSE Names(refs[r] \ stored)

\* The sync callback adds a node for the item as it was queued.
Node(n) == IF atSync THEN keys \cup {n} ELSE keys

\* The requests of _import_resource returned: from the store to the end of the
\* callback nothing suspends.  An import that is skipped or fails changes
\* nothing.  MaxQueued bounds a queue that grows without end (see Revolves).
ImportReturns(w) ==
  /\ running /\ pc[w] = "import"
  /\ LET n == item[w]
         r == KeyOf(n)
     IN \/ /\ \A q \in Enqueued(r, source \cup {r}) : queue[q] < MaxQueued
           /\ source' = source \cup {r}
           /\ queue' = [q \in Name |-> IF q \in Enqueued(r, source')
                                         THEN queue[q] + 1 ELSE queue[q]]
           /\ keys' = Node(n)
           /\ deps' = IF atSync
                        THEN [deps EXCEPT ![n] = Names(Unconnected(r))]
                        ELSE deps
           /\ UNCHANGED failed
        \/ /\ failed' = failed \cup {n}
           /\ UNCHANGED <<source, queue, keys, deps>>
  /\ pc' = [pc EXCEPT ![w] = "idle"]
  /\ item' = [item EXCEPT ![w] = NoName]
  /\ UNCHANGED <<atSync, refs, dest, before, running, shutdown>>

Stops_AtOnce == shutdown

\* _worker's loop condition fails.
Stops == shutdown /\ \A n \in Name : ~Waiting(n)

WorkerReturns(w) ==
  /\ running /\ pc[w] = "idle"
  /\ Stops
  /\ pc' = [pc EXCEPT ![w] = "returned"]
  /\ UNCHANGED <<atSync, refs, source, dest, before, running, shutdown, queue,
                 item, keys, deps, failed>>

\* gather returns.
PoolReturns ==
  /\ running /\ shutdown
  /\ \A w \in Worker : pc[w] = "returned"
  /\ running' = FALSE
  /\ UNCHANGED <<atSync, refs, source, dest, before, shutdown, queue, pc, item,
                 keys, deps, failed>>

WorkerStep(w) == TakeItem(w) \/ ImportReturns(w) \/ WorkerReturns(w)

Terminated == ~running /\ UNCHANGED vars

Next ==
  \/ Cancel
  \/ \E w \in Worker : WorkerStep(w)
  \/ PoolReturns
  \/ Terminated

\* The event loop schedules every coroutine and a request returns or raises.
Fairness ==
  /\ WF_vars(Cancel)
  /\ \A w \in Worker : WF_vars(WorkerStep(w))
  /\ WF_vars(PoolReturns)

Spec == Init /\ [][Next]_vars /\ Fairness

-----------------------------------------------------------------------------
(* Properties.                                                             *)

\* The type of every variable.
TypeOK ==
  /\ atSync \in BOOLEAN /\ running \in BOOLEAN /\ shutdown \in BOOLEAN
  /\ refs \in [Resource -> SUBSET Resource]
  /\ source \subseteq Resource /\ before \subseteq source
  /\ dest \subseteq Resource
  /\ queue \in [Name -> Nat]
  /\ pc \in [Worker -> {"idle", "import", "returned"}]
  /\ item \in [Worker -> Name \cup {NoName}]
  /\ keys \subseteq Name /\ failed \subseteq Name
  /\ deps \in [Name -> SUBSET Name]

\* When the pool ends nothing was overlooked, although its queue is empty for a
\* moment whenever a callback is about to add to it: after an import every
\* dependency of what the walk visited or the pool imported is in the source
\* state, or its import was tried and failed; at sync everything the graph refers
\* to is a node of its own, was in the source state before, or could not be
\* imported.
ImportIsClosed ==
  ~running =>
    /\ ~atSync => \A r \in Walk \cup (source \ before) :
                    Names(refs[r] \ source) \subseteq failed
    /\ atSync => \A n \in keys : deps[n] \subseteq keys \cup failed \cup Names(before)

\* The same of all that can be reached, what was in the source state before and is
\* reached through an import included.
AllReachedIsClosed ==
  ~running /\ ~atSync =>
    \A r \in Reached(source) : Names(refs[r] \ source) \subseteq failed

\* A cycle of tests without counterparts that name one another.  The sync callback
\* looks a public id up among keys, never finds it, and queues it again for each
\* test that refers to it, imported or not.
Revolves ==
  atSync /\ \E S \in SUBSET Resource \ {{}} :
              \A r \in S : \E q \in S \cap Unconnected(r) : NameOf[q] # q

\* The pool does not feed itself forever: at import it ends whatever refers to
\* whatever, tests that refer to each other or to themselves included; at sync it
\* ends unless there is such a cycle, and so also on cycles in which one resource
\* is known by its key.
PoolEnds == ~Revolves => <>~running
=============================================================================
