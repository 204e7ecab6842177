--------------------------- MODULE ApplyResources ---------------------------
(***************************************************************************)
(* ResourcesHandler.apply_resources: one sync pass over the resources of   *)
(* the in-scope types.  The handler scans the source state into a          *)
(* dependency graph, prepares a topological sorter over it, and then runs, *)
(* on one event loop,                                                      *)
(*   - the feeder (run_sorter), which moves ready nodes to a work queue,   *)
(*   - the workers, each applying one resource at a time                   *)
(*     (_apply_resource_cb), and                                           *)
(*   - the cancel worker, whose executor thread polls the sorter and tells *)
(*     the workers to stop once it is no longer active.                    *)
(* Afterwards the state is dumped.                                         *)
(*                                                                         *)
(* A worker step is the code between two awaits; the awaits are the type's *)
(* lock or semaphore, the pre-action hook, the create or update request    *)
(* and the outcome metrics.  A resource is a value of Resource: its type   *)
(* and its id.  Its content is reduced to the references it holds.  Most   *)
(* references name the state key of their target; a reference to a         *)
(* synthetics test names its public id, while the states are keyed by      *)
(* public id and monitor id.  EdgeTo maps a resource to the node that a    *)
(* failed reference to it becomes: itself, or an alias that no state has.  *)
(***************************************************************************)
EXTENDS TopologicalSort, Naturals, FiniteSets

CONSTANTS
  Resource,             \* (resource_type, _id) pairs
  Type,                 \* resource types
  TypeOf,               \* the type of each resource
  Serial,               \* types with resource_config.concurrent = False
  MaxConcurrent,        \* resource_config.max_concurrent, 0 for no cap
  Worker,               \* worker coroutines, at most config.max_workers
  ReferenceGraphs,      \* the references the source resources may hold
  EdgeTo,               \* the graph node a failed reference becomes
  Modes,                \* the circumstances of a pass, see below
  NoResource            \* the item of an idle worker

\* Options and scheduling of a pass, chosen at the start and kept.
Mode == [resourcesArg  : SUBSET Type, \* config.resources_arg: types in scope
         minimizeReads : BOOLEAN,     \* state._minimize_reads
         skipFailed    : BOOLEAN,     \* skip_failed_resource_connections
         refresh       : BOOLEAN,     \* refresh_destination_state_before_apply
         gilYields     : BOOLEAN]     \* a thread switch may fall inside a
                                      \* sorter call

ASSUME ConstantsAssumption ==
  /\ TypeOf \in [Resource -> Type]
  /\ Serial \subseteq Type
  /\ MaxConcurrent \in [Type -> Nat]
  /\ ReferenceGraphs \subseteq [Resource -> SUBSET Resource]
  /\ EdgeTo \in [Resource -> Resource]
  /\ Modes \subseteq Mode
  /\ \A m \in Modes : m.minimizeReads => \A r \in Resource : EdgeTo[r] = r
  /\ NoResource \notin Resource

VARIABLES
  mode,        \* a member of Modes
  refs,        \* the ids each source resource refers to
  srcFile,     \* ids with a source blob in storage
  destFile,    \* ids with a destination blob in storage
  filtered,    \* ids rejected by --filter
  source,      \* ids in state.source
  dest,        \* ids in state.destination
  phase,       \* where apply_resources is
  toScan,      \* resources get_dependency_graph has not visited yet
  filteredOut, \* its filtered_out set
  keys,        \* the keys of _dependency_graph
  deps,        \* its values
  taken, counted, finished,      \* the sorter, see TopologicalSort
  sorterPc,    \* the feeder: polling, inside get_ready, or returned
  cancelPc,    \* the cancel worker: polling, between its reads, or returned
  shutdown,    \* _shutdown_workers
  queue,       \* work_queue
  pc,          \* where each worker is
  item,        \* the q_item of each busy worker
  permits,     \* free slots of each type's async_lock or async_semaphore
  verdict,     \* the outcome a worker is reporting
  success, failure, skipped,     \* the counters
  unresolved,  \* connection failures found for each resource
  written,     \* resources created or updated in the destination org
  dispatched   \* nodes the feeder put in the work queue

scanVars    == <<source, toScan, filteredOut, keys, deps>>
sorterVars  == <<taken, counted, finished>>
staticVars  == <<mode, refs, srcFile, filtered>>
poolVars    == <<queue, pc, item, permits, verdict>>
resultVars  == <<success, failure, skipped, unresolved, written>>
vars == <<staticVars, destFile, dest, phase, scanVars, sorterVars, sorterPc,
          cancelPc, shutdown, poolVars, resultVars, dispatched>>

ResourcesArg          == mode.resourcesArg
MinimizeReads         == mode.minimizeReads
SkipFailedConnections == mode.skipFailed
RefreshDestination    == mode.refresh
GilYields             == mode.gilYields

PlainIds == \A r \in Resource : EdgeTo[r] = r
Keyed    == {r \in Resource : \A d \in Resource : EdgeTo[d] = r => r = d}
InScope == {r \in Resource : TypeOf[r] \in ResourcesArg}
Nodes   == NodesOf(keys, deps)
Ready   == ReadyNodes(Nodes, deps, taken, finished)
Busy(w) == item[w] \in Resource

-----------------------------------------------------------------------------
(* Initial states.                                                         *)

\* A full load reads every blob; --minimize-reads reads the types in scope
\* (type-scoped) or some ids of those types (id-targeted).  A destination
\* blob may be written by another process after this one has loaded its
\* state, which is what the optional refresh is for.
Init ==
  /\ mode \in Modes
  /\ refs \in ReferenceGraphs
  /\ srcFile \in SUBSET Keyed
  /\ destFile \in SUBSET Keyed
  /\ \E loaded \in IF MinimizeReads THEN SUBSET InScope ELSE {Resource} :
     \E late \in IF RefreshDestination THEN SUBSET destFile ELSE {{}} :
        /\ source = srcFile \cap loaded
        /\ dest = (destFile \ late) \cap loaded
  /\ filtered \in SUBSET (source \cap InScope)
  /\ phase = "graph"
  /\ toScan = source \cap InScope
  /\ filteredOut = {}
  /\ keys = {}
  /\ deps = [r \in Resource |-> {}]
  /\ taken = {} /\ counted = {} /\ finished = {}
  /\ sorterPc = "poll"
  /\ cancelPc = "poll"
  /\ shutdown = FALSE
  /\ queue = {}
  /\ pc = [w \in Worker |-> "idle"]
  /\ item = [w \in Worker |-> NoResource]
  /\ permits = [t \in Type |-> IF t \in Serial THEN 1 ELSE MaxConcurrent[t]]
  /\ verdict = [w \in Worker |-> "none"]
  /\ success = 0 /\ failure = 0 /\ skipped = 0
  /\ unresolved = [r \in Resource |-> {}]
  /\ written = {}
  /\ dispatched = {}

-----------------------------------------------------------------------------
(* The dependency graph (synchronous; no worker is running).               *)

\* (Definitions named X_... are faulty variants of X; nothing uses them, and
\* each is a plausible slip that a property below is known to catch.)
FailedConnections_Missing(r) == refs[r] \ (dest \cup source)

\* connect_id: the references of r with no counterpart in the destination.
FailedConnections(r) == refs[r] \ dest

\* One round of get_dependency_graph's loop.  A dependency is an id that is
\* not in the destination state; looking it up loads its blobs when only a
\* part of the state was loaded up front.
ScanResource(r) ==
  /\ phase = "graph" /\ r \in toScan
  /\ toScan' = toScan \ {r}
  /\ IF r \in filtered
       THEN /\ filteredOut' = filteredOut \cup {r}
            /\ UNCHANGED <<keys, deps, source, dest>>
       ELSE LET failed == FailedConnections(r)
                lazy   == IF MinimizeReads THEN failed ELSE {}
            IN /\ keys' = keys \cup {r}
               /\ deps' = [deps EXCEPT ![r] = {EdgeTo[d] : d \in failed}]
               /\ source' = source \cup (lazy \cap srcFile)
               /\ dest' = dest \cup (lazy \cap destFile)
               /\ UNCHANGED filteredOut
  /\ UNCHANGED <<staticVars, destFile, phase, sorterVars, sorterPc, cancelPc,
                 shutdown, poolVars, resultVars, dispatched>>

EdgesKept_NoPeers(r) == deps[r] \ (filteredOut \cup keys)
EdgesKept(r) == deps[r] \ filteredOut

\* The end of get_dependency_graph: references to filtered-out resources are
\* removed.
FinishGraph ==
  /\ phase = "graph" /\ toScan = {}
  /\ deps' = [r \in Resource |-> EdgesKept(r)]
  /\ phase' = "prepare"
  /\ UNCHANGED <<staticVars, destFile, source, dest, toScan, filteredOut, keys,
                 sorterVars, sorterPc, cancelPc, shutdown, poolVars,
                 resultVars, dispatched>>

\* _maybe_refresh_destination_state inserts the blobs of the graph's types
\* that are not in memory; a storage error leaves the state as it was.
Reloaded == {r \in destFile : \E n \in Nodes : TypeOf[n] = TypeOf[r]}

\* init_topological_sorter: a cyclic graph raises CycleError out of
\* apply_resources.
StartSorting ==
  /\ phase = "prepare"
  /\ dest' \in {dest} \cup (IF RefreshDestination THEN {dest \cup Reloaded}
                                                  ELSE {})
  /\ phase' = IF IsCyclic(Nodes, deps) THEN "aborted" ELSE "apply"
  /\ UNCHANGED <<staticVars, destFile, scanVars, sorterVars, sorterPc,
                 cancelPc, shutdown, poolVars, resultVars, dispatched>>

-----------------------------------------------------------------------------
(* The feeder.                                                             *)

\* Nodes that are finished without being applied: not in source state (an
\* attempt to import them was made already), or an out-of-scope dependency
\* that is in the destination under --minimize-reads.
Bypassed(n) ==
  \/ n \notin source
  \/ MinimizeReads /\ TypeOf[n] \notin ResourcesArg /\ n \in dest

\* The event loop runs one coroutine at a time: nothing else on it moves
\* while the feeder is between get_ready and its next await.
LoopFree == sorterPc # "handout"

\* sorter.get_ready, first half: mark the ready nodes and clear the list.
GetReady ==
  /\ phase = "apply" /\ sorterPc = "poll"
  /\ Ready # {}
  /\ taken' = taken \cup Ready
  /\ sorterPc' = "handout"
  /\ UNCHANGED <<staticVars, destFile, dest, phase, scanVars, counted,
                 finished, cancelPc, shutdown, poolVars, resultVars,
                 dispatched>>

Batch_Unfinished == taken \ finished

\* The result of the get_ready that is being counted.
Batch == taken \ counted

\* sorter.get_ready, second half (_npassedout += len(result)), and the body
\* of run_sorter's for loop over the nodes it returned.
HandOut ==
  /\ phase = "apply" /\ sorterPc = "handout"
  /\ LET bypass == {n \in Batch : Bypassed(n)}
     IN /\ finished' = finished \cup bypass
        /\ queue' = queue \cup (Batch \ bypass)
        /\ dispatched' = dispatched \cup (Batch \ bypass)
  /\ counted' = taken
  /\ sorterPc' = "poll"
  /\ UNCHANGED <<staticVars, destFile, dest, phase, scanVars, taken, cancelPc,
                 shutdown, pc, item, permits, verdict, resultVars>>

\* run_sorter leaves its loop.
SorterReturns ==
  /\ phase = "apply" /\ sorterPc = "poll"
  /\ ~IsActive(counted, finished, Ready)
  /\ sorterPc' = "returned"
  /\ UNCHANGED <<staticVars, destFile, dest, phase, scanVars, sorterVars,
                 cancelPc, shutdown, poolVars, resultVars, dispatched>>

-----------------------------------------------------------------------------
(* The cancel worker: "not sorter.is_active()" in an executor thread.      *)

\* The second read of is_active, bool(_ready_nodes).
NoneReady == Ready = {}

StopWorkers == /\ shutdown' = TRUE
               /\ cancelPc' = "returned"

\* is_active reads the counters and then the ready list.  Without a thread
\* switch inside the sorter's methods the two reads see one state.
CancelPoll ==
  /\ phase = "apply" /\ cancelPc = "poll"
  /\ GilYields \/ LoopFree
  /\ counted \subseteq finished
  /\ IF GilYields
       THEN cancelPc' = "peek" /\ UNCHANGED shutdown
       ELSE NoneReady /\ StopWorkers
  /\ UNCHANGED <<staticVars, destFile, dest, phase, scanVars, sorterVars,
                 sorterPc, poolVars, resultVars, dispatched>>

CancelPeek ==
  /\ phase = "apply" /\ cancelPc = "peek"
  /\ IF NoneReady THEN StopWorkers
                  ELSE cancelPc' = "poll" /\ UNCHANGED shutdown
  /\ UNCHANGED <<staticVars, destFile, dest, phase, scanVars, sorterVars,
                 sorterPc, poolVars, resultVars, dispatched>>

-----------------------------------------------------------------------------
(* A worker.                                                               *)

Limited_SerialOnly(t) == t \in Serial

\* Types whose apply callbacks hold async_lock or async_semaphore.
Limited(t) == t \in Serial \/ MaxConcurrent[t] > 0

\* get_nowait, then the callback up to its first suspension: a type without
\* a limit goes straight to its hook.
TakeItem(w) ==
  /\ phase = "apply" /\ LoopFree
  /\ pc[w] = "idle"
  /\ \E n \in queue :
       /\ queue' = queue \ {n}
       /\ item' = [item EXCEPT ![w] = n]
       /\ pc' = [pc EXCEPT ![w] = IF Limited(TypeOf[n]) THEN "acquire"
                                                         ELSE "hook"]
  /\ UNCHANGED <<staticVars, destFile, dest, phase, scanVars, sorterVars,
                 sorterPc, cancelPc, shutdown, permits, verdict, resultVars,
                 dispatched>>

SlotFree(t) == permits[t] > 0

Acquire(w) ==
  /\ phase = "apply" /\ LoopFree
  /\ pc[w] = "acquire"
  /\ SlotFree(TypeOf[item[w]])
  /\ permits' = [permits EXCEPT ![TypeOf[item[w]]] = @ - 1]
  /\ pc' = [pc EXCEPT ![w] = "hook"]
  /\ UNCHANGED <<staticVars, destFile, dest, phase, scanVars, sorterVars,
                 sorterPc, cancelPc, shutdown, queue, item, verdict,
                 resultVars, dispatched>>

\* The except clauses count the outcome before they await the metrics.
Report(w, outcome) ==
  /\ pc' = [pc EXCEPT ![w] = "report"]
  /\ verdict' = [verdict EXCEPT ![w] = outcome]
  /\ failure' = IF outcome = "failure" THEN failure + 1 ELSE failure
  /\ skipped' = IF outcome = "skipped" THEN skipped + 1 ELSE skipped

\* The hook returned, and the callback runs to its next await: the request,
\* or the metrics of a resource that is skipped.
HookReturns(w) ==
  LET n    == item[w]
      miss == FailedConnections(n)
  IN
  /\ phase = "apply" /\ LoopFree
  /\ pc[w] = "hook"
  /\ \/ \* SkipResource, or any other exception, from the hook
        /\ \E outcome \in {"skipped", "failure"} : Report(w, outcome)
        /\ UNCHANGED unresolved
     \/ \* ResourceConnectionError
        /\ miss # {} /\ ~SkipFailedConnections
        /\ unresolved' = [unresolved EXCEPT ![n] = miss]
        /\ Report(w, "skipped")
     \/ \* no difference with the destination
        /\ miss = {} \/ SkipFailedConnections
        /\ n \in dest
        /\ unresolved' = [unresolved EXCEPT ![n] = miss]
        /\ Report(w, "skipped")
     \/ \* update or create
        /\ miss = {} \/ SkipFailedConnections
        /\ unresolved' = [unresolved EXCEPT ![n] = miss]
        /\ pc' = [pc EXCEPT ![w] = "request"]
        /\ UNCHANGED <<verdict, failure, skipped>>
  /\ UNCHANGED <<staticVars, destFile, dest, phase, scanVars, sorterVars,
                 sorterPc, cancelPc, shutdown, queue, item, permits, success,
                 written, dispatched>>

\* The request returned (_create_resource and _update_resource store the
\* response) or raised.
RequestReturns(w) ==
  /\ phase = "apply" /\ LoopFree
  /\ pc[w] = "request"
  /\ \/ /\ dest' = dest \cup {item[w]}
        /\ written' = written \cup {item[w]}
        /\ Report(w, "success")
     \/ /\ Report(w, "failure")
        /\ UNCHANGED <<dest, written>>
  /\ UNCHANGED <<staticVars, destFile, phase, scanVars, sorterVars, sorterPc,
                 cancelPc, shutdown, queue, item, permits, success,
                 unresolved, dispatched>>

MarkDone_OnSuccess(w) ==
  finished' = IF verdict[w] = "success" THEN finished \cup {item[w]}
                                        ELSE finished

\* sorter.done, "regardless of exception thrown".
MarkDone(w) == finished' = finished \cup {item[w]}

Release(t) ==
  permits' = IF Limited(t) THEN [permits EXCEPT ![t] = @ + 1] ELSE permits

\* The metrics were sent (their exceptions are swallowed); a success is
\* counted now, and the finally clause finishes the node and releases the
\* type's slot.
FinishItem(w) ==
  /\ phase = "apply" /\ LoopFree
  /\ pc[w] = "report"
  /\ success' = IF verdict[w] = "success" THEN success + 1 ELSE success
  /\ MarkDone(w)
  /\ Release(TypeOf[item[w]])
  /\ pc' = [pc EXCEPT ![w] = "idle"]
  /\ item' = [item EXCEPT ![w] = NoResource]
  /\ verdict' = [verdict EXCEPT ![w] = "none"]
  /\ UNCHANGED <<staticVars, destFile, dest, phase, scanVars, taken, counted,
                 sorterPc, cancelPc, shutdown, queue, failure, skipped,
                 unresolved, written, dispatched>>

\* The worker's loop condition fails.
WorkerReturns(w) ==
  /\ phase = "apply" /\ LoopFree
  /\ pc[w] = "idle"
  /\ shutdown /\ queue = {}
  /\ pc' = [pc EXCEPT ![w] = "returned"]
  /\ UNCHANGED <<staticVars, destFile, dest, phase, scanVars, sorterVars,
                 sorterPc, cancelPc, shutdown, queue, item, permits, verdict,
                 resultVars, dispatched>>

WorkerStep(w) ==
  \/ TakeItem(w) \/ Acquire(w) \/ HookReturns(w)
  \/ RequestReturns(w) \/ FinishItem(w) \/ WorkerReturns(w)

-----------------------------------------------------------------------------
\* gather returns once every coroutine has; then dump_state writes every
\* entry in memory.
DumpState ==
  /\ phase = "apply"
  /\ sorterPc = "returned" /\ cancelPc = "returned"
  /\ \A w \in Worker : pc[w] = "returned"
  /\ destFile' = destFile \cup dest
  /\ phase' = "dumped"
  /\ UNCHANGED <<staticVars, dest, scanVars, sorterVars, sorterPc, cancelPc,
                 shutdown, poolVars, resultVars, dispatched>>

Terminated == phase \in {"dumped", "aborted"} /\ UNCHANGED vars

Next ==
  \/ \E r \in Resource : ScanResource(r)
  \/ FinishGraph
  \/ StartSorting
  \/ GetReady
  \/ HandOut
  \/ SorterReturns
  \/ CancelPoll
  \/ CancelPeek
  \/ \E w \in Worker : WorkerStep(w)
  \/ DumpState
  \/ Terminated

\* asyncio schedules every runnable coroutine, the executor thread runs, and
\* a request returns or raises (the client gives it a timeout).
Fairness ==
  /\ WF_vars(\E r \in Resource : ScanResource(r))
  /\ WF_vars(FinishGraph \/ StartSorting)
  /\ WF_vars(GetReady \/ HandOut \/ SorterReturns)
  /\ WF_vars(CancelPoll \/ CancelPeek)
  /\ \A w \in Worker : WF_vars(WorkerStep(w))
  /\ WF_vars(DumpState)

Spec == Init /\ [][Next]_vars /\ Fairness

-----------------------------------------------------------------------------
(* Properties.                                                             *)

\* Every variable keeps its type.
TypeOK ==
  /\ mode \in Modes
  /\ refs \in [Resource -> SUBSET Resource]
  /\ {srcFile, destFile, filtered, source, dest} \subseteq SUBSET Resource
  /\ {toScan, filteredOut, keys} \subseteq SUBSET Resource
  /\ {taken, counted, finished} \subseteq SUBSET Resource
  /\ {queue, written, dispatched} \subseteq SUBSET Resource
  /\ deps \in [Resource -> SUBSET Resource]
  /\ unresolved \in [Resource -> SUBSET Resource]
  /\ phase \in {"graph", "prepare", "apply", "dumped", "aborted"}
  /\ sorterPc \in {"poll", "handout", "returned"}
  /\ cancelPc \in {"poll", "peek", "returned"}
  /\ shutdown \in BOOLEAN
  /\ pc \in [Worker -> {"idle", "acquire", "hook", "request", "report",
                        "returned"}]
  /\ item \in [Worker -> Resource \cup {NoResource}]
  /\ verdict \in [Worker -> {"none", "success", "failure", "skipped"}]
  /\ permits \in [Type -> Nat]
  /\ {success, failure, skipped} \subseteq Nat

\* A resource is applied by one worker at a time, and at most once in a pass:
\* while it is queued or being applied it is neither in a second worker nor
\* marked done in the sorter.  A second create would duplicate it in the
\* destination org.
SingleFlight ==
  /\ \A w, v \in Worker : Busy(w) /\ item[w] = item[v] => w = v
  /\ \A w \in Worker : item[w] \notin queue \cup finished
  /\ queue \cap finished = {}

\* The verdict of connect_resources is final: a reference a resource of the
\* graph could not resolve at its turn is not created later in the same
\* pass.  So a "missing connections" skip (or, with
\* --skip-failed-resource-connections, a reference left unmapped) is never a
\* matter of scheduling.
VerdictFinal == \A r \in keys : unresolved[r] \cap dest = {}

\* Unless the operator asked to skip failed connections, every reference of
\* a resource this pass wrote has a counterpart in the destination.
NoDanglingReference ==
  ~SkipFailedConnections => \A r \in written : refs[r] \subseteq dest

\* At most one callback of a serial type, and at most max_concurrent of a
\* capped type, is between its lock and its release.
Holders(t) == {w \in Worker : /\ pc[w] \in {"hook", "request", "report"}
                              /\ TypeOf[item[w]] = t}

CapRespected ==
  /\ \A t \in Serial : Cardinality(Holders(t)) <= 1
  /\ \A t \in Type \ Serial :
       MaxConcurrent[t] > 0 => Cardinality(Holders(t)) <= MaxConcurrent[t]

\* Every dispatched resource is counted exactly once, as a success, a failure
\* or a skip, however its callback ended.
Reporting == {w \in Worker : pc[w] = "report" /\ verdict[w] # "success"}

CountersBalance ==
  success + failure + skipped
    = Cardinality(dispatched \cap finished) + Cardinality(Reporting)

\* The workers are told to stop only when every node of the graph is
\* finished, as long as no thread switch falls inside a sorter call.
ShutdownWhenDrained == shutdown /\ ~GilYields => Nodes \subseteq finished

\* The state is dumped after every node is finished, with nothing queued and
\* every lock and semaphore slot returned.
SettledWhenDumped ==
  phase = "dumped" =>
    /\ Nodes \subseteq finished
    /\ queue = {}
    /\ \A t \in Type :
         permits[t] = IF t \in Serial THEN 1 ELSE MaxConcurrent[t]

\* Every pass without such a switch ends: it dumps its state, or it stopped at a
\* cyclic graph.
Termination == ~GilYields => <>(phase \in {"dumped", "aborted"})
-----------------------------------------------------------------------------
\* A pass seen from outside: what is in a worker is being applied, what the
\* sorter has finished is settled.
InFlight == {item[w] : w \in Worker} \ {NoResource}

Ordered == INSTANCE OrderedApply WITH
  planned  <- phase \in {"apply", "dumped", "aborted"},
  nodes    <- Nodes,
  applying <- InFlight,
  settled  <- finished,
  closed   <- phase = "dumped"

\* A pass, with its feeder, its workers and its cancel worker interleaved in
\* any way, is an ordered apply: each resource once, after its dependencies,
\* and the state is dumped only when all is settled.
ImplementsOrderedApply == Ordered!Spec
=============================================================================
