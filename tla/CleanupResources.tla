-------------------------- MODULE CleanupResources --------------------------
(***************************************************************************)
(* The cleanup of ResourcesHandler.apply_resources (--cleanup): destination*)
(* resources of the in-scope types that have no source counterpart are     *)
(* deleted, dependents before what they depend on.  The reversed           *)
(* dependency graph goes through a topological sorter, which a feeder      *)
(* (run_cleanup_sorter), the workers (_cleanup_worker) and the cancel      *)
(* worker's thread share; when building that graph fails, the resources    *)
(* are deleted in no order, without a sorter.                              *)
(*                                                                         *)
(* Both states are keyed by source ids, but a destination resource refers  *)
(* to others by destination ids.  ReadsAs says which key, if any, the      *)
(* destination id of a resource is taken for: its own when the two orgs    *)
(* share the id (an index or metric name), none when they do not.          *)
(***************************************************************************)
EXTENDS TopologicalSort, Naturals, FiniteSets

CONSTANTS
  Resource,        \* keys of the destination state, the types in scope
  Type, TypeOf,    \* their types
  Serial,          \* types with resource_config.concurrent = False
  Worker,          \* worker coroutines
  ReferenceGraphs, \* the references the destination resources may hold
  ReadsAs,         \* the key a destination id is taken for
  NoResource       \* no key; the item of an idle worker

ASSUME CleanupAssumption ==
  /\ TypeOf \in [Resource -> Type]
  /\ Serial \subseteq Type
  /\ ReferenceGraphs \subseteq [Resource -> SUBSET Resource]
  /\ ReadsAs \in [Resource -> Resource \cup {NoResource}]
  /\ NoResource \notin Resource

VARIABLES
  gilYields, \* a thread switch may fall inside a sorter call
  refs,      \* what each destination resource refers to
  dest,      \* keys of state.destination
  org,       \* resources that exist in the destination org
  phase,     \* "plan", "run", "done" or "aborted"
  mode,      \* "none", "ordered" or "unordered" (the fallback)
  targets,   \* cleanup_resources, once confirmed
  deps,      \* the cleanup graph: the dependents of each resource
  taken, counted, finished,   \* the sorter, see TopologicalSort
  sorterPc, cancelPc, shutdown, queue, pc, item,   \* as in ApplyResources
  free,      \* 1 while a type's async_lock is free
  outcome    \* the outcome emitted for each resource

staticVars == <<gilYields, refs, mode, targets, deps>>
sorterVars == <<taken, counted, finished>>
stateVars  == <<dest, org>>
loopVars   == <<sorterPc, cancelPc, shutdown>>
poolVars   == <<queue, pc, item, free, outcome>>
vars == <<staticVars, sorterVars, stateVars, loopVars, poolVars, phase>>

Ready == ReadyNodes(targets, deps, taken, finished)

-----------------------------------------------------------------------------
\* A destination resource may have been deleted by hand in the org.
Init ==
  /\ gilYields \in BOOLEAN
  /\ refs \in ReferenceGraphs
  /\ dest \in SUBSET Resource
  /\ org \in SUBSET dest
  /\ phase = "plan" /\ mode = "none"
  /\ targets = {}
  /\ deps = [r \in Resource |-> {}]
  /\ taken = {} /\ counted = {} /\ finished = {}
  /\ sorterPc = "poll" /\ cancelPc = "poll" /\ shutdown = FALSE
  /\ queue = {}
  /\ pc = [w \in Worker |-> "idle"]
  /\ item = [w \in Worker |-> NoResource]
  /\ free = [t \in Type |-> 1]
  /\ outcome = [r \in Resource |-> "none"]

\* (X_... is a faulty variant of X that a property below catches.)
Dependents_Forward(r, gone) == {ReadsAs[d] : d \in refs[r]} \cap gone

\* get_cleanup_dependency_graph: the resources that are deleted as well and
\* hold an id that reads as r.
Dependents(r, gone) == {q \in gone : \E d \in refs[q] : ReadsAs[d] = r}

\* get_resources_to_cleanup keeps what source does not have; the user may
\* decline; an unexpected exception switches to the unordered fallback; a
\* cyclic graph raises ValueError out of apply_resources.
PlanCleanup ==
  /\ phase = "plan"
  /\ \E source \in SUBSET Resource, confirmed \in BOOLEAN :
     LET gone  == dest \ source
         graph == [r \in Resource |->
                     IF r \in gone THEN Dependents(r, gone) ELSE {}]
     IN IF gone = {} \/ ~confirmed
        THEN /\ phase' = "done"
             /\ UNCHANGED <<mode, targets, deps, queue, sorterPc>>
        ELSE \/ /\ ~IsCyclic(gone, graph)
                /\ phase' = "run" /\ mode' = "ordered"
                /\ targets' = gone /\ deps' = graph
                /\ UNCHANGED <<queue, sorterPc>>
             \/ /\ IsCyclic(gone, graph)
                /\ phase' = "aborted"
                /\ UNCHANGED <<mode, targets, deps, queue, sorterPc>>
             \/ /\ phase' = "run" /\ mode' = "unordered"
                /\ targets' = gone /\ queue' = gone
                /\ sorterPc' = "returned"
                /\ UNCHANGED deps
  /\ UNCHANGED <<gilYields, refs, sorterVars, stateVars, cancelPc, shutdown, pc,
                 item, free, outcome>>

-----------------------------------------------------------------------------
(* The feeder and the cancel worker.                                       *)

LoopFree == sorterPc # "handout"

GetReady ==
  /\ phase = "run" /\ sorterPc = "poll"
  /\ Ready # {}
  /\ taken' = taken \cup Ready
  /\ sorterPc' = "handout"
  /\ UNCHANGED <<staticVars, counted, finished, stateVars, cancelPc, shutdown,
                 poolVars, phase>>

Batch_Unfinished == taken \ finished
Batch == taken \ counted

\* What the destination state no longer has is done already.
HandOut ==
  /\ phase = "run" /\ sorterPc = "handout"
  /\ queue' = queue \cup (Batch \cap dest)
  /\ finished' = finished \cup (Batch \ dest)
  /\ counted' = taken
  /\ sorterPc' = "poll"
  /\ UNCHANGED <<staticVars, taken, stateVars, cancelPc, shutdown, pc, item,
                 free, outcome, phase>>

SorterReturns ==
  /\ phase = "run" /\ sorterPc = "poll"
  /\ ~IsActive(counted, finished, Ready)
  /\ sorterPc' = "returned"
  /\ UNCHANGED <<staticVars, sorterVars, stateVars, cancelPc, shutdown,
                 poolVars, phase>>

StopWorkers == /\ shutdown' = TRUE
               /\ cancelPc' = "returned"

\* "not cleanup_sorter.is_active()", as in ApplyResources.  The fallback
\* passes no cancel callback: the one in place reports a queue or a sorter
\* that is not used any more, and stops the workers at once.
CancelPoll ==
  /\ phase = "run" /\ cancelPc = "poll"
  /\ gilYields \/ LoopFree
  /\ counted \subseteq finished
  /\ IF gilYields /\ mode = "ordered"
       THEN cancelPc' = "peek" /\ UNCHANGED shutdown
       ELSE (mode = "ordered" => Ready = {}) /\ StopWorkers
  /\ UNCHANGED <<staticVars, sorterVars, stateVars, sorterPc, poolVars, phase>>

CancelPeek ==
  /\ phase = "run" /\ cancelPc = "peek"
  /\ IF Ready = {} THEN StopWorkers
                   ELSE cancelPc' = "poll" /\ UNCHANGED shutdown
  /\ UNCHANGED <<staticVars, sorterVars, stateVars, sorterPc, poolVars, phase>>

-----------------------------------------------------------------------------
(* A worker.                                                               *)

TakeItem(w) ==
  /\ phase = "run" /\ LoopFree
  /\ pc[w] = "idle"
  /\ \E n \in queue :
       /\ queue' = queue \ {n}
       /\ item' = [item EXCEPT ![w] = n]
       /\ pc' = [pc EXCEPT ![w] = IF TypeOf[n] \in Serial THEN "acquire"
                                                         ELSE "delete"]
  /\ UNCHANGED <<staticVars, sorterVars, stateVars, loopVars, free, outcome,
                 phase>>

LockFree(t) == free[t] = 1

Acquire(w) ==
  /\ phase = "run" /\ LoopFree
  /\ pc[w] = "acquire"
  /\ LockFree(TypeOf[item[w]])
  /\ free' = [free EXCEPT ![TypeOf[item[w]]] = 0]
  /\ pc' = [pc EXCEPT ![w] = "delete"]
  /\ UNCHANGED <<staticVars, sorterVars, stateVars, loopVars, queue, item,
                 outcome, phase>>

\* _delete_resource removes the key once the request succeeded or answered
\* 404; a request that fails may have taken effect all the same.
Delete(n) ==
  \/ /\ dest' = dest \ {n} /\ org' = org \ {n}
     /\ outcome' = [outcome EXCEPT ![n] = "success"]
  \/ /\ org' \in {org, org \ {n}} /\ UNCHANGED dest
     /\ outcome' = [outcome EXCEPT ![n] = "failure"]

\* SkipResource is raised before the request.
DeleteReturns(w) ==
  /\ phase = "run" /\ LoopFree
  /\ pc[w] = "delete"
  /\ \/ Delete(item[w])
     \/ /\ outcome' = [outcome EXCEPT ![item[w]] = "skipped"]
        /\ UNCHANGED stateVars
  /\ pc' = [pc EXCEPT ![w] = "report"]
  /\ UNCHANGED <<staticVars, sorterVars, loopVars, queue, item, free, phase>>

MarkDone_OnSuccess(n) ==
  finished' = IF mode = "ordered" /\ outcome[n] = "success"
                THEN finished \cup {n} ELSE finished

\* cleanup_sorter.done, whatever the outcome; the fallback has no sorter.
MarkDone(n) ==
  finished' = IF mode = "ordered" THEN finished \cup {n} ELSE finished

Release(t) == free' = IF t \in Serial THEN [free EXCEPT ![t] = @ + 1] ELSE free

\* The metrics were sent; the finally clause.
FinishItem(w) ==
  /\ phase = "run" /\ LoopFree
  /\ pc[w] = "report"
  /\ MarkDone(item[w])
  /\ Release(TypeOf[item[w]])
  /\ pc' = [pc EXCEPT ![w] = "idle"]
  /\ item' = [item EXCEPT ![w] = NoResource]
  /\ UNCHANGED <<staticVars, taken, counted, stateVars, loopVars, queue,
                 outcome, phase>>

\* A worker that was told to stop drains the queue first.
Drained == queue = {}

WorkerReturns(w) ==
  /\ phase = "run" /\ LoopFree
  /\ pc[w] = "idle"
  /\ shutdown /\ Drained
  /\ pc' = [pc EXCEPT ![w] = "returned"]
  /\ UNCHANGED <<staticVars, sorterVars, stateVars, loopVars, queue, item,
                 free, outcome, phase>>

WorkerStep(w) ==
  \/ TakeItem(w) \/ Acquire(w) \/ DeleteReturns(w)
  \/ FinishItem(w) \/ WorkerReturns(w)

\* gather returns; apply_resources goes on with the sync.
FinishCleanup ==
  /\ phase = "run"
  /\ sorterPc = "returned" /\ cancelPc = "returned"
  /\ \A w \in Worker : pc[w] = "returned"
  /\ phase' = "done"
  /\ UNCHANGED <<staticVars, sorterVars, stateVars, loopVars, poolVars>>

Terminated == phase \in {"done", "aborted"} /\ UNCHANGED vars

Next ==
  \/ PlanCleanup
  \/ GetReady
  \/ HandOut
  \/ SorterReturns
  \/ CancelPoll
  \/ CancelPeek
  \/ \E w \in Worker : WorkerStep(w)
  \/ FinishCleanup
  \/ Terminated

\* The scheduling of ApplyResources, and a user who answers the prompt.
Fairness ==
  /\ WF_vars(PlanCleanup)
  /\ WF_vars(GetReady \/ HandOut \/ SorterReturns)
  /\ WF_vars(CancelPoll \/ CancelPeek)
  /\ \A w \in Worker : WF_vars(WorkerStep(w))
  /\ WF_vars(FinishCleanup)

Spec == Init /\ [][Next]_vars /\ Fairness

-----------------------------------------------------------------------------
(* Properties.                                                             *)

\* Every variable keeps its type.
TypeOK ==
  /\ gilYields \in BOOLEAN /\ shutdown \in BOOLEAN
  /\ {refs, deps} \subseteq [Resource -> SUBSET Resource]
  /\ {dest, org, targets, taken, counted, finished, queue} \subseteq SUBSET Resource
  /\ phase \in {"plan", "run", "done", "aborted"}
  /\ mode \in {"none", "ordered", "unordered"}
  /\ sorterPc \in {"poll", "handout", "returned"}
  /\ cancelPc \in {"poll", "peek", "returned"}
  /\ pc \in [Worker -> {"idle", "acquire", "delete", "report", "returned"}]
  /\ item \in [Worker -> Resource \cup {NoResource}]
  /\ free \in [Type -> Nat]
  /\ outcome \in [Resource -> {"none", "success", "failure", "skipped"}]

\* Resources whose deletion is under way or over.
Begun == {r \in targets : \/ outcome[r] # "none"
                          \/ \E w \in Worker : item[w] = r}

\* In the ordered cleanup no deletion begins before the deletion of every
\* dependent has been tried.
DependentsFirst ==
  mode = "ordered" =>
    \A r \in Begun : \A q \in targets : r \in refs[q] => outcome[q] # "none"

\* The cleanup ends, unless a thread switch falls inside a sorter call.
CleanupEnds == ~gilYields => <>(phase \in {"done", "aborted"})
-----------------------------------------------------------------------------
InFlight == {item[w] : w \in Worker} \ {NoResource}

\* The ordered cleanup is an ordered apply of the reversed graph: what a
\* deletion settles is the absence of the resource.  The fallback stays
\* outside the plan.
Ordered == INSTANCE OrderedApply WITH
  planned  <- mode = "ordered",
  nodes    <- targets,
  applying <- IF mode = "unordered" THEN {} ELSE InFlight,
  settled  <- finished,
  dest     <- Resource \ dest,
  closed   <- phase = "done" /\ mode = "ordered"

\* The ordered cleanup begins each deletion once, after its dependents, and
\* closes only when all are settled, whatever the interleaving of its pool.
ImplementsOrderedApply == Ordered!Spec
=============================================================================
