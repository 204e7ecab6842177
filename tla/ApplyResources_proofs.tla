------------------------ MODULE ApplyResources_proofs ------------------------
(***************************************************************************)
(* Proofs about ApplyResources, for any resources, reference graphs,       *)
(* number of workers, types, limits and options.                           *)
(***************************************************************************)
EXTENDS ApplyResources, FiniteSetTheorems, TLAPS

-----------------------------------------------------------------------------
(* The inductive invariant, in named parts.                                *)

\* A worker has an item exactly while its callback runs.
WorkerItem ==
  \A w \in Worker : item[w] = NoResource <=> pc[w] \in {"idle", "returned"}

\* Nothing happens before the sorter is prepared.
Quiet ==
  phase \in {"graph", "prepare"} =>
    /\ taken = {} /\ shutdown = FALSE
    /\ sorterPc = "poll" /\ cancelPc = "poll"
    /\ \A w \in Worker : pc[w] = "idle"
    /\ \A r \in Resource : unresolved[r] = {}

\* The sorter: what it has finished it passed out, and it passes out a node
\* only when the node's predecessors are finished.
SorterInv ==
  /\ finished \subseteq counted /\ counted \subseteq taken
  /\ taken \subseteq Nodes
  /\ sorterPc # "handout" => counted = taken
  /\ \A n \in taken : deps[n] \subseteq finished

\* A node that was passed out is queued, in a worker or finished.
Placement == counted = queue \cup InFlight \cup finished

\* Every reference of a scanned resource is an edge, is in the destination or
\* was filtered out, provided that edges name the state keys.
GraphInv ==
  /\ filteredOut \subseteq filtered /\ keys \cap filtered = {}
  /\ \A r \in Resource \ keys : deps[r] = {}
  /\ PlainIds =>
       \A r \in keys : refs[r] \subseteq deps[r] \cup dest \cup filteredOut
  /\ phase # "graph" => \A r \in keys : deps[r] \cap filteredOut = {}

\* A resource has a verdict only once it was passed out.
VerdictInv ==
  \A r \in Resource : /\ unresolved[r] \subseteq refs[r]
                      /\ unresolved[r] # {} => r \in taken

\* A request is under way only for a resource whose references resolve.
RequestInv ==
  ~SkipFailedConnections =>
    \A w \in Worker : pc[w] = "request" => refs[item[w]] \subseteq dest

\* The sorter runs on an acyclic graph, so a feeder that has seen it inactive
\* has seen every node finished; the state is dumped after all have returned.
DrainInv ==
  /\ phase \in {"apply", "dumped"} => ~IsCyclic(Nodes, deps)
  /\ sorterPc = "returned" => Nodes \subseteq finished
  /\ phase = "dumped" => /\ sorterPc = "returned"
                         /\ \A w \in Worker : pc[w] = "returned"

\* The workers stop after the last node is finished, when no thread switch
\* falls inside a sorter call.
StopInv == ~GilYields => cancelPc # "peek" /\ ShutdownWhenDrained

\* What a type's lock or semaphore starts with.
Limit(t) == IF t \in Serial THEN 1 ELSE MaxConcurrent[t]

\* A slot of a limited type is free or held by one callback.
Slots(t) ==
  /\ IsFiniteSet(Holders(t))
  /\ permits[t] = IF Limited(t) THEN Limit(t) - Cardinality(Holders(t))
                                ELSE Limit(t)

PermitInv ==
  /\ \A t \in Type : Slots(t)
  /\ \A w \in Worker : pc[w] = "acquire" => Limited(TypeOf[item[w]])

-----------------------------------------------------------------------------
(* Types.                                                                  *)

TypeInv == TypeOK /\ WorkerItem

LEMMA NodesAreResources ==
  ASSUME TypeOK
  PROVE  Nodes \subseteq Resource /\ Ready \subseteq Nodes
BY DEF TypeOK, Nodes, NodesOf, Ready, ReadyNodes

\* The options stay.
LEMMA ModeKept ==
  ASSUME [Next]_vars
  PROVE  UNCHANGED <<GilYields, SkipFailedConnections>>
<1>1. UNCHANGED mode
  BY DEF Next, Terminated, vars, staticVars, ScanResource, FinishGraph,
         StartSorting, GetReady, HandOut, SorterReturns, CancelPoll, CancelPeek,
         DumpState, WorkerStep, TakeItem, Acquire, HookReturns, RequestReturns,
         FinishItem, WorkerReturns
<1> QED
  BY <1>1 DEF GilYields, SkipFailedConnections

LEMMA TypeStep == TypeInv /\ [Next]_vars => TypeInv'
<1> SUFFICES ASSUME TypeInv, [Next]_vars PROVE TypeInv'
  OBVIOUS
<1> USE ConstantsAssumption DEF TypeInv, TypeOK, WorkerItem
<1>1. ASSUME NEW r \in Resource, ScanResource(r) PROVE TypeInv'
  BY <1>1 DEF ScanResource, FailedConnections, staticVars, sorterVars,
              poolVars, resultVars
<1>2. CASE FinishGraph
  BY <1>2 DEF FinishGraph, EdgesKept, staticVars, sorterVars, poolVars,
              resultVars
<1>3. CASE StartSorting
  BY <1>3 DEF StartSorting, Reloaded, staticVars, scanVars, sorterVars,
              poolVars, resultVars
<1>4. CASE GetReady
  BY <1>4, NodesAreResources DEF GetReady, staticVars, scanVars, poolVars,
                                 resultVars
<1>5. CASE HandOut
  BY <1>5 DEF HandOut, Batch, staticVars, scanVars, resultVars
<1>6. CASE SorterReturns
  BY <1>6 DEF SorterReturns, staticVars, scanVars, sorterVars, poolVars,
              resultVars
<1>7. CASE CancelPoll \/ CancelPeek
  <2>1. CASE CancelPoll
    BY <2>1 DEF CancelPoll, StopWorkers, staticVars, scanVars, sorterVars,
                poolVars, resultVars
  <2>2. CASE CancelPeek
    BY <2>2 DEF CancelPeek, StopWorkers, staticVars, scanVars, sorterVars,
                poolVars, resultVars
  <2> QED
    BY <1>7, <2>1, <2>2
<1>8. ASSUME NEW w \in Worker, WorkerStep(w) PROVE TypeInv'
  <2>1. CASE TakeItem(w)
    BY <2>1 DEF TakeItem, staticVars, scanVars, sorterVars, resultVars
  <2>2. CASE Acquire(w)
    BY <2>2 DEF Acquire, SlotFree, staticVars, scanVars, sorterVars,
                resultVars
  <2>3. CASE HookReturns(w)
    <3>1. item[w] \in Resource
      BY <2>3 DEF HookReturns
    <3>2. unresolved' \in [Resource -> SUBSET Resource]
      BY <2>3, <3>1 DEF HookReturns, FailedConnections
    <3>3. /\ pc' \in [Worker -> {"idle", "acquire", "hook", "request",
                                 "report", "returned"}]
          /\ verdict' \in [Worker -> {"none", "success", "failure",
                                      "skipped"}]
          /\ {success', failure', skipped'} \subseteq Nat
      BY <2>3 DEF HookReturns, Report
    <3>4. WorkerItem'
      BY <2>3, <3>1 DEF HookReturns, Report
    <3>5. /\ UNCHANGED <<mode, refs, srcFile, destFile, filtered, source, dest>>
          /\ UNCHANGED <<toScan, filteredOut, keys, deps, phase, permits>>
          /\ UNCHANGED <<taken, counted, finished, queue, written, item>>
          /\ UNCHANGED <<dispatched, sorterPc, cancelPc, shutdown>>
      BY <2>3 DEF HookReturns, staticVars, scanVars, sorterVars
    <3> HIDE DEF WorkerItem
    <3> QED
      BY <3>2, <3>3, <3>4, <3>5
  <2>4. CASE RequestReturns(w)
    BY <2>4 DEF RequestReturns, Report, staticVars, scanVars, sorterVars
  <2>5. CASE FinishItem(w)
    <3>1. item[w] \in Resource /\ TypeOf[item[w]] \in Type
      BY <2>5 DEF FinishItem
    <3>2. permits' \in [Type -> Nat]
      BY <2>5, <3>1 DEF FinishItem, Release
    <3>3. {success', failure', skipped'} \subseteq Nat
      BY <2>5 DEF FinishItem
    <3>4. WorkerItem'
      BY <2>5 DEF FinishItem
    <3>5. finished' \subseteq Resource
      BY <2>5, <3>1 DEF FinishItem, MarkDone
    <3>6. /\ pc' \in [Worker -> {"idle", "acquire", "hook", "request",
                                 "report", "returned"}]
          /\ item' \in [Worker -> Resource \cup {NoResource}]
          /\ verdict' \in [Worker -> {"none", "success", "failure",
                                      "skipped"}]
      BY <2>5 DEF FinishItem
    <3>7. /\ UNCHANGED <<mode, refs, srcFile, destFile, filtered, source, dest>>
          /\ UNCHANGED <<toScan, filteredOut, keys, deps, taken, counted>>
          /\ UNCHANGED <<queue, written, dispatched, unresolved, phase>>
          /\ UNCHANGED <<sorterPc, cancelPc, shutdown>>
      BY <2>5 DEF FinishItem, staticVars, scanVars
    <3> HIDE DEF WorkerItem
    <3> QED
      BY <3>2, <3>3, <3>4, <3>5, <3>6, <3>7
  <2>6. CASE WorkerReturns(w)
    BY <2>6 DEF WorkerReturns, staticVars, scanVars, sorterVars, resultVars
  <2> QED
    BY <1>8, <2>1, <2>2, <2>3, <2>4, <2>5, <2>6 DEF WorkerStep
<1>9. CASE DumpState
  BY <1>9 DEF DumpState, staticVars, scanVars, sorterVars, poolVars,
              resultVars
<1>10. CASE UNCHANGED vars
  BY <1>10 DEF vars, staticVars, scanVars, sorterVars, poolVars, resultVars
<1> QED
  BY <1>1, <1>2, <1>3, <1>4, <1>5, <1>6, <1>7, <1>8, <1>9, <1>10
     DEF Next, Terminated

\* Every variable keeps its type, and a worker holds a resource exactly while
\* it runs _apply_resource_cb.
THEOREM TypeCorrect == Spec => []TypeInv
<1>1. Init => TypeInv
  <2> SUFFICES ASSUME Init PROVE TypeInv
    OBVIOUS
  <2>0. {srcFile, destFile} \subseteq SUBSET Resource
    BY DEF Init, Keyed
  <2>1. source \subseteq Resource /\ dest \subseteq Resource
    BY <2>0 DEF Init
  <2>2. refs \in [Resource -> SUBSET Resource]
    BY ConstantsAssumption DEF Init
  <2>3. permits \in [Type -> Nat]
    BY ConstantsAssumption DEF Init
  <2>4. pc = [w \in Worker |-> "idle"] /\ item = [w \in Worker |-> NoResource]
    BY DEF Init
  <2>5. {srcFile, destFile, filtered, toScan} \subseteq SUBSET Resource
    BY <2>0, <2>1 DEF Init
  <2>6. TypeOK
    <3>1. {source, dest, keys, filteredOut, taken, counted, finished, queue,
           written, dispatched} \subseteq SUBSET Resource
      BY <2>1 DEF Init
    <3>2. /\ deps \in [Resource -> SUBSET Resource]
          /\ unresolved \in [Resource -> SUBSET Resource]
          /\ verdict \in [Worker -> {"none", "success", "failure", "skipped"}]
      BY DEF Init
    <3>3. {success, failure, skipped} \subseteq Nat
      BY DEF Init
    <3>4. /\ phase = "graph" /\ sorterPc = "poll" /\ cancelPc = "poll"
          /\ shutdown = FALSE /\ mode \in Modes
      BY DEF Init
    <3> QED
      BY <2>2, <2>3, <2>4, <2>5, <3>1, <3>2, <3>3, <3>4 DEF TypeOK
  <2> QED
    BY <2>4, <2>6 DEF TypeInv, WorkerItem
<1> QED
  BY <1>1, TypeStep, PTL DEF Spec

\* Every variable keeps its type.
THEOREM TypeOKCorrect == Spec => []TypeOK
<1>1. TypeInv => TypeOK
  BY DEF TypeInv
<1> QED
  BY <1>1, TypeCorrect, PTL

-----------------------------------------------------------------------------
(* The sorter, the queue and the workers.                                  *)

\* Before the sorter is prepared nothing is queued, in a worker or passed out.
LEMMA QuietStep == TypeInv /\ Quiet /\ [Next]_vars => Quiet'
<1> SUFFICES ASSUME TypeInv, Quiet, [Next]_vars,
                    phase' \in {"graph", "prepare"}
             PROVE  Quiet'
  BY DEF Quiet
<1>1. ASSUME NEW r \in Resource, ScanResource(r) PROVE Quiet'
  BY <1>1 DEF ScanResource, Quiet, sorterVars, poolVars, resultVars
<1>2. CASE FinishGraph
  BY <1>2 DEF FinishGraph, Quiet, sorterVars, poolVars, resultVars
<1>3. CASE StartSorting
  BY <1>3 DEF StartSorting
<1>4. CASE UNCHANGED vars
  BY <1>4 DEF vars, Quiet, sorterVars, poolVars, resultVars
<1>5. CASE \/ GetReady \/ HandOut \/ SorterReturns \/ CancelPoll
           \/ CancelPeek \/ DumpState
  BY <1>5 DEF GetReady, HandOut, SorterReturns, CancelPoll, CancelPeek,
              DumpState
<1>6. ASSUME NEW w \in Worker, WorkerStep(w) PROVE Quiet'
  BY <1>6 DEF WorkerStep, TakeItem, Acquire, HookReturns, RequestReturns,
              FinishItem, WorkerReturns
<1> QED
  BY <1>1, <1>2, <1>3, <1>4, <1>5, <1>6 DEF Next, Terminated

LEMMA InFlightTaken ==
  ASSUME TypeInv, NEW w \in Worker, NEW n \in Resource,
         item[w] = NoResource, item' = [item EXCEPT ![w] = n]
  PROVE  InFlight' = InFlight \cup {n}
<1> USE ConstantsAssumption DEF TypeInv, TypeOK, InFlight
<1>1. InFlight' \subseteq InFlight \cup {n}
  OBVIOUS
<1>2. n \in InFlight'
  OBVIOUS
<1>3. InFlight \subseteq InFlight'
  <2> SUFFICES ASSUME NEW v \in Worker, item[v] # NoResource
               PROVE  item[v] \in InFlight'
    OBVIOUS
  <2>1. item'[v] = item[v]
    OBVIOUS
  <2> QED
    BY <2>1
<1> QED
  BY <1>1, <1>2, <1>3

LEMMA InFlightFinished ==
  ASSUME TypeInv, SingleFlight, NEW w \in Worker, item[w] \in Resource,
         item' = [item EXCEPT ![w] = NoResource]
  PROVE  InFlight' = InFlight \ {item[w]}
<1> USE ConstantsAssumption DEF TypeInv, TypeOK, InFlight
<1>1. ASSUME NEW v \in Worker, v # w, item[v] # NoResource
      PROVE  item'[v] = item[v] /\ item[v] # item[w]
  BY <1>1 DEF SingleFlight, Busy
<1>2. item'[w] = NoResource
  OBVIOUS
<1>3. InFlight' \subseteq InFlight \ {item[w]}
  BY <1>1, <1>2
<1>4. InFlight \ {item[w]} \subseteq InFlight'
  BY <1>1
<1> QED
  BY <1>3, <1>4

PoolInv == Quiet /\ SorterInv /\ Placement /\ SingleFlight

\* The steps that leave the sorter, the queue and the items alone.
LEMMA PoolFrame ==
  ASSUME TypeInv, PoolInv, Quiet',
         UNCHANGED <<keys, deps, taken, counted, finished, sorterPc>>,
         UNCHANGED <<queue, item>>
  PROVE  PoolInv'
<1>1. Nodes' = Nodes /\ InFlight' = InFlight
  BY DEF Nodes, NodesOf, InFlight
<1> QED
  BY <1>1 DEF PoolInv, SorterInv, Placement, SingleFlight, Busy

\* A worker applies a resource that was passed out once, and nobody else has
\* it.
THEOREM PoolCorrect == Spec => []PoolInv
<1>1. Init => PoolInv
  <2> SUFFICES ASSUME Init PROVE PoolInv
    OBVIOUS
  <2>1. /\ taken = {} /\ counted = {} /\ finished = {} /\ queue = {}
        /\ item = [w \in Worker |-> NoResource]
        /\ pc = [w \in Worker |-> "idle"]
        /\ sorterPc = "poll" /\ cancelPc = "poll" /\ shutdown = FALSE
        /\ unresolved = [r \in Resource |-> {}]
    BY DEF Init
  <2>2. InFlight = {}
    BY <2>1 DEF InFlight
  <2> QED
    BY <2>1, <2>2, ConstantsAssumption
       DEF PoolInv, Quiet, SorterInv, Placement, SingleFlight, Busy
<1>2. TypeInv /\ PoolInv /\ [Next]_vars => PoolInv'
  <2> SUFFICES ASSUME TypeInv, PoolInv, [Next]_vars PROVE PoolInv'
    OBVIOUS
  <2>0. Quiet'
    BY QuietStep DEF PoolInv
  <2>1. ASSUME taken = {}, UNCHANGED <<taken, counted, finished, sorterPc>>,
               UNCHANGED <<queue, item>>
        PROVE  PoolInv'
    <3>1. InFlight' = InFlight
      BY <2>1 DEF InFlight
    <3> QED
      BY <2>0, <2>1, <3>1
         DEF PoolInv, SorterInv, Placement, SingleFlight, Busy
  <2>2. ASSUME NEW r \in Resource, ScanResource(r) PROVE PoolInv'
    BY <2>1, <2>2 DEF ScanResource, PoolInv, Quiet, sorterVars, poolVars
  <2>3. CASE FinishGraph \/ StartSorting
    BY <2>1, <2>3 DEF FinishGraph, StartSorting, PoolInv, Quiet, sorterVars,
                      poolVars
  <2>4. CASE GetReady
    <3>1. Nodes' = Nodes /\ InFlight' = InFlight
      BY <2>4 DEF GetReady, Nodes, NodesOf, InFlight, scanVars, poolVars
    <3>2. Ready \subseteq Nodes /\ \A n \in Ready : deps[n] \subseteq finished
      BY DEF Ready, ReadyNodes
    <3> QED
      BY <2>0, <2>4, <3>1, <3>2
         DEF GetReady, PoolInv, SorterInv, Placement, SingleFlight, Busy,
             scanVars, poolVars
  <2>5. CASE HandOut
    <3> DEFINE bypass == {n \in Batch : Bypassed(n)}
    <3>1. /\ finished' = finished \cup bypass /\ counted' = taken
          /\ queue' = queue \cup (Batch \ bypass) /\ sorterPc' = "poll"
          /\ UNCHANGED <<keys, deps, taken, item>>
      BY <2>5 DEF HandOut, scanVars
    <3>2. Nodes' = Nodes /\ InFlight' = InFlight
      BY <3>1 DEF Nodes, NodesOf, InFlight
    <3>3. bypass \subseteq Batch /\ Batch = taken \ counted
      BY DEF Batch
    <3>4. SorterInv' /\ Placement'
      BY <3>1, <3>2, <3>3 DEF PoolInv, SorterInv, Placement
    <3>5. \A w \in Worker : item[w] \notin Batch
      <4> SUFFICES ASSUME NEW w \in Worker, item[w] \in Batch PROVE FALSE
        OBVIOUS
      <4>1. item[w] # NoResource
        BY <3>3, ConstantsAssumption DEF TypeInv, TypeOK
      <4>2. item[w] \in InFlight
        BY <4>1 DEF InFlight
      <4> QED
        BY <3>3, <4>2 DEF PoolInv, Placement
    <3>6. SingleFlight'
      BY <3>1, <3>3, <3>5
         DEF PoolInv, SingleFlight, Busy, SorterInv, Placement
    <3> QED
      BY <2>0, <3>4, <3>6 DEF PoolInv
  <2>6. CASE SorterReturns
    <3>1. Nodes' = Nodes /\ InFlight' = InFlight
      BY <2>6 DEF SorterReturns, Nodes, NodesOf, InFlight, scanVars, poolVars
    <3> QED
      BY <2>0, <2>6, <3>1
         DEF SorterReturns, PoolInv, SorterInv, Placement, SingleFlight,
             Busy, scanVars, sorterVars, poolVars
  <2>7. CASE CancelPoll \/ CancelPeek \/ DumpState
    BY <2>0, <2>7, PoolFrame DEF CancelPoll, CancelPeek, DumpState, scanVars,
                                 sorterVars, poolVars
  <2>8. ASSUME NEW w \in Worker, WorkerStep(w) PROVE PoolInv'
    <3>1. CASE Acquire(w) \/ HookReturns(w) \/ RequestReturns(w)
               \/ WorkerReturns(w)
      BY <2>0, <3>1, PoolFrame
         DEF Acquire, HookReturns, RequestReturns, WorkerReturns, scanVars,
             sorterVars
    <3>2. CASE TakeItem(w)
      <4>1. PICK n \in queue : /\ queue' = queue \ {n}
                              /\ item' = [item EXCEPT ![w] = n]
        BY <3>2 DEF TakeItem
      <4>2. UNCHANGED <<keys, deps, taken, counted, finished, sorterPc>>
        BY <3>2 DEF TakeItem, scanVars, sorterVars
      <4>3. n \in Resource /\ item[w] = NoResource
        BY <3>2 DEF TakeItem, TypeInv, TypeOK, WorkerItem
      <4>4. InFlight' = InFlight \cup {n}
        BY <4>1, <4>3, InFlightTaken
      <4>7. Nodes' = Nodes
        BY <4>2 DEF Nodes, NodesOf
      <4>5. SingleFlight'
        <5>1. n \notin finished
          BY <4>1 DEF PoolInv, SingleFlight
        <5>2. item' \in [Worker -> Resource \cup {NoResource}]
          BY <4>1, <4>3 DEF TypeInv, TypeOK
        <5>3. \A v \in Worker : v # w => item'[v] = item[v] /\ item[v] # n
          BY <4>1 DEF TypeInv, TypeOK, PoolInv, SingleFlight
        <5>4. item'[w] = n
          BY <4>1 DEF TypeInv, TypeOK
        <5> QED
          BY <4>1, <4>2, <4>3, <5>1, <5>3, <5>4
             DEF PoolInv, SingleFlight, Busy
      <4>6. Placement'
        BY <4>1, <4>2, <4>4 DEF PoolInv, Placement
      <4> QED
        BY <2>0, <4>2, <4>5, <4>6, <4>7 DEF PoolInv, SorterInv
    <3>3. CASE FinishItem(w)
      <4>1. /\ finished' = finished \cup {item[w]}
            /\ item' = [item EXCEPT ![w] = NoResource]
            /\ UNCHANGED <<keys, deps, taken, counted, sorterPc, queue>>
        BY <3>3 DEF FinishItem, MarkDone, scanVars
      <4>2. item[w] \in Resource /\ item[w] \in InFlight
        BY <3>3, ConstantsAssumption
           DEF FinishItem, TypeInv, TypeOK, WorkerItem, InFlight
      <4>3. InFlight' = InFlight \ {item[w]} /\ Nodes' = Nodes
        BY <4>1, <4>2, InFlightFinished DEF PoolInv, Nodes, NodesOf
      <4>4. SorterInv' /\ Placement'
        BY <4>1, <4>2, <4>3 DEF PoolInv, SorterInv, Placement
      <4>5. SingleFlight'
        <5>1. item'[w] = NoResource
          BY <4>1 DEF TypeInv, TypeOK
        <5>2. \A v \in Worker : v # w => item'[v] = item[v]
          BY <4>1 DEF TypeInv, TypeOK
        <5>3. NoResource \notin queue \cup finished'
          BY <4>1, <4>2, ConstantsAssumption DEF TypeInv, TypeOK
        <5>4. item[w] \notin queue
          BY DEF PoolInv, SingleFlight
        <5>5. \A v \in Worker : item'[v] \in Resource =>
                /\ v # w /\ item'[v] = item[v] /\ item[v] # item[w]
          BY <4>2, <5>1, <5>2, ConstantsAssumption
             DEF PoolInv, SingleFlight, Busy
        <5>6. \A v \in Worker : item'[v] \notin queue' \cup finished'
          BY <4>1, <5>1, <5>2, <5>3, <5>5
             DEF PoolInv, SingleFlight, TypeInv, TypeOK
        <5> QED
          BY <4>1, <5>4, <5>5, <5>6 DEF PoolInv, SingleFlight, Busy
      <4> QED
        BY <2>0, <4>4, <4>5 DEF PoolInv
    <3> QED
      BY <2>8, <3>1, <3>2, <3>3 DEF WorkerStep
  <2>9. CASE UNCHANGED vars
    BY <2>0, <2>9, PoolFrame DEF vars, scanVars, sorterVars, poolVars
  <2> QED
    BY <2>2, <2>3, <2>4, <2>5, <2>6, <2>7, <2>8, <2>9 DEF Next, Terminated
<1> QED
  BY <1>1, <1>2, TypeCorrect, PTL DEF Spec

\* A resource is queued, or in one worker, or finished, and never twice.
THEOREM SingleFlightCorrect == Spec => []SingleFlight
BY PoolCorrect, PTL DEF PoolInv

-----------------------------------------------------------------------------
(* The graph covers the references, and verdicts are final.                *)

LEMMA GraphStep == TypeInv /\ GraphInv /\ [Next]_vars => GraphInv'
<1> SUFFICES ASSUME TypeInv, GraphInv, [Next]_vars PROVE GraphInv'
  OBVIOUS
<1>0. ASSUME UNCHANGED <<filtered, filteredOut, keys, deps, refs>>,
             dest \subseteq dest', phase # "graph"
      PROVE  GraphInv'
  BY <1>0 DEF GraphInv
<1>1. ASSUME NEW r \in Resource, ScanResource(r) PROVE GraphInv'
  <2>1. /\ phase = "graph" /\ phase' = phase
        /\ UNCHANGED <<refs, filtered>>
    BY <1>1 DEF ScanResource, staticVars
  <2>2. CASE r \in filtered
    BY <1>1, <2>1, <2>2 DEF ScanResource, GraphInv
  <2>3. CASE r \notin filtered
    <3>1. /\ keys' = keys \cup {r}
          /\ deps' = [deps EXCEPT ![r] = {EdgeTo[d] : d \in FailedConnections(r)}]
          /\ dest \subseteq dest' /\ filteredOut' = filteredOut
      BY <1>1, <2>3 DEF ScanResource
    <3>2. /\ PlainIds => deps'[r] = refs[r] \ dest
          /\ \A q \in Resource \ {r} : deps'[q] = deps[q]
      BY <3>1 DEF PlainIds, TypeInv, TypeOK, FailedConnections
    <3> QED
      BY <2>1, <2>3, <3>1, <3>2 DEF GraphInv
  <2> QED
    BY <2>2, <2>3
<1>2. CASE FinishGraph
  <2>1. /\ \A r \in Resource : deps'[r] = deps[r] \ filteredOut
        /\ UNCHANGED <<refs, filtered, filteredOut, keys, dest>>
    BY <1>2 DEF FinishGraph, EdgesKept, staticVars
  <2>2. keys \subseteq Resource
    BY DEF TypeInv, TypeOK
  <2> QED
    BY <2>1, <2>2 DEF GraphInv
<1>3. CASE StartSorting
  BY <1>0, <1>3 DEF StartSorting, staticVars, scanVars
<1>4. CASE GetReady \/ HandOut \/ SorterReturns
  BY <1>0, <1>4 DEF GetReady, HandOut, SorterReturns, staticVars, scanVars
<1>5. CASE CancelPoll \/ CancelPeek \/ DumpState
  BY <1>0, <1>5 DEF CancelPoll, CancelPeek, DumpState, staticVars, scanVars
<1>6. ASSUME NEW w \in Worker, WorkerStep(w) PROVE GraphInv'
  BY <1>0, <1>6 DEF WorkerStep, TakeItem, Acquire, HookReturns,
     RequestReturns, FinishItem, WorkerReturns, staticVars, scanVars
<1>7. CASE UNCHANGED vars
  BY <1>7 DEF vars, GraphInv, staticVars, scanVars
<1> QED
  BY <1>1, <1>2, <1>3, <1>4, <1>5, <1>6, <1>7 DEF Next, Terminated

LEMMA FilteredNotNodes ==
  ASSUME GraphInv, phase # "graph"
  PROVE  filteredOut \cap Nodes = {}
BY DEF GraphInv, Nodes, NodesOf

LEMMA ItemPassedOut ==
  ASSUME TypeInv, PoolInv, NEW w \in Worker, item[w] # NoResource
  PROVE  /\ item[w] \in Resource /\ item[w] \in taken
         /\ item[w] \notin finished /\ deps[item[w]] \subseteq finished
<1>1. item[w] \in InFlight
  BY DEF InFlight
<1> QED
  BY <1>1 DEF TypeInv, TypeOK, PoolInv, Placement, SorterInv, SingleFlight

Finality == PlainIds => VerdictFinal

VerdictParts == VerdictInv /\ Finality /\ RequestInv /\ NoDanglingReference

LEMMA VerdictStep ==
  TypeInv /\ PoolInv /\ GraphInv /\ VerdictParts /\ [Next]_vars
    => VerdictParts'
<1> SUFFICES ASSUME TypeInv, PoolInv, GraphInv, VerdictParts, [Next]_vars
             PROVE  VerdictParts'
  OBVIOUS
<1>8. UNCHANGED SkipFailedConnections
  BY ModeKept
<1> USE <1>8 DEF VerdictParts
\* steps that write nothing and find nothing
<1>0. ASSUME UNCHANGED <<refs, keys, unresolved, written>>,
             taken \subseteq taken', dest' = dest,
             \A w \in Worker : pc'[w] = "request" =>
                pc[w] = "request" /\ item'[w] = item[w]
      PROVE  VerdictParts'
  BY <1>0 DEF VerdictInv, Finality, VerdictFinal, RequestInv, NoDanglingReference
\* steps before the sorter is prepared
<1>1. ASSUME phase \in {"graph", "prepare"}, dest \subseteq dest',
             UNCHANGED <<refs, unresolved, written, taken, pc>>
      PROVE  VerdictParts'
  <2>1. /\ \A r \in Resource : unresolved[r] = {}
        /\ \A w \in Worker : pc'[w] # "request"
    BY <1>1 DEF PoolInv, Quiet
  <2>2. keys' \subseteq Resource
    BY TypeStep DEF TypeInv, TypeOK
  <2>3. VerdictInv'
    BY <1>1, <2>1 DEF VerdictInv
  <2>4. Finality'
    BY <1>1, <2>1, <2>2 DEF Finality, VerdictFinal
  <2>5. RequestInv' /\ NoDanglingReference'
    BY <1>1, <2>1 DEF RequestInv, NoDanglingReference
  <2> QED
    BY <2>3, <2>4, <2>5
<1>2. ASSUME NEW r \in Resource, ScanResource(r) PROVE VerdictParts'
  BY <1>1, <1>2 DEF ScanResource, staticVars, sorterVars, poolVars,
                    resultVars
<1>3. CASE FinishGraph \/ StartSorting
  BY <1>1, <1>3 DEF FinishGraph, StartSorting, staticVars, sorterVars,
                    poolVars, resultVars
<1>4. CASE GetReady \/ HandOut \/ SorterReturns
  BY <1>0, <1>4 DEF GetReady, HandOut, SorterReturns, staticVars, scanVars,
                    sorterVars, poolVars, resultVars
<1>5. CASE CancelPoll \/ CancelPeek \/ DumpState
  BY <1>0, <1>5 DEF CancelPoll, CancelPeek, DumpState, staticVars, scanVars,
                    sorterVars, poolVars, resultVars
<1>6. ASSUME NEW w \in Worker, WorkerStep(w) PROVE VerdictParts'
  <2>1. CASE TakeItem(w) \/ Acquire(w) \/ WorkerReturns(w)
    <3>1. \A v \in Worker : pc'[v] = "request" =>
             pc[v] = "request" /\ item'[v] = item[v]
      BY <2>1 DEF TakeItem, Acquire, WorkerReturns, TypeInv, TypeOK
    <3> QED
      BY <1>0, <2>1, <3>1
         DEF TakeItem, Acquire, WorkerReturns, staticVars, scanVars,
             sorterVars, resultVars
  <2>2. CASE FinishItem(w)
    <3>1. \A v \in Worker : pc'[v] = "request" =>
             pc[v] = "request" /\ item'[v] = item[v]
      BY <2>2 DEF FinishItem, TypeInv, TypeOK
    <3> QED
      BY <1>0, <2>2, <3>1 DEF FinishItem, staticVars, scanVars
  <2>3. CASE HookReturns(w)
    <3> DEFINE n == item[w]
               miss == refs[n] \ dest
    <3>1. n \in Resource /\ n \in taken
      BY <2>3, ItemPassedOut, ConstantsAssumption
         DEF HookReturns, TypeInv, TypeOK, WorkerItem
    <3>2. /\ UNCHANGED <<refs, keys, dest, taken, item, written>>
          /\ \/ unresolved' = unresolved
             \/ unresolved' = [unresolved EXCEPT ![n] = miss]
      BY <2>3 DEF HookReturns, FailedConnections, staticVars, scanVars,
                  sorterVars
    <3>3. \A r \in Resource :
             (unresolved'[r] = unresolved[r]) \/ (r = n /\ unresolved'[r] = miss)
      BY <3>1, <3>2 DEF TypeInv, TypeOK
    <3>4. VerdictInv'
      BY <3>1, <3>2, <3>3 DEF VerdictInv
    <3>5. Finality'
      BY <3>2, <3>3 DEF Finality, VerdictFinal, TypeInv, TypeOK
    <3>6. \A v \in Worker : pc'[v] = "request" =>
             \/ pc[v] = "request"
             \/ v = w /\ (miss = {} \/ SkipFailedConnections)
      BY <2>3 DEF HookReturns, Report, FailedConnections, TypeInv, TypeOK
    <3>7. RequestInv' /\ NoDanglingReference'
      BY <3>2, <3>6 DEF RequestInv, NoDanglingReference
    <3> QED
      BY <3>4, <3>5, <3>7
  <2>4. CASE RequestReturns(w)
    <3> DEFINE x == item[w]
    <3>1. x \in Resource /\ x \in taken /\ x \notin finished
      BY <2>4, ItemPassedOut, ConstantsAssumption
         DEF RequestReturns, TypeInv, TypeOK, WorkerItem
    <3>2. /\ UNCHANGED <<refs, keys, taken, item, unresolved>>
          /\ dest' \in {dest, dest \cup {x}}
          /\ written' \in {written, written \cup {x}}
      BY <2>4 DEF RequestReturns, staticVars, scanVars, sorterVars
    <3>3. ASSUME PlainIds, NEW r \in keys, x \in unresolved[r] PROVE FALSE
      <4>1. r \in Resource /\ x \in refs[r] /\ x \notin dest
        BY <3>3 DEF VerdictInv, Finality, VerdictFinal, TypeInv, TypeOK
      <4>2. r \in taken /\ deps[r] \subseteq finished
        BY <3>3, <4>1 DEF VerdictInv, PoolInv, SorterInv
      <4>3. x \in filteredOut
        BY <3>1, <3>3, <4>1, <4>2 DEF GraphInv
      <4>4. phase # "graph" /\ x \in Nodes
        BY <2>4, <3>1 DEF RequestReturns, PoolInv, SorterInv
      <4> QED
        BY <4>3, <4>4, FilteredNotNodes
    <3>4. VerdictInv' /\ Finality'
      BY <3>2, <3>3 DEF VerdictInv, Finality, VerdictFinal, PlainIds
    <3>5. ~SkipFailedConnections => refs[x] \subseteq dest
      BY <2>4 DEF RequestReturns, RequestInv
    <3>6. \A v \in Worker : pc'[v] = "request" => pc[v] = "request"
      BY <2>4 DEF RequestReturns, Report, TypeInv, TypeOK
    <3>7. RequestInv' /\ NoDanglingReference'
      BY <3>2, <3>5, <3>6 DEF RequestInv, NoDanglingReference
    <3> QED
      BY <3>4, <3>7
  <2> QED
    BY <1>6, <2>1, <2>2, <2>3, <2>4 DEF WorkerStep
<1>7. CASE UNCHANGED vars
  BY <1>0, <1>7 DEF vars, staticVars, scanVars, sorterVars, poolVars,
                    resultVars
<1> QED
  BY <1>2, <1>3, <1>4, <1>5, <1>6, <1>7 DEF Next, Terminated

\* The graph keeps every reference that may still matter, and what a resource
\* misses at its turn it misses for good.
THEOREM VerdictsCorrect == Spec => [](GraphInv /\ VerdictParts)
<1>1. Init => GraphInv /\ VerdictParts
  <2> SUFFICES ASSUME Init PROVE GraphInv /\ VerdictParts
    OBVIOUS
  <2>1. /\ keys = {} /\ filteredOut = {} /\ written = {} /\ phase = "graph"
        /\ deps = [r \in Resource |-> {}]
        /\ unresolved = [r \in Resource |-> {}]
        /\ pc = [w \in Worker |-> "idle"]
    BY DEF Init
  <2> QED
    BY <2>1 DEF GraphInv, VerdictParts, VerdictInv, Finality, VerdictFinal, RequestInv,
                NoDanglingReference
<1>2. /\ TypeInv /\ PoolInv /\ GraphInv /\ VerdictParts /\ [Next]_vars
      => (GraphInv /\ VerdictParts)'
  BY GraphStep, VerdictStep
<1> QED
  BY <1>1, <1>2, TypeCorrect, PoolCorrect, PTL DEF Spec

\* A reference a resource of the graph could not resolve is not created later
\* in the pass, provided that the edges of the graph name the state keys.
THEOREM VerdictFinalCorrect ==
  ASSUME PlainIds
  PROVE  Spec => []VerdictFinal
<1>1. VerdictParts => VerdictFinal
  BY DEF VerdictParts, Finality
<1> QED
  BY <1>1, VerdictsCorrect, PTL

\* Without --skip-failed-resource-connections the pass writes no resource
\* with a reference that has no counterpart in the destination.
THEOREM NoDanglingReferenceCorrect == Spec => []NoDanglingReference
BY VerdictsCorrect, PTL DEF VerdictParts

-----------------------------------------------------------------------------
(* The pass drains the graph before it ends.                               *)

\* An inactive sorter over an acyclic graph has finished every node: a node
\* it never passed out would be on a cycle of such nodes.
LEMMA InactiveIsDrained ==
  ASSUME TypeInv, SorterInv, GraphInv, ~IsCyclic(Nodes, deps),
         counted = taken, counted \subseteq finished, Ready = {}
  PROVE  Nodes \subseteq finished
<1> DEFINE S == Nodes \ taken
<1>1. \A n \in S : deps[n] \cap S # {}
  <2> SUFFICES ASSUME NEW n \in S PROVE deps[n] \cap S # {}
    OBVIOUS
  <2>1. ~(deps[n] \subseteq finished)
    BY DEF Ready, ReadyNodes
  <2>2. PICK d \in deps[n] : d \notin finished
    BY <2>1
  <2>3. n \in keys
    BY <2>2, NodesAreResources DEF GraphInv, TypeInv
  <2>4. d \in Nodes
    BY <2>2, <2>3 DEF Nodes, NodesOf
  <2> QED
    BY <2>2, <2>4
<1>2. S = {}
  BY <1>1 DEF IsCyclic
<1> QED
  BY <1>2

LEMMA DrainStep ==
  TypeInv /\ PoolInv /\ GraphInv /\ DrainInv /\ StopInv /\ [Next]_vars
    => (DrainInv /\ StopInv)'
<1> SUFFICES ASSUME TypeInv, PoolInv, GraphInv, DrainInv, StopInv, [Next]_vars
             PROVE  (DrainInv /\ StopInv)'
  OBVIOUS
<1>12. UNCHANGED GilYields
  BY ModeKept
<1> USE <1>12
\* steps that leave the graph and the loops of the feeder and the workers
<1>0. ASSUME UNCHANGED <<keys, deps, sorterPc, cancelPc, shutdown, phase>>,
             finished \subseteq finished', phase # "dumped"
      PROVE  (DrainInv /\ StopInv)'
  <2>1. Nodes' = Nodes
    BY <1>0 DEF Nodes, NodesOf
  <2> QED
    BY <1>0, <2>1 DEF DrainInv, StopInv, ShutdownWhenDrained
\* steps before the sorter is prepared
<1>1. ASSUME phase \in {"graph", "prepare"},
             UNCHANGED <<sorterPc, cancelPc, shutdown>>, phase' # "dumped",
             phase' = "apply" => ~IsCyclic(Nodes, deps)'
      PROVE  (DrainInv /\ StopInv)'
  BY <1>1 DEF PoolInv, Quiet, DrainInv, StopInv, ShutdownWhenDrained
<1>2. ASSUME NEW r \in Resource, ScanResource(r) PROVE (DrainInv /\ StopInv)'
  BY <1>1, <1>2 DEF ScanResource
<1>3. CASE FinishGraph
  BY <1>1, <1>3 DEF FinishGraph
<1>4. CASE StartSorting
  <2>1. Nodes' = Nodes /\ deps' = deps
    BY <1>4 DEF StartSorting, Nodes, NodesOf, scanVars
  <2>2. phase' = "apply" => ~IsCyclic(Nodes, deps)'
    BY <1>4, <2>1 DEF StartSorting, IsCyclic
  <2> QED
    BY <1>1, <1>4, <2>2 DEF StartSorting
<1>5. CASE GetReady \/ HandOut
  <2>1. Nodes' = Nodes /\ finished \subseteq finished'
    BY <1>5 DEF GetReady, HandOut, Nodes, NodesOf, scanVars
  <2> QED
    BY <1>5, <2>1 DEF GetReady, HandOut, DrainInv, StopInv,
                      ShutdownWhenDrained, scanVars
<1>6. CASE SorterReturns
  <2>1. Nodes' = Nodes
    BY <1>6 DEF SorterReturns, Nodes, NodesOf, scanVars
  <2>2. Nodes \subseteq finished
    <3>1. counted = taken
      BY <1>6 DEF SorterReturns, PoolInv, SorterInv
    <3>2. counted \subseteq finished /\ Ready = {}
      BY <1>6 DEF SorterReturns, IsActive
    <3>3. ~IsCyclic(Nodes, deps)
      BY <1>6 DEF SorterReturns, DrainInv
    <3> QED
      BY <3>1, <3>2, <3>3, InactiveIsDrained DEF PoolInv
  <2> QED
    BY <1>6, <2>1, <2>2 DEF SorterReturns, DrainInv, StopInv,
                            ShutdownWhenDrained, scanVars, sorterVars
<1>7. CASE CancelPoll
  <2>1. Nodes' = Nodes
    BY <1>7 DEF CancelPoll, Nodes, NodesOf, scanVars
  <2>2. DrainInv'
    BY <1>7, <2>1 DEF CancelPoll, DrainInv, scanVars, sorterVars, poolVars
  <2>3. StopInv'
    <3> SUFFICES ASSUME ~GilYields PROVE StopInv'
      BY DEF StopInv
    <3>1. counted = taken /\ ~IsCyclic(Nodes, deps)
      BY <1>7 DEF CancelPoll, LoopFree, PoolInv, SorterInv, DrainInv
    <3>2. counted \subseteq finished /\ Ready = {}
      BY <1>7 DEF CancelPoll, NoneReady
    <3>3. Nodes \subseteq finished
      BY <3>1, <3>2, InactiveIsDrained DEF PoolInv
    <3> QED
      BY <1>7, <2>1, <3>3 DEF CancelPoll, StopWorkers, StopInv,
                              ShutdownWhenDrained, sorterVars
  <2> QED
    BY <2>2, <2>3
<1>8. CASE CancelPeek
  <2>1. Nodes' = Nodes
    BY <1>8 DEF CancelPeek, Nodes, NodesOf, scanVars
  <2> QED
    BY <1>8, <2>1 DEF CancelPeek, DrainInv, StopInv, scanVars, sorterVars,
                      poolVars
<1>9. ASSUME NEW w \in Worker, WorkerStep(w) PROVE (DrainInv /\ StopInv)'
  BY <1>0, <1>9 DEF WorkerStep, TakeItem, Acquire, HookReturns,
                    RequestReturns, FinishItem, MarkDone, WorkerReturns,
                    scanVars, sorterVars
<1>10. CASE DumpState
  <2>1. Nodes' = Nodes
    BY <1>10 DEF DumpState, Nodes, NodesOf, scanVars
  <2> QED
    BY <1>10, <2>1 DEF DumpState, DrainInv, StopInv, ShutdownWhenDrained,
                       scanVars, sorterVars, poolVars
<1>11. CASE UNCHANGED vars
  <2>1. Nodes' = Nodes
    BY <1>11 DEF vars, Nodes, NodesOf, scanVars
  <2> QED
    BY <1>11, <2>1 DEF vars, DrainInv, StopInv, ShutdownWhenDrained, scanVars,
                       sorterVars, poolVars
<1> QED
  BY <1>2, <1>3, <1>4, <1>5, <1>6, <1>7, <1>8, <1>9, <1>10, <1>11
     DEF Next, Terminated

\* The feeder and the dump come after the last node, and so does the end of the
\* workers where no thread switch falls inside the sorter.
THEOREM DrainCorrect == Spec => [](DrainInv /\ StopInv)
<1>1. Init => DrainInv /\ StopInv
  BY DEF Init, DrainInv, StopInv, ShutdownWhenDrained
<1>2. /\ TypeInv /\ PoolInv /\ GraphInv /\ DrainInv /\ StopInv
      /\ [Next]_vars
      => (DrainInv /\ StopInv)'
  BY DrainStep
<1> QED
  BY <1>1, <1>2, TypeCorrect, PoolCorrect, VerdictsCorrect, PTL DEF Spec

\* The workers are told to stop only when every node of the graph is finished,
\* provided that no thread switch falls inside a call of the sorter.
THEOREM ShutdownWhenDrainedCorrect == Spec => []ShutdownWhenDrained
<1>1. StopInv => ShutdownWhenDrained
  BY DEF StopInv, ShutdownWhenDrained
<1> QED
  BY <1>1, DrainCorrect, PTL
-----------------------------------------------------------------------------
(* Locks and semaphores.                                                   *)

Holding == {"hook", "request", "report"}

\* The set of callbacks past their lock changes by at most the stepping
\* worker.
LEMMA HoldersFrame ==
  ASSUME NEW w \in Worker, NEW t \in Type,
         \A v \in Worker \ {w} : pc'[v] = pc[v] /\ item'[v] = item[v]
  PROVE  Holders(t)' = IF pc'[w] \in Holding /\ TypeOf[item'[w]] = t
                         THEN Holders(t) \cup {w} ELSE Holders(t) \ {w}
BY DEF Holders, Holding

LEMMA SlotsKept ==
  ASSUME NEW t \in Type, Slots(t), Holders(t)' = Holders(t),
         permits'[t] = permits[t]
  PROVE  Slots(t)'
BY DEF Slots, Limited, Limit

\* Joining and leaving the holders of a type.
LEMMA SlotsTaken ==
  ASSUME NEW t \in Type, NEW w \in Worker, Slots(t), TypeInv,
         w \notin Holders(t), Holders(t)' = Holders(t) \cup {w},
         permits'[t] = IF Limited(t) THEN permits[t] - 1 ELSE permits[t]
  PROVE  Slots(t)'
<1>1. IsFiniteSet(Holders(t))
  BY DEF Slots
<1>2. /\ IsFiniteSet(Holders(t) \cup {w})
      /\ Cardinality(Holders(t) \cup {w}) = Cardinality(Holders(t)) + 1
  BY <1>1, FS_AddElement
<1>3. Cardinality(Holders(t)) \in Nat
  BY <1>1, FS_CardinalityType
<1>4. Limit(t) \in Nat
  BY ConstantsAssumption DEF Limit
<1>5. Limited(t)' = Limited(t) /\ Limit(t)' = Limit(t)
  BY DEF Limited, Limit
<1> QED
  BY <1>2, <1>3, <1>4, <1>5 DEF Slots

LEMMA SlotsReturned ==
  ASSUME NEW t \in Type, NEW w \in Worker, Slots(t), TypeInv,
         w \in Holders(t), Holders(t)' = Holders(t) \ {w},
         permits'[t] = IF Limited(t) THEN permits[t] + 1 ELSE permits[t]
  PROVE  Slots(t)'
<1>1. IsFiniteSet(Holders(t))
  BY DEF Slots
<1>2. /\ IsFiniteSet(Holders(t) \ {w})
      /\ Cardinality(Holders(t) \ {w}) = Cardinality(Holders(t)) - 1
  BY <1>1, FS_RemoveElement
<1>3. Cardinality(Holders(t)) \in Nat
  BY <1>1, FS_CardinalityType
<1>4. Limit(t) \in Nat
  BY ConstantsAssumption DEF Limit
<1>5. Limited(t)' = Limited(t) /\ Limit(t)' = Limit(t)
  BY DEF Limited, Limit
<1> QED
  BY <1>2, <1>3, <1>4, <1>5 DEF Slots

LEMMA PermitStep == TypeInv /\ PermitInv /\ [Next]_vars => PermitInv'
<1> SUFFICES ASSUME TypeInv, PermitInv, [Next]_vars PROVE PermitInv'
  OBVIOUS
\* steps that no worker takes
<1>1. ASSUME UNCHANGED <<pc, item, permits>> PROVE PermitInv'
  BY <1>1 DEF PermitInv, Slots, Holders, Limited, Limit
<1>2. CASE \/ \E r \in Resource : ScanResource(r)
           \/ FinishGraph \/ StartSorting
  BY <1>1, <1>2 DEF ScanResource, FinishGraph, StartSorting, poolVars
<1>3. CASE GetReady \/ HandOut \/ SorterReturns
  BY <1>1, <1>3 DEF GetReady, HandOut, SorterReturns, poolVars
<1>4. CASE CancelPoll \/ CancelPeek \/ DumpState \/ UNCHANGED vars
  BY <1>1, <1>4 DEF CancelPoll, CancelPeek, DumpState, vars, poolVars
<1>5. ASSUME NEW w \in Worker, WorkerStep(w) PROVE PermitInv'
  <2>1. \A v \in Worker \ {w} : pc'[v] = pc[v] /\ item'[v] = item[v]
    BY <1>5 DEF WorkerStep, TakeItem, Acquire, HookReturns, RequestReturns,
                FinishItem, WorkerReturns, Report, TypeInv, TypeOK
  <2>2. pc'[w] = "acquire" => Limited(TypeOf[item'[w]])
    BY <1>5 DEF WorkerStep, TakeItem, Acquire, HookReturns, RequestReturns,
                FinishItem, WorkerReturns, Report, TypeInv, TypeOK
  <2>3. (\A v \in Worker : pc[v] = "acquire" => Limited(TypeOf[item[v]]))'
    BY <2>1, <2>2 DEF PermitInv, Limited
  <2>4. ASSUME NEW t \in Type PROVE Slots(t)'
    <3>1. Holders(t)' = IF pc'[w] \in Holding /\ TypeOf[item'[w]] = t
                          THEN Holders(t) \cup {w} ELSE Holders(t) \ {w}
      BY <2>1, HoldersFrame
    <3>2. w \in Holders(t) <=> pc[w] \in Holding /\ TypeOf[item[w]] = t
      BY DEF Holders, Holding
    <3>3. Slots(t)
      BY DEF PermitInv
    <3>4. CASE TakeItem(w)
      <4>1. PICK n \in queue :
               /\ item'[w] = n
               /\ pc'[w] = IF Limited(TypeOf[n]) THEN "acquire" ELSE "hook"
        BY <3>4 DEF TakeItem, TypeInv, TypeOK
      <4>2. pc[w] = "idle" /\ permits' = permits
        BY <3>4 DEF TakeItem
      <4>3. w \notin Holders(t)
        BY <3>2, <4>2 DEF Holding
      <4>4. CASE ~Limited(TypeOf[n]) /\ TypeOf[n] = t
        <5>1. Holders(t)' = Holders(t) \cup {w} /\ ~Limited(t)
          BY <3>1, <4>1, <4>4 DEF Holding
        <5> QED
          BY <3>3, <4>2, <4>3, <5>1, SlotsTaken
      <4>5. CASE Limited(TypeOf[n]) \/ TypeOf[n] # t
        <5>1. Holders(t)' = Holders(t)
          BY <3>1, <4>1, <4>3, <4>5 DEF Holding
        <5> QED
          BY <3>3, <4>2, <5>1, SlotsKept
      <4> QED
        BY <4>4, <4>5
    <3>5. CASE Acquire(w)
      <4>1. /\ pc[w] = "acquire" /\ pc'[w] = "hook" /\ item'[w] = item[w]
            /\ permits' = [permits EXCEPT ![TypeOf[item[w]]] = @ - 1]
        BY <3>5 DEF Acquire, TypeInv, TypeOK
      <4>2. w \notin Holders(t)
        BY <3>2, <4>1 DEF Holding
      <4>3. CASE TypeOf[item[w]] = t
        <5>1. Limited(t) /\ permits'[t] = permits[t] - 1
          BY <4>1, <4>3 DEF PermitInv, TypeInv, TypeOK
        <5>2. Holders(t)' = Holders(t) \cup {w}
          BY <3>1, <4>1, <4>3 DEF Holding
        <5> QED
          BY <3>3, <4>2, <5>1, <5>2, SlotsTaken
      <4>4. CASE TypeOf[item[w]] # t
        <5>1. Holders(t)' = Holders(t) /\ permits'[t] = permits[t]
          BY <3>1, <4>1, <4>2, <4>4 DEF TypeInv, TypeOK
        <5> QED
          BY <3>3, <5>1, SlotsKept
      <4> QED
        BY <4>3, <4>4
    <3>6. CASE HookReturns(w) \/ RequestReturns(w)
      <4>1. /\ pc[w] \in Holding /\ pc'[w] \in Holding
            /\ item' = item /\ permits' = permits
        BY <3>6 DEF HookReturns, RequestReturns, Report, Holding, TypeInv,
                    TypeOK
      <4>2. Holders(t)' = Holders(t)
        BY <3>1, <3>2, <4>1
      <4> QED
        BY <3>3, <4>1, <4>2, SlotsKept
    <3>7. CASE FinishItem(w)
      <4>1. /\ pc[w] = "report" /\ pc'[w] = "idle"
            /\ Release(TypeOf[item[w]])
        BY <3>7 DEF FinishItem, TypeInv, TypeOK
      <4>2. Holders(t)' = Holders(t) \ {w}
        BY <3>1, <4>1 DEF Holding
      <4>3. CASE TypeOf[item[w]] = t
        <5>1. w \in Holders(t)
          BY <3>2, <4>1, <4>3 DEF Holding
        <5>2. permits'[t] = IF Limited(t) THEN permits[t] + 1
                                          ELSE permits[t]
          BY <4>1, <4>3 DEF Release, TypeInv, TypeOK
        <5> QED
          BY <3>3, <4>2, <5>1, <5>2, SlotsReturned
      <4>4. CASE TypeOf[item[w]] # t
        <5>1. Holders(t)' = Holders(t)
          BY <3>2, <4>2, <4>4
        <5>2. permits'[t] = permits[t]
          BY <4>1, <4>4 DEF Release, TypeInv, TypeOK
        <5> QED
          BY <3>3, <5>1, <5>2, SlotsKept
      <4> QED
        BY <4>3, <4>4
    <3>8. CASE WorkerReturns(w)
      <4>1. pc[w] = "idle" /\ pc'[w] = "returned" /\ permits' = permits
        BY <3>8 DEF WorkerReturns, TypeInv, TypeOK
      <4>2. Holders(t)' = Holders(t)
        BY <3>1, <3>2, <4>1 DEF Holding
      <4> QED
        BY <3>3, <4>1, <4>2, SlotsKept
    <3> QED
      BY <1>5, <3>4, <3>5, <3>6, <3>7, <3>8 DEF WorkerStep
  <2> QED
    BY <2>3, <2>4 DEF PermitInv
<1> QED
  BY <1>2, <1>3, <1>4, <1>5 DEF Next, Terminated

\* Every slot of a limited type is free or held by one callback.
THEOREM PermitCorrect == Spec => []PermitInv
<1>1. Init => PermitInv
  <2> SUFFICES ASSUME Init PROVE PermitInv
    OBVIOUS
  <2>1. /\ pc = [w \in Worker |-> "idle"]
        /\ permits = [t \in Type |-> Limit(t)]
    BY DEF Init, Limit
  <2>2. ASSUME NEW t \in Type PROVE Slots(t)
    <3>1. Holders(t) = {}
      BY <2>1 DEF Holders
    <3>2. IsFiniteSet(Holders(t)) /\ Cardinality(Holders(t)) = 0
      BY <3>1, FS_EmptySet
    <3>3. Limit(t) \in Nat
      BY ConstantsAssumption DEF Limit
    <3> QED
      BY <2>1, <3>2, <3>3 DEF Slots
  <2> QED
    BY <2>1, <2>2 DEF PermitInv
<1> QED
  BY <1>1, PermitStep, TypeCorrect, PTL DEF Spec

\* A serial type has one callback past its lock at a time, and a capped type
\* at most max_concurrent of them.
THEOREM CapRespectedCorrect == Spec => []CapRespected
<1>1. TypeInv /\ PermitInv => CapRespected
  <2> SUFFICES ASSUME TypeInv, PermitInv, NEW t \in Type, Limited(t)
               PROVE  Cardinality(Holders(t)) <= Limit(t)
    BY ConstantsAssumption DEF CapRespected, Limited, Limit
  <2>1. /\ IsFiniteSet(Holders(t))
        /\ permits[t] = Limit(t) - Cardinality(Holders(t))
    BY DEF PermitInv, Slots
  <2>2. Cardinality(Holders(t)) \in Nat /\ Limit(t) \in Nat
    BY <2>1, FS_CardinalityType, ConstantsAssumption DEF Limit
  <2>3. permits[t] \in Nat
    BY DEF TypeInv, TypeOK
  <2> QED
    BY <2>1, <2>2, <2>3
<1> QED
  BY <1>1, TypeCorrect, PermitCorrect, PTL

\* When the state is dumped, every node is finished, nothing is queued, and
\* every slot is free again.
THEOREM SettledWhenDumpedCorrect == Spec => []SettledWhenDumped
<1>1. TypeInv /\ PoolInv /\ DrainInv /\ PermitInv => SettledWhenDumped
  <2> SUFFICES ASSUME TypeInv, PoolInv, DrainInv, PermitInv, phase = "dumped"
               PROVE  /\ Nodes \subseteq finished
                      /\ queue = {}
                      /\ \A t \in Type : permits[t] = Limit(t)
    BY DEF SettledWhenDumped, Limit
  <2>1. Nodes \subseteq finished
    BY DEF DrainInv
  <2>2. queue = {}
    BY <2>1 DEF PoolInv, Placement, SorterInv, SingleFlight
  <2>3. ASSUME NEW t \in Type PROVE permits[t] = Limit(t)
    <3>1. Holders(t) = {}
      BY DEF DrainInv, Holders
    <3>2. Cardinality(Holders(t)) = 0
      BY <3>1, FS_EmptySet
    <3>3. Limit(t) \in Nat
      BY ConstantsAssumption DEF Limit
    <3> QED
      BY <3>2, <3>3 DEF PermitInv, Slots
  <2> QED
    BY <2>1, <2>2, <2>3
<1> QED
  BY <1>1, TypeCorrect, PoolCorrect, DrainCorrect, PermitCorrect, PTL
-----------------------------------------------------------------------------
(* The pass implements an ordered apply.                                   *)

\* Steps that change nothing the abstraction shows.
LEMMA Stutter ==
  ASSUME UNCHANGED <<phase, keys, deps, finished, item, dest>>
  PROVE  UNCHANGED Ordered!vars
<1>1. Nodes' = Nodes /\ InFlight' = InFlight
  BY DEF Nodes, NodesOf, InFlight
<1> QED
  BY <1>1 DEF Ordered!vars

LEMMA OrderedInit == Init => Ordered!Init
<1> SUFFICES ASSUME Init PROVE Ordered!Init
  OBVIOUS
<1>1. /\ keys = {} /\ deps = [r \in Resource |-> {}] /\ finished = {}
      /\ item = [w \in Worker |-> NoResource] /\ phase = "graph"
      /\ dest \subseteq Resource
  BY DEF Init, Keyed
<1>2. Nodes = {} /\ InFlight = {}
  BY <1>1 DEF Nodes, NodesOf, InFlight
<1>3. deps \in [Resource -> SUBSET Resource]
  BY <1>1
<1> QED
  BY <1>1, <1>2, <1>3 DEF Ordered!Init

LEMMA OrderedStep ==
  /\ TypeInv /\ TypeInv' /\ PoolInv /\ PoolInv' /\ DrainInv
  /\ [Next]_vars
  => [Ordered!Next]_(Ordered!vars)
<1> SUFFICES ASSUME TypeInv, TypeInv', PoolInv, PoolInv', DrainInv,
                    [Next]_vars
             PROVE  Ordered!Next \/ UNCHANGED Ordered!vars
  OBVIOUS
<1>0. /\ Nodes \subseteq Resource /\ Nodes' \subseteq Resource
      /\ deps' \in [Resource -> SUBSET Resource] /\ dest' \subseteq Resource
  <2>1. TypeOK /\ TypeOK'
    BY DEF TypeInv
  <2> QED
    BY <2>1, NodesAreResources DEF TypeOK, Nodes, NodesOf
\* the plan
<1>1. ASSUME phase \in {"graph", "prepare"}, dest \subseteq dest',
             UNCHANGED <<item, finished>>, phase' # "dumped"
      PROVE  Ordered!Plan
  <2>1. InFlight' = InFlight
    BY <1>1 DEF InFlight
  <2> QED
    BY <1>0, <1>1, <2>1 DEF Ordered!Plan
<1>2. ASSUME NEW r \in Resource, ScanResource(r) PROVE Ordered!Plan
  BY <1>1, <1>2 DEF ScanResource, sorterVars, poolVars
<1>3. CASE FinishGraph \/ StartSorting
  BY <1>1, <1>3 DEF FinishGraph, StartSorting, sorterVars, poolVars,
                    Ordered!Next
\* the feeder and the cancel worker
<1>4. CASE GetReady \/ SorterReturns \/ CancelPoll \/ CancelPeek
  BY <1>4, Stutter DEF GetReady, SorterReturns, CancelPoll, CancelPeek,
                       scanVars, sorterVars, poolVars
<1>5. CASE HandOut
  <2> DEFINE bypass == {n \in Batch : Bypassed(n)}
  <2>1. /\ finished' = finished \cup bypass /\ phase = "apply"
        /\ UNCHANGED <<keys, deps, item, dest, phase>>
    BY <1>5 DEF HandOut, scanVars
  <2>2. Nodes' = Nodes /\ InFlight' = InFlight
    BY <2>1 DEF Nodes, NodesOf, InFlight
  <2>3. ASSUME NEW n \in bypass PROVE Ordered!Startable(n)
    <3>1. n \in taken /\ n \notin counted
      BY DEF Batch
    <3>2. n \in Nodes /\ n \notin finished /\ deps[n] \subseteq finished
      BY <3>1 DEF PoolInv, SorterInv
    <3>3. n \notin InFlight
      BY <3>1 DEF PoolInv, Placement
    <3> QED
      BY <3>2, <3>3 DEF Ordered!Startable
  <2>4. Ordered!PassOver(bypass)
    BY <2>1, <2>2, <2>3 DEF Ordered!PassOver
  <2>5. bypass \subseteq Resource
    BY DEF Batch, TypeInv, TypeOK
  <2> QED
    BY <2>4, <2>5 DEF Ordered!Next
\* the workers
<1>6. ASSUME NEW w \in Worker, WorkerStep(w)
      PROVE  Ordered!Next \/ UNCHANGED Ordered!vars
  <2>1. CASE Acquire(w) \/ HookReturns(w) \/ WorkerReturns(w)
    BY <2>1, Stutter DEF Acquire, HookReturns, WorkerReturns, scanVars,
                         sorterVars
  <2>2. CASE TakeItem(w)
    <3>1. PICK n \in queue : item' = [item EXCEPT ![w] = n]
      BY <2>2 DEF TakeItem
    <3>2. n \in Resource /\ item[w] = NoResource
      BY <2>2 DEF TakeItem, TypeInv, TypeOK, WorkerItem
    <3>3. InFlight' = InFlight \cup {n}
      BY <3>1, <3>2, InFlightTaken
    <3>4. /\ phase = "apply"
          /\ UNCHANGED <<keys, deps, finished, dest, phase>>
      BY <2>2 DEF TakeItem, scanVars, sorterVars
    <3>5. Nodes' = Nodes
      BY <3>4 DEF Nodes, NodesOf
    <3>6. Ordered!Startable(n)
      <4>1. n \in taken /\ n \notin finished
        BY DEF PoolInv, Placement, SorterInv, SingleFlight
      <4>2. n \notin InFlight
        BY DEF PoolInv, SingleFlight, InFlight
      <4> QED
        BY <4>1, <4>2 DEF PoolInv, SorterInv, Ordered!Startable
    <3>7. Ordered!Begin(n)
      BY <3>3, <3>4, <3>5, <3>6 DEF Ordered!Begin
    <3> QED
      BY <3>2, <3>7 DEF Ordered!Next
  <2>3. CASE RequestReturns(w)
    <3>1. item[w] \in Resource /\ item[w] \in InFlight
      BY <2>3, ConstantsAssumption DEF RequestReturns, TypeInv, TypeOK,
                                       WorkerItem, InFlight
    <3>2. /\ UNCHANGED <<keys, deps, finished, item, phase>>
          /\ dest' = dest \/ dest' = dest \cup {item[w]}
      BY <2>3 DEF RequestReturns, scanVars, sorterVars
    <3>3. Nodes' = Nodes /\ InFlight' = InFlight
      BY <3>2 DEF Nodes, NodesOf, InFlight
    <3>4. CASE dest' = dest
      BY <3>2, <3>4, Stutter
    <3>5. CASE dest' = dest \cup {item[w]}
      <4>1. Ordered!Store(item[w])
        BY <3>1, <3>2, <3>3, <3>5 DEF Ordered!Store
      <4> QED
        BY <3>1, <4>1 DEF Ordered!Next
    <3> QED
      BY <3>2, <3>4, <3>5
  <2>4. CASE FinishItem(w)
    <3>1. /\ finished' = finished \cup {item[w]}
          /\ item' = [item EXCEPT ![w] = NoResource]
          /\ UNCHANGED <<keys, deps, dest, phase>>
      BY <2>4 DEF FinishItem, MarkDone, scanVars
    <3>2. item[w] \in Resource /\ item[w] \in InFlight
      BY <2>4, ConstantsAssumption DEF FinishItem, TypeInv, TypeOK,
                                       WorkerItem, InFlight
    <3>3. InFlight' = InFlight \ {item[w]} /\ Nodes' = Nodes
      BY <3>1, <3>2, InFlightFinished DEF PoolInv, Nodes, NodesOf
    <3>4. Ordered!Settle(item[w])
      BY <3>1, <3>2, <3>3 DEF Ordered!Settle
    <3> QED
      BY <3>2, <3>4 DEF Ordered!Next
  <2> QED
    BY <1>6, <2>1, <2>2, <2>3, <2>4 DEF WorkerStep
\* the dump
<1>7. CASE DumpState
  <2>1. /\ phase = "apply" /\ phase' = "dumped" /\ sorterPc = "returned"
        /\ \A w \in Worker : pc[w] = "returned"
        /\ UNCHANGED <<keys, deps, finished, item, dest>>
    BY <1>7 DEF DumpState, scanVars, sorterVars, poolVars
  <2>2. InFlight = {} /\ Nodes \subseteq finished
    BY <2>1 DEF InFlight, DrainInv, TypeInv, WorkerItem
  <2>3. Nodes' = Nodes /\ InFlight' = InFlight
    BY <2>1 DEF Nodes, NodesOf, InFlight
  <2>4. Ordered!Close
    BY <2>1, <2>2, <2>3 DEF Ordered!Close
  <2> QED
    BY <2>4 DEF Ordered!Next
<1>8. CASE UNCHANGED vars
  BY <1>8, Stutter DEF vars, scanVars, sorterVars, poolVars
<1> QED
  BY <1>2, <1>3, <1>4, <1>5, <1>6, <1>7, <1>8
     DEF Next, Terminated, Ordered!Next

\* Every behaviour of the pass, however its feeder, workers and cancel worker
\* interleave, is an ordered apply: each resource at most once, after its
\* dependencies, and the state dumped when all is settled.
THEOREM ApplyIsOrdered == Spec => ImplementsOrderedApply
<1>1. Init => Ordered!Init
  BY OrderedInit
<1>2. /\ TypeInv /\ TypeInv' /\ PoolInv /\ PoolInv' /\ DrainInv
      /\ [Next]_vars
      => [Ordered!Next]_(Ordered!vars)
  BY OrderedStep
<1> QED
  BY <1>1, <1>2, TypeCorrect, PoolCorrect, DrainCorrect, PTL
     DEF Spec, ImplementsOrderedApply, Ordered!Spec
-----------------------------------------------------------------------------
(* The counters.                                                           *)

Settled == dispatched \cap finished

\* Only dispatched nodes are queued or in a worker.
CountInv ==
  /\ dispatched \subseteq counted
  /\ queue \cup InFlight \subseteq dispatched
  /\ IsFiniteSet(Settled) /\ IsFiniteSet(Reporting)
  /\ CountersBalance

LEMMA CountFrame ==
  ASSUME CountInv, counted \subseteq counted',
         UNCHANGED <<dispatched, finished, queue, item, pc, verdict>>,
         UNCHANGED <<success, failure, skipped>>
  PROVE  CountInv'
BY DEF CountInv, InFlight, Settled, Reporting, CountersBalance

LEMMA CountStep ==
  TypeInv /\ PoolInv /\ CountInv /\ [Next]_vars => CountInv'
<1> SUFFICES ASSUME TypeInv, PoolInv, CountInv, [Next]_vars PROVE CountInv'
  OBVIOUS
<1>1. CASE \E r \in Resource : ScanResource(r)
  BY <1>1, CountFrame DEF ScanResource, sorterVars, poolVars, resultVars
<1>2. CASE FinishGraph \/ StartSorting
  BY <1>2, CountFrame DEF FinishGraph, StartSorting, sorterVars, poolVars,
                          resultVars
<1>3. CASE GetReady \/ SorterReturns \/ CancelPoll \/ CancelPeek \/ DumpState
  BY <1>3, CountFrame DEF GetReady, SorterReturns, CancelPoll, CancelPeek,
                          DumpState, sorterVars, poolVars, resultVars
<1>4. CASE HandOut
  <2> DEFINE bypass == {n \in Batch : Bypassed(n)}
  <2>1. /\ finished' = finished \cup bypass /\ counted' = taken
        /\ queue' = queue \cup (Batch \ bypass)
        /\ dispatched' = dispatched \cup (Batch \ bypass)
        /\ UNCHANGED <<item, pc, verdict, success, failure, skipped>>
    BY <1>4 DEF HandOut, resultVars
  <2>2. Batch = taken \ counted /\ bypass \subseteq Batch
    BY DEF Batch
  <2>3. /\ dispatched \subseteq counted /\ finished \subseteq counted
        /\ counted \subseteq taken
    BY DEF CountInv, PoolInv, SorterInv
  <2>4. Settled' = Settled
    BY <2>1, <2>2, <2>3 DEF Settled
  <2>5. InFlight' = InFlight /\ Reporting' = Reporting
    BY <2>1 DEF InFlight, Reporting
  <2>6. CountersBalance'
    BY <2>1, <2>4, <2>5 DEF CountInv, CountersBalance, Settled
  <2>7. dispatched' \subseteq counted'
    BY <2>1, <2>2, <2>3
  <2>8. queue' \cup InFlight' \subseteq dispatched'
    BY <2>1, <2>5 DEF CountInv
  <2> QED
    BY <2>4, <2>5, <2>6, <2>7, <2>8 DEF CountInv
<1>5. ASSUME NEW w \in Worker, WorkerStep(w) PROVE CountInv'
  <2>0. /\ Cardinality(Settled) \in Nat /\ Cardinality(Reporting) \in Nat
        /\ {success, failure, skipped} \subseteq Nat
        /\ success + failure + skipped
             = Cardinality(Settled) + Cardinality(Reporting)
    BY FS_CardinalityType DEF CountInv, CountersBalance, TypeInv, TypeOK,
                              Settled
  <2>1. CASE Acquire(w)
    <3>1. Reporting' = Reporting
      BY <2>1 DEF Acquire, Reporting, TypeInv, TypeOK
    <3> QED
      BY <2>1, <3>1 DEF Acquire, CountInv, InFlight, Settled, CountersBalance,
                        sorterVars, resultVars
  <2>2. CASE WorkerReturns(w)
    <3>1. Reporting' = Reporting
      BY <2>2 DEF WorkerReturns, Reporting, TypeInv, TypeOK
    <3> QED
      BY <2>2, <3>1 DEF WorkerReturns, CountInv, InFlight, Settled,
                        CountersBalance, sorterVars, resultVars
  <2>3. CASE TakeItem(w)
    <3>1. PICK n \in queue : /\ queue' = queue \ {n}
                            /\ item' = [item EXCEPT ![w] = n]
      BY <2>3 DEF TakeItem
    <3>2. n \in Resource /\ item[w] = NoResource
      BY <2>3 DEF TakeItem, TypeInv, TypeOK, WorkerItem
    <3>3. InFlight' = InFlight \cup {n}
      BY <3>1, <3>2, InFlightTaken
    <3>4. Reporting' = Reporting
      BY <2>3 DEF TakeItem, Reporting, TypeInv, TypeOK
    <3> QED
      BY <2>3, <3>1, <3>3, <3>4
         DEF TakeItem, CountInv, Settled, CountersBalance, sorterVars,
             resultVars
  \* the callback reports an outcome
  <2>4. ASSUME NEW outcome \in {"success", "failure", "skipped"},
               Report(w, outcome), pc[w] # "report",
               UNCHANGED <<dispatched, counted, finished, queue, item>>,
               success' = success
        PROVE  CountInv'
    <3>1. InFlight' = InFlight /\ Settled' = Settled
      BY <2>4 DEF InFlight, Settled
    <3>2. w \notin Reporting
      BY <2>4 DEF Reporting
    <3>3. CASE outcome = "success"
      <4>1. Reporting' = Reporting
        BY <2>4, <3>2, <3>3 DEF Report, Reporting, TypeInv, TypeOK
      <4> QED
        BY <2>4, <3>1, <3>3, <4>1
           DEF Report, CountInv, CountersBalance, Settled
    <3>4. CASE outcome # "success"
      <4>1. Reporting' = Reporting \cup {w}
        BY <2>4, <3>2, <3>4 DEF Report, Reporting, TypeInv, TypeOK
      <4>2. /\ IsFiniteSet(Reporting')
            /\ Cardinality(Reporting') = Cardinality(Reporting) + 1
        BY <3>2, <4>1, FS_AddElement DEF CountInv
      <4>3. failure' + skipped' = failure + skipped + 1
        BY <2>0, <2>4, <3>4 DEF Report
      <4>4. {failure', skipped'} \subseteq Nat
        BY <2>0, <2>4 DEF Report
      <4>5. CountersBalance'
        BY <2>0, <2>4, <3>1, <4>2, <4>3, <4>4 DEF CountersBalance, Settled
      <4> QED
        BY <2>4, <3>1, <4>2, <4>5 DEF CountInv
    <3> QED
      BY <3>3, <3>4
  <2>5. CASE HookReturns(w)
    <3>1. /\ pc[w] = "hook" /\ success' = success
          /\ UNCHANGED <<dispatched, counted, finished, queue, item>>
      BY <2>5 DEF HookReturns, sorterVars
    <3>2. CASE \E outcome \in {"skipped", "failure"} : Report(w, outcome)
      BY <2>4, <3>1, <3>2
    <3>3. CASE /\ pc' = [pc EXCEPT ![w] = "request"]
               /\ UNCHANGED <<verdict, failure, skipped>>
      <4>1. Reporting' = Reporting
        BY <3>1, <3>3 DEF Reporting, TypeInv, TypeOK
      <4> QED
        BY <3>1, <3>3, <4>1 DEF CountInv, InFlight, Settled, CountersBalance
    <3> QED
      BY <2>5, <3>2, <3>3 DEF HookReturns
  <2>6. CASE RequestReturns(w)
    <3>1. /\ pc[w] = "request" /\ success' = success
          /\ UNCHANGED <<dispatched, counted, finished, queue, item>>
      BY <2>6 DEF RequestReturns, sorterVars
    <3>2. \E outcome \in {"success", "failure"} : Report(w, outcome)
      BY <2>6 DEF RequestReturns
    <3> QED
      BY <2>4, <3>1, <3>2
  <2>7. CASE FinishItem(w)
    <3> DEFINE n == item[w]
    <3>1. /\ finished' = finished \cup {n}
          /\ item' = [item EXCEPT ![w] = NoResource]
          /\ UNCHANGED <<counted, queue, dispatched, failure, skipped>>
      BY <2>7 DEF FinishItem, MarkDone
    <3>2. n \in Resource /\ n \in InFlight
      BY <2>7, ConstantsAssumption DEF FinishItem, TypeInv, TypeOK,
                                       WorkerItem, InFlight
    <3>3. n \in dispatched /\ n \notin finished
      BY <3>2 DEF CountInv, PoolInv, SingleFlight
    <3>4. InFlight' = InFlight \ {n}
      BY <3>1, <3>2, InFlightFinished DEF PoolInv
    <3>5. Settled' = Settled \cup {n} /\ n \notin Settled
      BY <3>1, <3>3 DEF Settled
    <3>6. /\ IsFiniteSet(Settled')
          /\ Cardinality(Settled') = Cardinality(Settled) + 1
      BY <3>5, FS_AddElement DEF CountInv
    <3>7. CASE verdict[w] = "success"
      <4>1. Reporting' = Reporting /\ success' = success + 1
        BY <2>7, <3>7 DEF FinishItem, Reporting, TypeInv, TypeOK
      <4>2. CountersBalance'
        BY <2>0, <3>1, <3>6, <4>1 DEF CountersBalance, Settled
      <4> QED
        BY <3>1, <3>4, <3>6, <4>1, <4>2 DEF CountInv
    <3>8. CASE verdict[w] # "success"
      <4>1. /\ Reporting' = Reporting \ {w} /\ w \in Reporting
            /\ success' = success
        BY <2>7, <3>8 DEF FinishItem, Reporting, TypeInv, TypeOK
      <4>2. /\ IsFiniteSet(Reporting')
            /\ Cardinality(Reporting') = Cardinality(Reporting) - 1
        BY <4>1, FS_RemoveElement DEF CountInv
      <4>3. CountersBalance'
        BY <2>0, <3>1, <3>6, <4>1, <4>2 DEF CountersBalance, Settled
      <4> QED
        BY <3>1, <3>4, <3>6, <4>2, <4>3 DEF CountInv
    <3> QED
      BY <3>7, <3>8
  <2> QED
    BY <1>5, <2>1, <2>2, <2>3, <2>5, <2>6, <2>7 DEF WorkerStep
<1>6. CASE UNCHANGED vars
  BY <1>6, CountFrame DEF vars, sorterVars, poolVars, resultVars
<1> QED
  BY <1>1, <1>2, <1>3, <1>4, <1>5, <1>6 DEF Next, Terminated

\* Every dispatched resource is counted exactly once, however its callback
\* ends.
THEOREM CountersBalanceCorrect == Spec => []CountersBalance
<1>1. Init => CountInv
  <2> SUFFICES ASSUME Init PROVE CountInv
    OBVIOUS
  <2>1. /\ dispatched = {} /\ finished = {} /\ queue = {}
        /\ item = [w \in Worker |-> NoResource]
        /\ pc = [w \in Worker |-> "idle"]
        /\ success = 0 /\ failure = 0 /\ skipped = 0
    BY DEF Init
  <2>2. Settled = {} /\ Reporting = {} /\ InFlight = {}
    BY <2>1 DEF Settled, Reporting, InFlight
  <2> QED
    BY <2>1, <2>2, FS_EmptySet DEF CountInv, CountersBalance, Settled
<1>2. CountInv => CountersBalance
  BY DEF CountInv
<1> QED
  BY <1>1, <1>2, CountStep, TypeCorrect, PoolCorrect, PTL DEF Spec
=============================================================================
