----------------------- MODULE CleanupResources_proofs -----------------------
(***************************************************************************)
(* Proofs about CleanupResources, for any resources, references, types and *)
(* number of workers, with and without thread switches inside the sorter.  *)
(***************************************************************************)
EXTENDS CleanupResources, TLAPS

-----------------------------------------------------------------------------
(* The inductive invariant, in named parts.                                *)

\* A worker has an item exactly while it deletes.
WorkerItem ==
  \A w \in Worker : item[w] = NoResource <=> pc[w] \in {"idle", "returned"}

TypeInv == TypeOK /\ WorkerItem

\* Nothing happens before the plan; a plan that runs has a mode, and the
\* fallback leaves the sorter alone.
PlanInv ==
  /\ phase = "plan" =>
       /\ mode = "none" /\ targets = {}
       /\ taken = {} /\ counted = {} /\ finished = {}
       /\ queue = {} /\ sorterPc = "poll"
       /\ \A w \in Worker : item[w] = NoResource
       /\ \A r \in Resource : outcome[r] = "none"
  /\ phase = "run" => mode # "none"
  /\ mode = "unordered" =>
       taken = {} /\ counted = {} /\ finished = {} /\ sorterPc = "returned"

\* The graph of an ordered cleanup is that of the dependents among the targets.
GraphInv ==
  mode = "ordered" =>
    /\ \A r \in targets : deps[r] = Dependents(r, targets)
    /\ ~IsCyclic(targets, deps)

\* What the sorter has finished it passed out, and it passes out a resource only
\* when the deletion of its dependents is finished.
SorterInv ==
  /\ finished \subseteq counted /\ counted \subseteq taken
  /\ taken \subseteq targets
  /\ sorterPc # "handout" => counted = taken
  /\ \A n \in taken : deps[n] \subseteq finished

\* A resource that was passed out is queued, in a worker or finished.
Placement == mode # "unordered" => counted = queue \cup InFlight \cup finished

\* A resource is in one place at a time.
SingleFlight ==
  /\ \A w, v \in Worker : item[w] # NoResource /\ item[w] = item[v] => w = v
  /\ \A w \in Worker : item[w] \notin queue \cup finished
  /\ queue \cap finished = {}

PoolInv == PlanInv /\ SorterInv /\ Placement /\ SingleFlight

\* What is gone from the state was deleted in this cleanup, what is finished has
\* an outcome, and what has one was passed out.
OutcomeInv ==
  /\ \A r \in targets \ dest : outcome[r] # "none"
  /\ \A r \in finished : outcome[r] # "none"
  /\ \A w \in Worker : pc[w] = "report" => outcome[item[w]] # "none"
  /\ mode = "ordered" =>
       \A r \in Resource : outcome[r] # "none" => r \in counted

\* A feeder that has seen the sorter inactive has seen every target finished.
DrainInv ==
  /\ mode = "ordered" /\ sorterPc = "returned" => targets \subseteq finished
  /\ mode = "ordered" => phase \in {"run", "done"}

-----------------------------------------------------------------------------
(* Types.                                                                  *)

LEMMA ReadyAreTargets == Ready \subseteq targets \ taken
  BY DEF Ready, ReadyNodes

LEMMA TypeStep == TypeInv /\ [Next]_vars => TypeInv'
<1> SUFFICES ASSUME TypeInv, [Next]_vars PROVE TypeInv'
  OBVIOUS
<1> USE CleanupAssumption DEF TypeInv, TypeOK, WorkerItem
<1>1. CASE PlanCleanup
  <2>1. PICK source \in SUBSET Resource :
          LET gone  == dest \ source
              graph == [r \in Resource |->
                          IF r \in gone THEN Dependents(r, gone) ELSE {}]
          IN  /\ targets' = targets \/ targets' = gone
              /\ deps' = deps \/ deps' = graph
              /\ queue' = queue \/ queue' = gone
    BY <1>1 DEF PlanCleanup
  <2>2. /\ targets' \subseteq Resource /\ queue' \subseteq Resource
        /\ deps' \in [Resource -> SUBSET Resource]
    BY <2>1 DEF Dependents
  <2>3. /\ phase' \in {"plan", "run", "done", "aborted"}
        /\ mode' \in {"none", "ordered", "unordered"}
        /\ sorterPc' \in {"poll", "handout", "returned"}
    BY <1>1 DEF PlanCleanup
  <2> QED
    BY <1>1, <2>2, <2>3 DEF PlanCleanup, sorterVars, stateVars
<1>2. CASE GetReady
  BY <1>2, ReadyAreTargets DEF GetReady, staticVars, stateVars, poolVars
<1>3. CASE HandOut
  BY <1>3 DEF HandOut, Batch, staticVars, stateVars
<1>4. CASE SorterReturns
  BY <1>4 DEF SorterReturns, staticVars, sorterVars, stateVars, poolVars
<1>5. CASE CancelPoll
  BY <1>5 DEF CancelPoll, StopWorkers, staticVars, sorterVars, stateVars,
              poolVars
<1>6. CASE CancelPeek
  BY <1>6 DEF CancelPeek, StopWorkers, staticVars, sorterVars, stateVars,
              poolVars
<1>7. ASSUME NEW w \in Worker, WorkerStep(w) PROVE TypeInv'
  <2>1. CASE TakeItem(w)
    BY <2>1 DEF TakeItem, staticVars, sorterVars, stateVars, loopVars
  <2>2. CASE Acquire(w)
    BY <2>2 DEF Acquire, staticVars, sorterVars, stateVars, loopVars
  <2>3. CASE DeleteReturns(w)
    <3>1. item[w] \in Resource
      BY <2>3 DEF DeleteReturns
    <3>2. /\ dest' \subseteq Resource /\ org' \subseteq Resource
          /\ outcome' \in [Resource -> {"none", "success", "failure", "skipped"}]
      BY <2>3, <3>1 DEF DeleteReturns, Delete, stateVars
    <3> QED
      BY <2>3, <3>2 DEF DeleteReturns, staticVars, sorterVars, loopVars
  <2>4. CASE FinishItem(w)
    <3>1. item[w] \in Resource /\ TypeOf[item[w]] \in Type
      BY <2>4 DEF FinishItem
    <3>2. free' \in [Type -> Nat]
      BY <2>4, <3>1 DEF FinishItem, Release
    <3>3. finished' \subseteq Resource
      BY <2>4, <3>1 DEF FinishItem, MarkDone
    <3> QED
      BY <2>4, <3>2, <3>3 DEF FinishItem, staticVars, stateVars, loopVars
  <2>5. CASE WorkerReturns(w)
    BY <2>5 DEF WorkerReturns, staticVars, sorterVars, stateVars, loopVars
  <2> QED
    BY <1>7, <2>1, <2>2, <2>3, <2>4, <2>5 DEF WorkerStep
<1>8. CASE FinishCleanup
  BY <1>8 DEF FinishCleanup, staticVars, sorterVars, stateVars, loopVars,
              poolVars
<1>9. CASE UNCHANGED vars
  BY <1>9 DEF vars, staticVars, sorterVars, stateVars, loopVars, poolVars
<1> QED
  BY <1>1, <1>2, <1>3, <1>4, <1>5, <1>6, <1>7, <1>8, <1>9
     DEF Next, Terminated

\* Every variable keeps its type, and a worker holds a resource exactly while
\* it deletes it.
THEOREM TypeCorrect == Spec => []TypeInv
<1>1. Init => TypeInv
  <2> SUFFICES ASSUME Init PROVE TypeInv
    OBVIOUS
  <2>1. refs \in [Resource -> SUBSET Resource] /\ deps \in [Resource -> SUBSET Resource]
    BY CleanupAssumption DEF Init
  <2>2. free \in [Type -> Nat] /\ outcome \in [Resource -> {"none"}]
    BY DEF Init
  <2>3. pc = [w \in Worker |-> "idle"] /\ item = [w \in Worker |-> NoResource]
    BY DEF Init
  <2>4. {dest, org, targets, taken, counted, finished, queue} \subseteq SUBSET Resource
    BY DEF Init
  <2>5. WorkerItem
    BY <2>3 DEF WorkerItem
  <2>6. TypeOK
    <3>1. outcome \in [Resource -> {"none", "success", "failure", "skipped"}]
      BY <2>2
    <3> QED
      BY <2>1, <2>2, <2>3, <2>4, <3>1 DEF Init, TypeOK
  <2> QED
    BY <2>5, <2>6 DEF TypeInv
<1> QED
  BY <1>1, TypeStep, PTL DEF Spec

\* Every variable keeps its type.
THEOREM TypeOKCorrect == Spec => []TypeOK
<1>1. TypeInv => TypeOK
  BY DEF TypeInv
<1> QED
  BY <1>1, TypeCorrect, PTL
-----------------------------------------------------------------------------
(* The sorter, the queue and the workers.                                  *)

LEMMA InFlightTaken ==
  ASSUME TypeInv, NEW w \in Worker, NEW n \in Resource,
         item[w] = NoResource, item' = [item EXCEPT ![w] = n]
  PROVE  InFlight' = InFlight \cup {n}
<1> USE CleanupAssumption DEF TypeInv, TypeOK, InFlight
<1>1. item'[w] = n /\ \A v \in Worker \ {w} : item'[v] = item[v]
  OBVIOUS
<1>2. InFlight' \subseteq InFlight \cup {n}
  BY <1>1
<1>3. n \in InFlight' /\ InFlight \subseteq InFlight'
  BY <1>1
<1> QED
  BY <1>2, <1>3

LEMMA InFlightFinished ==
  ASSUME TypeInv, SingleFlight, NEW w \in Worker, item[w] \in Resource,
         item' = [item EXCEPT ![w] = NoResource]
  PROVE  InFlight' = InFlight \ {item[w]}
<1> USE CleanupAssumption DEF TypeInv, TypeOK, InFlight
<1>1. item'[w] = NoResource /\ \A v \in Worker \ {w} : item'[v] = item[v]
  OBVIOUS
<1>2. \A v \in Worker \ {w} : item[v] # NoResource => item[v] # item[w]
  BY DEF SingleFlight
<1> QED
  BY <1>1, <1>2

\* The steps that leave the sorter, the queue and the items alone.
LEMMA PoolFrame ==
  ASSUME PoolInv, PlanInv',
         UNCHANGED <<targets, deps, mode, taken, counted, finished, sorterPc>>,
         UNCHANGED <<queue, item>>
  PROVE  PoolInv'
<1>1. InFlight' = InFlight
  BY DEF InFlight
<1> QED
  BY <1>1 DEF PoolInv, SorterInv, Placement, SingleFlight

\* What runs has a mode, and a sorter that has nothing to do in the fallback.
LEMMA PlanStep == TypeInv /\ PlanInv /\ [Next]_vars => PlanInv'
<1> SUFFICES ASSUME TypeInv, PlanInv, [Next]_vars PROVE PlanInv'
  OBVIOUS
<1>1. CASE PlanCleanup
  BY <1>1 DEF PlanCleanup, PlanInv, sorterVars
<1>2. CASE GetReady \/ HandOut \/ SorterReturns
  BY <1>2 DEF GetReady, HandOut, SorterReturns, PlanInv, staticVars, sorterVars,
              poolVars
<1>3. CASE CancelPoll \/ CancelPeek \/ FinishCleanup
  BY <1>3 DEF CancelPoll, CancelPeek, FinishCleanup, PlanInv, staticVars,
              sorterVars, loopVars, poolVars
<1>4. ASSUME NEW w \in Worker, WorkerStep(w) PROVE PlanInv'
  BY <1>4 DEF WorkerStep, TakeItem, Acquire, DeleteReturns, FinishItem, MarkDone,
              WorkerReturns, PlanInv, staticVars, sorterVars, loopVars
<1>5. CASE UNCHANGED vars
  BY <1>5 DEF vars, PlanInv, staticVars, sorterVars, loopVars, poolVars
<1> QED
  BY <1>1, <1>2, <1>3, <1>4, <1>5 DEF Next, Terminated

LEMMA PoolStep == TypeInv /\ PoolInv /\ [Next]_vars => PoolInv'
<1> SUFFICES ASSUME TypeInv, PoolInv, [Next]_vars PROVE PoolInv'
  OBVIOUS
<1>0. PlanInv'
  BY PlanStep DEF PoolInv
<1>1. CASE PlanCleanup
  <2>1. /\ taken = {} /\ counted = {} /\ finished = {}
        /\ \A w \in Worker : item[w] = NoResource
        /\ sorterPc = "poll" /\ queue = {} /\ mode = "none"
    BY <1>1 DEF PlanCleanup, PoolInv, PlanInv
  <2>2. UNCHANGED <<taken, counted, finished, item>>
    BY <1>1 DEF PlanCleanup, sorterVars
  <2>3. queue' \subseteq Resource
    BY <1>1 DEF PlanCleanup, TypeInv, TypeOK
  <2>4. /\ mode' # "unordered" => queue' = {}
        /\ sorterPc' # "handout"
    BY <1>1, <2>1 DEF PlanCleanup
  <2>5. InFlight' = {}
    BY <2>1, <2>2 DEF InFlight
  <2>6. SorterInv' /\ Placement'
    BY <2>1, <2>2, <2>4, <2>5 DEF SorterInv, Placement
  <2>7. SingleFlight'
    BY <2>1, <2>2, <2>3, CleanupAssumption DEF SingleFlight
  <2> QED
    BY <1>0, <2>6, <2>7 DEF PoolInv
<1>2. CASE GetReady
  <2>1. /\ taken' = taken \cup Ready /\ sorterPc' = "handout"
        /\ UNCHANGED <<targets, deps, mode, counted, finished, queue, item>>
    BY <1>2 DEF GetReady, staticVars, poolVars
  <2>2. InFlight' = InFlight
    BY <2>1 DEF InFlight
  <2>3. \A n \in Ready : n \in targets /\ deps[n] \subseteq finished
    BY DEF Ready, ReadyNodes
  <2> QED
    BY <1>0, <2>1, <2>2, <2>3 DEF PoolInv, SorterInv, Placement, SingleFlight
<1>3. CASE HandOut
  <2>1. /\ queue' = queue \cup (Batch \cap dest)
        /\ finished' = finished \cup (Batch \ dest)
        /\ counted' = taken /\ sorterPc' = "poll"
        /\ UNCHANGED <<targets, deps, mode, taken, item>>
    BY <1>3 DEF HandOut, staticVars
  <2>2. InFlight' = InFlight
    BY <2>1 DEF InFlight
  <2>3. mode # "unordered"
    BY <1>3 DEF HandOut, PoolInv, PlanInv
  <2>4. Batch \cap counted = {} /\ Batch \cup counted = taken
    BY DEF Batch, PoolInv, SorterInv
  <2>5. Batch \cap (queue \cup InFlight \cup finished) = {}
    BY <2>3, <2>4 DEF PoolInv, Placement
  <2>6. SorterInv' /\ Placement'
    BY <2>1, <2>2, <2>3, <2>4 DEF PoolInv, SorterInv, Placement
  <2>7. Batch \subseteq Resource
    BY DEF Batch, TypeInv, TypeOK
  <2>8. SingleFlight'
    BY <2>1, <2>5, <2>7, CleanupAssumption DEF PoolInv, SingleFlight, InFlight
  <2> QED
    BY <1>0, <2>6, <2>8 DEF PoolInv
<1>4. CASE SorterReturns
  <2>1. /\ sorterPc = "poll" /\ sorterPc' = "returned"
        /\ UNCHANGED <<targets, deps, mode, taken, counted, finished, queue, item>>
    BY <1>4 DEF SorterReturns, staticVars, sorterVars, poolVars
  <2>2. InFlight' = InFlight
    BY <2>1 DEF InFlight
  <2> QED
    BY <1>0, <2>1, <2>2 DEF PoolInv, SorterInv, Placement, SingleFlight
<1>5. CASE CancelPoll \/ CancelPeek
  BY <1>0, <1>5, PoolFrame DEF CancelPoll, CancelPeek, staticVars, sorterVars,
                               poolVars
<1>6. ASSUME NEW w \in Worker, TakeItem(w) PROVE PoolInv'
  <2>1. PICK n \in queue : /\ queue' = queue \ {n}
                           /\ item' = [item EXCEPT ![w] = n]
    BY <1>6 DEF TakeItem
  <2>2. UNCHANGED <<targets, deps, mode, taken, counted, finished, sorterPc>>
    BY <1>6 DEF TakeItem, staticVars, sorterVars, loopVars
  <2>3. n \in Resource /\ item[w] = NoResource
    BY <1>6 DEF TakeItem, TypeInv, TypeOK, WorkerItem
  <2>4. InFlight' = InFlight \cup {n}
    BY <2>1, <2>3, InFlightTaken
  <2>5. SorterInv' /\ Placement'
    BY <2>1, <2>2, <2>4 DEF PoolInv, SorterInv, Placement
  <2>6. item'[w] = n /\ \A v \in Worker \ {w} : item'[v] = item[v]
    BY <2>1 DEF TypeInv, TypeOK
  <2>7. SingleFlight'
    BY <2>1, <2>2, <2>6 DEF PoolInv, SingleFlight
  <2> QED
    BY <1>0, <2>5, <2>7 DEF PoolInv
<1>7. ASSUME NEW w \in Worker, FinishItem(w) PROVE PoolInv'
  <2>1. /\ item' = [item EXCEPT ![w] = NoResource]
        /\ finished' = IF mode = "ordered" THEN finished \cup {item[w]} ELSE finished
        /\ UNCHANGED <<targets, deps, mode, taken, counted, queue, sorterPc>>
        /\ phase = "run" /\ pc[w] = "report"
    BY <1>7 DEF FinishItem, MarkDone, staticVars, loopVars
  <2>2. item[w] \in Resource /\ item[w] \in InFlight
    BY <2>1 DEF TypeInv, TypeOK, WorkerItem, InFlight
  <2>3. InFlight' = InFlight \ {item[w]}
    BY <2>1, <2>2, InFlightFinished DEF PoolInv
  <2>4. mode \in {"ordered", "unordered"}
    BY <2>1 DEF PoolInv, PlanInv, TypeInv, TypeOK
  <2>5. SorterInv' /\ Placement'
    BY <2>1, <2>2, <2>3, <2>4 DEF PoolInv, SorterInv, Placement
  <2>6. item'[w] = NoResource /\ \A v \in Worker \ {w} : item'[v] = item[v]
    BY <2>1 DEF TypeInv, TypeOK
  <2>7. queue \cup finished' \subseteq Resource
    BY <2>1, <2>2 DEF TypeInv, TypeOK
  <2>8. SingleFlight'
    <3>1. \A v \in Worker \ {w} : item[v] # item[w] \/ item[v] = NoResource
      BY DEF PoolInv, SingleFlight
    <3>2. \A v \in Worker : item'[v] \notin queue \cup finished'
      BY <2>1, <2>2, <2>6, <2>7, <3>1, CleanupAssumption DEF PoolInv, SingleFlight
    <3>3. queue \cap finished' = {}
      BY <2>1 DEF PoolInv, SingleFlight
    <3> QED
      BY <2>1, <2>6, <3>2, <3>3 DEF PoolInv, SingleFlight
  <2> QED
    BY <1>0, <2>5, <2>8 DEF PoolInv
<1>8. ASSUME NEW w \in Worker, Acquire(w) \/ DeleteReturns(w) \/ WorkerReturns(w)
      PROVE  PoolInv'
  BY <1>0, <1>8, PoolFrame DEF Acquire, DeleteReturns, WorkerReturns, staticVars,
                               sorterVars, loopVars
<1>9. CASE FinishCleanup \/ UNCHANGED vars
  BY <1>0, <1>9, PoolFrame DEF FinishCleanup, vars, staticVars, sorterVars,
                               loopVars, poolVars
<1> QED
  BY <1>1, <1>2, <1>3, <1>4, <1>5, <1>6, <1>7, <1>8, <1>9
     DEF Next, Terminated, WorkerStep

\* A resource is queued, in one worker, or finished, and is passed out once.
THEOREM PoolCorrect == Spec => []PoolInv
<1>1. Init => PoolInv
  BY CleanupAssumption
     DEF Init, PoolInv, PlanInv, SorterInv, Placement, SingleFlight, InFlight
<1> QED
  BY <1>1, PoolStep, TypeCorrect, PTL DEF Spec

-----------------------------------------------------------------------------
(* The plan.                                                               *)

\* After the plan nothing changes what is to be deleted, or in which order.
LEMMA PlanKept ==
  ASSUME [Next]_vars
  PROVE  PlanCleanup \/ UNCHANGED staticVars
BY DEF Next, Terminated, vars, GetReady, HandOut, SorterReturns, CancelPoll,
       CancelPeek, WorkerStep, TakeItem, Acquire, DeleteReturns, FinishItem,
       WorkerReturns, FinishCleanup

LEMMA PlanIsDependents ==
  ASSUME TypeInv, PlanInv, PlanCleanup, mode' = "ordered"
  PROVE  GraphInv' /\ phase' = "run" /\ UNCHANGED <<sorterPc, finished>>
<1>1. PICK source \in SUBSET Resource :
        LET gone  == dest \ source
            graph == [r \in Resource |->
                        IF r \in gone THEN Dependents(r, gone) ELSE {}]
        IN  /\ ~IsCyclic(gone, graph)
            /\ phase' = "run" /\ targets' = gone /\ deps' = graph
            /\ UNCHANGED <<sorterPc, refs, finished, dest>>
  BY DEF PlanCleanup, PlanInv, sorterVars, stateVars
<1>2. ~IsCyclic(targets, deps)'
  BY <1>1 DEF IsCyclic
<1>3. \A r \in targets' \cap Resource :
        deps'[r] = {q \in targets' : \E d \in refs'[q] : ReadsAs[d] = r}
  BY <1>1 DEF Dependents
<1>4. targets' \subseteq Resource
  BY <1>1 DEF TypeInv, TypeOK
<1> QED
  BY <1>1, <1>2, <1>3, <1>4 DEF GraphInv, Dependents

\* An inactive sorter over an acyclic graph has finished every target.
LEMMA InactiveIsDrained ==
  ASSUME GraphInv, SorterInv, mode = "ordered",
         counted = taken, counted \subseteq finished, Ready = {}
  PROVE  targets \subseteq finished
<1> DEFINE S == targets \ taken
<1>1. \A n \in S : deps[n] \cap S # {}
  <2> SUFFICES ASSUME NEW n \in S PROVE deps[n] \cap S # {}
    OBVIOUS
  <2>1. PICK d \in deps[n] : d \notin finished
    BY DEF Ready, ReadyNodes
  <2>2. d \in targets
    BY <2>1 DEF GraphInv, Dependents
  <2> QED
    BY <2>1, <2>2
<1>2. S = {}
  BY <1>1 DEF GraphInv, IsCyclic
<1> QED
  BY <1>2

LEMMA DrainStep ==
  TypeInv /\ PoolInv /\ GraphInv /\ DrainInv /\ [Next]_vars
    => (GraphInv /\ DrainInv)'
<1> SUFFICES ASSUME TypeInv, PoolInv, GraphInv, DrainInv, [Next]_vars
             PROVE  (GraphInv /\ DrainInv)'
  OBVIOUS
<1>1. CASE PlanCleanup
  <2>1. mode' = "ordered" => /\ GraphInv' /\ phase' = "run"
                             /\ sorterPc' = "poll"
    BY <1>1, PlanIsDependents DEF PoolInv, PlanInv, PlanCleanup
  <2> QED
    BY <2>1 DEF GraphInv, DrainInv
<1>2. ASSUME UNCHANGED staticVars, finished \subseteq finished',
             sorterPc' = "returned" /\ mode = "ordered" =>
               sorterPc = "returned" \/ targets \subseteq finished,
             phase' = phase \/ phase' = "done"
      PROVE  (GraphInv /\ DrainInv)'
  <2>1. UNCHANGED <<refs, mode, targets, deps>>
    BY <1>2 DEF staticVars
  <2>2. GraphInv'
    BY <2>1 DEF GraphInv, Dependents, IsCyclic
  <2> QED
    BY <1>2, <2>1, <2>2 DEF DrainInv
<1>3. CASE SorterReturns
  <2>1. mode = "ordered" => targets \subseteq finished
    <3>1. counted = taken /\ counted \subseteq finished /\ Ready = {}
      BY <1>3 DEF SorterReturns, IsActive, PoolInv, SorterInv
    <3> QED
      BY <3>1, InactiveIsDrained DEF PoolInv
  <2> QED
    BY <1>2, <1>3, <2>1 DEF SorterReturns, sorterVars
<1>4. CASE \/ GetReady \/ HandOut \/ CancelPoll \/ CancelPeek \/ FinishCleanup
           \/ UNCHANGED vars
  BY <1>2, <1>4 DEF GetReady, HandOut, CancelPoll, CancelPeek, FinishCleanup, vars,
                    sorterVars, loopVars
<1>5. ASSUME NEW w \in Worker, WorkerStep(w) PROVE (GraphInv /\ DrainInv)'
  BY <1>2, <1>5 DEF WorkerStep, TakeItem, Acquire, DeleteReturns, FinishItem,
                    MarkDone, WorkerReturns, sorterVars, loopVars
<1> QED
  BY <1>1, <1>3, <1>4, <1>5 DEF Next, Terminated

\* The graph of an ordered cleanup is that of the references, and its feeder
\* returns only when every target is finished.
THEOREM DrainCorrect == Spec => [](GraphInv /\ DrainInv)
<1>1. Init => GraphInv /\ DrainInv
  BY DEF Init, GraphInv, DrainInv
<1> QED
  BY <1>1, DrainStep, TypeCorrect, PoolCorrect, PTL DEF Spec

-----------------------------------------------------------------------------
(* The outcomes.                                                           *)

\* Steps that leave the outcomes and the items alone.
LEMMA OutcomeFrame ==
  ASSUME OutcomeInv, UNCHANGED <<mode, targets, dest, finished, outcome>>,
         counted \subseteq counted',
         \A w \in Worker : pc'[w] = "report" => pc[w] = "report" /\ item'[w] = item[w]
  PROVE  OutcomeInv'
BY DEF OutcomeInv

LEMMA OutcomeStep ==
  TypeInv /\ PoolInv /\ OutcomeInv /\ [Next]_vars => OutcomeInv'
<1> SUFFICES ASSUME TypeInv, PoolInv, OutcomeInv, [Next]_vars PROVE OutcomeInv'
  OBVIOUS
<1>1. CASE PlanCleanup
  <2>1. /\ finished = {} /\ \A w \in Worker : item[w] = NoResource
        /\ \A r \in Resource : outcome[r] = "none"
        /\ UNCHANGED <<dest, finished, outcome, pc, item>>
    BY <1>1 DEF PlanCleanup, PoolInv, PlanInv, sorterVars, stateVars
  <2>2. targets = {}
    BY <1>1 DEF PlanCleanup, PoolInv, PlanInv
  <2>3. targets' \subseteq dest
    BY <1>1, <2>2 DEF PlanCleanup, PoolInv, PlanInv
  <2> QED
    BY <2>1, <2>3 DEF OutcomeInv, TypeInv, WorkerItem
<1>2. CASE \/ GetReady \/ SorterReturns \/ CancelPoll \/ CancelPeek
           \/ FinishCleanup \/ UNCHANGED vars
  BY <1>2, OutcomeFrame
     DEF GetReady, SorterReturns, CancelPoll, CancelPeek, FinishCleanup, vars,
         staticVars, sorterVars, stateVars, poolVars
<1>3. CASE HandOut
  <2>1. /\ finished' = finished \cup (Batch \ dest) /\ counted' = taken
        /\ UNCHANGED <<mode, targets, dest, outcome, pc, item>>
    BY <1>3 DEF HandOut, staticVars, stateVars
  <2>2. Batch \subseteq targets /\ counted \subseteq taken
    BY DEF Batch, PoolInv, SorterInv
  <2> QED
    BY <2>1, <2>2 DEF OutcomeInv
<1>4. ASSUME NEW w \in Worker, TakeItem(w) PROVE OutcomeInv'
  <2>1. PICK n \in queue : item' = [item EXCEPT ![w] = n]
    BY <1>4 DEF TakeItem
  <2>2. \A v \in Worker : pc'[v] = "report" => v # w /\ pc[v] = "report"
    BY <1>4 DEF TakeItem, TypeInv, TypeOK
  <2>3. \A v \in Worker \ {w} : item'[v] = item[v]
    BY <2>1 DEF TypeInv, TypeOK
  <2> QED
    BY <1>4, <2>2, <2>3, OutcomeFrame
       DEF TakeItem, staticVars, sorterVars, stateVars
<1>5. ASSUME NEW w \in Worker, Acquire(w) \/ WorkerReturns(w) PROVE OutcomeInv'
  <2>1. \A v \in Worker : pc'[v] = "report" => pc[v] = "report"
    BY <1>5 DEF Acquire, WorkerReturns, TypeInv, TypeOK
  <2> QED
    BY <1>5, <2>1, OutcomeFrame
       DEF Acquire, WorkerReturns, staticVars, sorterVars, stateVars
<1>6. ASSUME NEW w \in Worker, DeleteReturns(w) PROVE OutcomeInv'
  <2>1. /\ item[w] \in Resource /\ item[w] \in InFlight /\ phase = "run"
        /\ UNCHANGED <<mode, targets, finished, counted, item>>
        /\ pc' = [pc EXCEPT ![w] = "report"]
    BY <1>6, CleanupAssumption
       DEF DeleteReturns, TypeInv, TypeOK, WorkerItem, InFlight, staticVars, sorterVars
  <2>2. PICK out \in {"success", "failure", "skipped"} :
          /\ outcome' = [outcome EXCEPT ![item[w]] = out]
          /\ dest' = dest \/ dest' = dest \ {item[w]}
    BY <1>6 DEF DeleteReturns, Delete, stateVars
  <2>3. /\ outcome'[item[w]] # "none"
        /\ \A r \in Resource \ {item[w]} : outcome'[r] = outcome[r]
    BY <2>1, <2>2 DEF TypeInv, TypeOK
  <2>4. targets \subseteq Resource /\ finished \subseteq Resource
    BY DEF TypeInv, TypeOK
  <2>5. \A v \in Worker : pc'[v] = "report" => outcome'[item[v]] # "none"
    <3> SUFFICES ASSUME NEW v \in Worker, v # w, pc[v] = "report"
                 PROVE  outcome'[item[v]] # "none"
      BY <2>1, <2>3 DEF TypeInv, TypeOK
    <3>1. item[v] \in Resource
      BY DEF TypeInv, TypeOK, WorkerItem
    <3> QED
      BY <2>3, <3>1 DEF OutcomeInv
  <2>6. mode = "ordered" => item[w] \in counted
    BY <2>1 DEF PoolInv, Placement
  <2> QED
    BY <2>1, <2>2, <2>3, <2>4, <2>5, <2>6 DEF OutcomeInv
<1>7. ASSUME NEW w \in Worker, FinishItem(w) PROVE OutcomeInv'
  <2>1. /\ finished' = finished \/ finished' = finished \cup {item[w]}
        /\ outcome[item[w]] # "none"
        /\ UNCHANGED <<mode, targets, dest, counted, outcome>>
    BY <1>7 DEF FinishItem, MarkDone, OutcomeInv, staticVars, stateVars
  <2>2. \A v \in Worker : pc'[v] = "report" =>
          pc[v] = "report" /\ item'[v] = item[v]
    BY <1>7 DEF FinishItem, TypeInv, TypeOK
  <2> QED
    BY <2>1, <2>2 DEF OutcomeInv
<1> QED
  BY <1>1, <1>2, <1>3, <1>4, <1>5, <1>6, <1>7 DEF Next, Terminated, WorkerStep

\* What was deleted or finished has an outcome, and only what was passed out has
\* one.
THEOREM OutcomeCorrect == Spec => []OutcomeInv
<1>1. Init => OutcomeInv
  BY DEF Init, OutcomeInv
<1> QED
  BY <1>1, OutcomeStep, TypeCorrect, PoolCorrect, PTL DEF Spec

\* Both organizations use the same ids.
IdsShared == \A r \in Resource : ReadsAs[r] = r

\* In an ordered cleanup no deletion begins before that of every dependent has
\* been tried, provided that destination ids read as the keys they stand for.
THEOREM DependentsFirstCorrect ==
  ASSUME IdsShared
  PROVE  Spec => []DependentsFirst
<1>1. TypeInv /\ PoolInv /\ GraphInv /\ OutcomeInv => DependentsFirst
  <2> SUFFICES ASSUME TypeInv, PoolInv, GraphInv, OutcomeInv, mode = "ordered",
                      NEW r \in Begun, NEW q \in targets, r \in refs[q]
               PROVE  outcome[q] # "none"
    BY DEF DependentsFirst
  <2>1. r \in targets /\ r \in Resource
    BY DEF Begun, TypeInv, TypeOK
  <2>2. r \in counted
    <3>1. CASE outcome[r] # "none"
      BY <2>1, <3>1 DEF OutcomeInv
    <3>2. ASSUME NEW w \in Worker, item[w] = r PROVE r \in counted
      BY <2>1, <3>2, CleanupAssumption DEF InFlight, PoolInv, Placement
    <3> QED
      BY <3>1, <3>2 DEF Begun
  <2>3. q \in deps[r]
    BY <2>1, IdsShared DEF IdsShared, GraphInv, Dependents
  <2>4. q \in finished
    BY <2>2, <2>3 DEF PoolInv, SorterInv
  <2> QED
    BY <2>4 DEF OutcomeInv
<1> QED
  BY <1>1, TypeCorrect, PoolCorrect, DrainCorrect, OutcomeCorrect, PTL

-----------------------------------------------------------------------------
(* The cleanup implements an ordered apply.                                *)

LEMMA OrderedInit == Init => Ordered!Init
<1> SUFFICES ASSUME Init PROVE Ordered!Init
  OBVIOUS
<1>1. /\ mode = "none" /\ phase = "plan" /\ targets = {} /\ finished = {}
      /\ deps = [r \in Resource |-> {}] /\ item = [w \in Worker |-> NoResource]
  BY DEF Init
<1>2. InFlight = {} /\ deps \in [Resource -> SUBSET Resource]
  BY <1>1 DEF InFlight
<1> QED
  BY <1>1, <1>2 DEF Ordered!Init

\* Before the plan, and in the fallback, the abstract plan is only being made.
LEMMA Unplanned ==
  ASSUME TypeInv', mode # "ordered", InFlight' = {} \/ mode' = "unordered",
         InFlight = {} \/ mode = "unordered", UNCHANGED finished,
         dest' \subseteq dest, mode' = "ordered" => phase' # "done"
  PROVE  Ordered!Plan
<1>1. /\ targets' \subseteq Resource /\ deps' \in [Resource -> SUBSET Resource]
      /\ (Resource \ dest) \subseteq (Resource \ dest')
  BY DEF TypeInv, TypeOK
<1>2. /\ (IF mode = "unordered" THEN {} ELSE InFlight) = {}
      /\ (IF mode' = "unordered" THEN {} ELSE InFlight') = {}
  OBVIOUS
<1> QED
  BY <1>1, <1>2 DEF Ordered!Plan

\* Steps of an ordered cleanup that change nothing the abstraction shows.
LEMMA Stutter ==
  ASSUME UNCHANGED <<phase, mode, targets, deps, finished, item, dest>>
  PROVE  UNCHANGED Ordered!vars
<1>1. InFlight' = InFlight
  BY DEF InFlight
<1> QED
  BY <1>1 DEF Ordered!vars

LEMMA OrderedStep ==
  /\ TypeInv /\ TypeInv' /\ PoolInv /\ PoolInv' /\ DrainInv
  /\ [Next]_vars
  => [Ordered!Next]_(Ordered!vars)
<1> SUFFICES ASSUME TypeInv, TypeInv', PoolInv, PoolInv', DrainInv,
                    [Next]_vars
             PROVE  Ordered!Next \/ UNCHANGED Ordered!vars
  OBVIOUS
<1>1. CASE PlanCleanup
  <2>1. /\ mode = "none" /\ InFlight = {}
        /\ UNCHANGED <<finished, item, dest>>
        /\ mode' = "ordered" => phase' # "done"
    BY <1>1 DEF PlanCleanup, PoolInv, PlanInv, InFlight, sorterVars, stateVars
  <2>2. InFlight' = {}
    BY <2>1 DEF InFlight
  <2> QED
    BY <2>1, <2>2, Unplanned DEF Ordered!Next
<1>2. CASE UNCHANGED vars
  BY <1>2, Stutter DEF vars, staticVars, sorterVars, stateVars, poolVars
<1>3. ASSUME ~PlanCleanup, ~UNCHANGED vars
      PROVE  phase = "run" /\ UNCHANGED staticVars /\ mode \in {"ordered", "unordered"}
  <2>1. phase = "run"
    BY <1>3 DEF Next, Terminated, GetReady, HandOut, SorterReturns, CancelPoll,
                CancelPeek, WorkerStep, TakeItem, Acquire, DeleteReturns,
                FinishItem, WorkerReturns, FinishCleanup
  <2> QED
    BY <1>3, <2>1, PlanKept DEF PoolInv, PlanInv, TypeInv, TypeOK
\* the fallback
<1>4. ASSUME ~PlanCleanup, ~UNCHANGED vars, mode = "unordered" PROVE Ordered!Plan
  <2>1. finished = {} /\ finished' = {} /\ mode' = mode
    BY <1>3, <1>4 DEF PoolInv, PlanInv, staticVars
  <2>2. dest' \subseteq dest
    BY <1>4 DEF Next, Terminated, GetReady, HandOut, SorterReturns, CancelPoll,
                CancelPeek, WorkerStep, TakeItem, Acquire, DeleteReturns, Delete,
                FinishItem, WorkerReturns, FinishCleanup, stateVars
  <2> QED
    BY <1>4, <2>1, <2>2, Unplanned
\* the feeder and the cancel worker
<1>5. CASE GetReady \/ SorterReturns \/ CancelPoll \/ CancelPeek
  BY <1>5, Stutter DEF GetReady, SorterReturns, CancelPoll, CancelPeek,
                       staticVars, sorterVars, stateVars, poolVars
<1>6. ASSUME mode = "ordered", HandOut PROVE Ordered!Next
  <2> DEFINE gone == Batch \ dest
  <2>1. /\ finished' = finished \cup gone /\ phase = "run"
        /\ UNCHANGED <<mode, targets, deps, item, dest, phase>>
    BY <1>6 DEF HandOut, staticVars, stateVars
  <2>2. InFlight' = InFlight
    BY <2>1 DEF InFlight
  <2>3. ASSUME NEW n \in gone PROVE Ordered!Startable(n)
    <3>1. n \in taken /\ n \notin counted
      BY DEF Batch
    <3>2. n \in targets /\ n \notin finished /\ deps[n] \subseteq finished
      BY <3>1 DEF PoolInv, SorterInv
    <3>3. n \notin InFlight
      BY <1>6, <3>1 DEF PoolInv, Placement
    <3> QED
      BY <1>6, <3>2, <3>3 DEF Ordered!Startable
  <2>4. Ordered!PassOver(gone)
    BY <1>6, <2>1, <2>2, <2>3 DEF Ordered!PassOver
  <2>5. gone \subseteq Resource
    BY DEF Batch, TypeInv, TypeOK
  <2> QED
    BY <2>4, <2>5 DEF Ordered!Next
\* the workers
<1>7. ASSUME mode = "ordered", NEW w \in Worker, WorkerStep(w)
      PROVE  Ordered!Next \/ UNCHANGED Ordered!vars
  <2>1. CASE Acquire(w) \/ WorkerReturns(w)
    BY <2>1, Stutter DEF Acquire, WorkerReturns, staticVars, sorterVars, stateVars
  <2>2. CASE TakeItem(w)
    <3>1. PICK n \in queue : item' = [item EXCEPT ![w] = n]
      BY <2>2 DEF TakeItem
    <3>2. n \in Resource /\ item[w] = NoResource
      BY <2>2 DEF TakeItem, TypeInv, TypeOK, WorkerItem
    <3>3. InFlight' = InFlight \cup {n}
      BY <3>1, <3>2, InFlightTaken
    <3>4. /\ phase = "run"
          /\ UNCHANGED <<mode, targets, deps, finished, dest, phase>>
      BY <2>2 DEF TakeItem, staticVars, sorterVars, stateVars
    <3>5. n \in taken /\ n \notin finished /\ n \notin InFlight
      BY <1>7 DEF PoolInv, Placement, SorterInv, SingleFlight, InFlight
    <3>6. Ordered!Startable(n)
      BY <1>7, <3>5 DEF PoolInv, SorterInv, Ordered!Startable
    <3>7. Ordered!Begin(n)
      BY <1>7, <3>3, <3>4, <3>6 DEF Ordered!Begin
    <3> QED
      BY <3>2, <3>7 DEF Ordered!Next
  <2>3. CASE DeleteReturns(w)
    <3>1. item[w] \in Resource /\ item[w] \in InFlight
      BY <2>3, CleanupAssumption DEF DeleteReturns, TypeInv, TypeOK, WorkerItem,
                                     InFlight
    <3>2. /\ UNCHANGED <<phase, mode, targets, deps, finished, item>>
          /\ dest' = dest \/ dest' = dest \ {item[w]}
      BY <2>3 DEF DeleteReturns, Delete, staticVars, sorterVars, stateVars
    <3>3. InFlight' = InFlight
      BY <3>2 DEF InFlight
    <3>4. CASE dest' = dest
      BY <3>2, <3>4, Stutter
    <3>5. CASE dest' = dest \ {item[w]}
      <4>1. Resource \ dest' = (Resource \ dest) \cup {item[w]}
        BY <3>1, <3>5
      <4>2. Ordered!Store(item[w])
        BY <1>7, <3>1, <3>2, <3>3, <4>1 DEF Ordered!Store
      <4> QED
        BY <3>1, <4>2 DEF Ordered!Next
    <3> QED
      BY <3>2, <3>4, <3>5
  <2>4. CASE FinishItem(w)
    <3>1. /\ finished' = finished \cup {item[w]}
          /\ item' = [item EXCEPT ![w] = NoResource]
          /\ UNCHANGED <<phase, mode, targets, deps, dest>>
      BY <1>7, <2>4 DEF FinishItem, MarkDone, staticVars, stateVars
    <3>2. item[w] \in Resource /\ item[w] \in InFlight
      BY <2>4, CleanupAssumption DEF FinishItem, TypeInv, TypeOK, WorkerItem,
                                     InFlight
    <3>3. InFlight' = InFlight \ {item[w]}
      BY <3>1, <3>2, InFlightFinished DEF PoolInv
    <3>4. Ordered!Settle(item[w])
      BY <1>7, <3>1, <3>2, <3>3 DEF Ordered!Settle
    <3> QED
      BY <3>2, <3>4 DEF Ordered!Next
  <2> QED
    BY <1>7, <2>1, <2>2, <2>3, <2>4 DEF WorkerStep
\* the end
<1>8. ASSUME mode = "ordered", FinishCleanup PROVE Ordered!Next
  <2>1. /\ phase = "run" /\ phase' = "done" /\ sorterPc = "returned"
        /\ \A w \in Worker : pc[w] = "returned"
        /\ UNCHANGED <<mode, targets, deps, finished, item, dest>>
    BY <1>8 DEF FinishCleanup, staticVars, sorterVars, stateVars, poolVars
  <2>2. InFlight = {} /\ targets \subseteq finished
    BY <1>8, <2>1 DEF InFlight, DrainInv, TypeInv, WorkerItem
  <2>3. InFlight' = InFlight
    BY <2>1 DEF InFlight
  <2>4. Ordered!Close
    BY <1>8, <2>1, <2>2, <2>3 DEF Ordered!Close
  <2> QED
    BY <2>4 DEF Ordered!Next
<1> QED
  BY <1>1, <1>2, <1>3, <1>4, <1>5, <1>6, <1>7, <1>8
     DEF Next, Terminated, Ordered!Next

\* Every behaviour of the cleanup, however its pool interleaves, is an ordered
\* apply of the reversed graph: each deletion at most once, after those of the
\* dependents, and the end when all is settled; the fallback never begins one.
THEOREM CleanupIsOrdered == Spec => ImplementsOrderedApply
<1>1. Init => Ordered!Init
  BY OrderedInit
<1>2. /\ TypeInv /\ TypeInv' /\ PoolInv /\ PoolInv' /\ DrainInv
      /\ [Next]_vars
      => [Ordered!Next]_(Ordered!vars)
  BY OrderedStep
<1> QED
  BY <1>1, <1>2, TypeCorrect, PoolCorrect, DrainCorrect, PTL
     DEF Spec, ImplementsOrderedApply, Ordered!Spec
=============================================================================
