---------------------------- MODULE Import_proofs ----------------------------
(***************************************************************************)
(* What an import brings in, and what it leaves in the files.              *)
(*                                                                         *)
(* MissingDependencies, for any resources, names, scope, references and    *)
(* workers: nothing that the pool for missing dependencies has to bring is *)
(* overlooked.  The invariant follows a name from where it is found        *)
(* missing: it is queued or in a worker (Pending) until it is stored or    *)
(* has failed.  The pool ends with nothing pending, because the worker     *)
(* that returns last found the queue empty, and only a worker that runs    *)
(* can fill it.                                                            *)
(*                                                                         *)
(* StateFiles, for any ids, file names and processes, and every way to     *)
(* share and to keep the files: what a process reads is what its files     *)
(* hold.  The invariant follows a process through its files: which entry   *)
(* each file may hold, which it has read, which it has still to write.     *)
(***************************************************************************)
EXTENDS MissingDependencies, StateFiles, FiniteSetTheorems, TLAPS

-----------------------------------------------------------------------------
(* The pool for missing dependencies.                                      *)

Pending(n) == \/ queue[n] > 0
              \/ \E w \in Worker : pc[w] = "import" /\ item[w] = n

\* Only names of resources are asked for.
NamedInv ==
  /\ \A n \in Name : Pending(n) => n \in Names(Resource)
  /\ \A w \in Worker : pc[w] = "import" => item[w] \in Name

\* Import: what a visited or imported resource lacks is pending or has failed.
ImportInv ==
  ~atSync => \A r \in Walk \cup (source \ before) :
               \A n \in Names(refs[r] \ source) : n \in failed \/ Pending(n)

\* Sync: what is imported is a node, and the graph refers to nodes, to what was
\* there before, or to names that are pending or have failed.
SyncInv ==
  atSync =>
    /\ Names(source \ before) \subseteq keys
    /\ \A n \in keys : \A m \in deps[n] :
         m \in keys \cup failed \cup Names(before) \/ Pending(m)

EndInv ==
  /\ (\A w \in Worker : pc[w] = "returned") => \A n \in Name : queue[n] = 0
  /\ ~running => \A w \in Worker : pc[w] = "returned"

Inv == TypeOK /\ NamedInv /\ ImportInv /\ SyncInv /\ EndInv

-----------------------------------------------------------------------------
\* A name is that of one resource, which KeyOf finds again.
LEMMA KeyOfName ==
  ASSUME NEW r \in Resource
  PROVE  KeyOf(NameOf[r]) = r
  BY MissingAssumption DEF KeyOf

LEMMA KeyOfType ==
  ASSUME NEW n \in Names(Resource)
  PROVE  KeyOf(n) \in Resource /\ NameOf[KeyOf(n)] = n
  BY KeyOfName DEF Names

LEMMA NamesType ==
  ASSUME NEW S, S \subseteq Resource
  PROVE  Names(S) \subseteq Name /\ Names(S) \subseteq Names(Resource)
  BY MissingAssumption DEF Names

\* The walk stays inside the source state.
LEMMA WalkType == Walk \subseteq before
  BY DEF Walk, Reached

\* What the pool is seeded with are names of resources.
LEMMA SeedsType ==
  ASSUME refs \in [Resource -> SUBSET Resource], source \subseteq Resource,
         before = source
  PROVE  Seeds \subseteq Names(Resource)
  BY WalkType, NamesType
     DEF Seeds, Discovered, Unresolved, MissingNodes, Unconnected, Names

LEMMA NamesFinite == IsFiniteSet(Names(Resource))
<1> DEFINE f == [r \in Resource |-> NameOf[r]]
<1>1. f \in Surjection(Resource, Names(Resource))
  BY DEF Surjection, Names
<1> QED
  BY <1>1, FS_Surjection, MissingAssumption

-----------------------------------------------------------------------------
LEMMA InitInv == Init => Inv
<1> SUFFICES ASSUME Init PROVE Inv
  OBVIOUS
<1>1. /\ refs \in [Resource -> SUBSET Resource] /\ source \subseteq Resource
      /\ before = source /\ dest \subseteq Resource
  BY MissingAssumption DEF Init
<1>2. Seeds \subseteq Names(Resource) /\ Seeds \subseteq Name
  BY <1>1, SeedsType, NamesType
<1>3. \A w \in Worker : pc[w] # "import"
  BY DEF Init
<1>4. \A n \in Name : queue[n] = IF n \in Seeds THEN 1 ELSE 0
  BY DEF Init
<1>5. \A n \in Name : Pending(n) <=> n \in Seeds
  BY <1>3, <1>4 DEF Pending
<1>6. TypeOK
  <2>1. Names(InScope \cap source) \subseteq Name
    BY <1>1, NamesType
  <2>2. \A n \in Names(InScope \cap source) :
          Names(Unconnected(KeyOf(n))) \subseteq Name
    <3> TAKE n \in Names(InScope \cap source)
    <3>1. KeyOf(n) \in Resource
      BY <1>1, NamesType, KeyOfType
    <3> QED
      BY <3>1, <1>1, NamesType DEF Unconnected
  <2>3. deps \in [Name -> SUBSET Name]
    BY <2>1, <2>2 DEF Init
  <2>4. queue \in [Name -> Nat] /\ item \in [Worker -> Name \cup {NoName}]
    BY DEF Init
  <2>5. pc \in [Worker -> {"idle", "import", "returned"}]
    BY DEF Init
  <2> QED
    BY <1>1, <2>1, <2>3, <2>4, <2>5 DEF Init, TypeOK
<1>7. NamedInv
  BY <1>2, <1>3, <1>5 DEF NamedInv
<1>8. ImportInv
  <2> SUFFICES ASSUME ~atSync, NEW r \in Walk, NEW n \in Names(refs[r] \ source)
               PROVE  Pending(n)
    BY <1>1 DEF ImportInv
  <2>1. n \in Seeds
    BY <1>1 DEF Seeds, Discovered
  <2> QED
    BY <2>1, <1>2, <1>5
<1>9. SyncInv
  <2> SUFFICES ASSUME atSync PROVE SyncInv
    BY DEF SyncInv
  <2>1. keys = Names(InScope \cap source)
    BY DEF Init
  <2>2. ASSUME NEW n \in keys, NEW m \in deps[n]
        PROVE  m \in Names(before) \/ Pending(m)
    <3>1. /\ KeyOf(n) \in InScope \cap source
          /\ m \in Names(Unconnected(KeyOf(n)))
      <4>1. PICK r \in InScope \cap source : n = NameOf[r]
        BY <2>1 DEF Names
      <4>2. KeyOf(n) = r
        BY <4>1, <1>1, KeyOfName
      <4>3. n \in Name
        BY <1>6 DEF TypeOK
      <4> QED
        BY <4>1, <4>2, <4>3 DEF Init
    <3>2. m \in Name
      BY <3>1, <1>1, NamesType DEF Unconnected
    <3>3. CASE m \in source
      BY <3>3, <1>1, <3>1, MissingAssumption DEF Names, Unconnected
    <3>4. CASE m \notin source
      BY <3>4, <3>1, <3>2, <1>5 DEF Seeds, Unresolved, MissingNodes, Known
    <3> QED
      BY <3>3, <3>4
  <2> QED
    BY <2>2, <1>1 DEF SyncInv, Names
<1>10. EndInv
  <2>1. PICK hired \in SUBSET Worker :
          /\ \/ Cardinality(hired) = Cardinality(Seeds)
             \/ hired = Worker /\ Cardinality(Seeds) > Cardinality(Worker)
          /\ pc = [w \in Worker |-> IF w \in hired THEN "idle" ELSE "returned"]
    BY DEF Init
  <2>2. IsFiniteSet(Seeds) /\ IsFiniteSet(hired)
    <3>1. IsFiniteSet(Names(Resource))
      BY NamesFinite
    <3> QED
      BY <3>1, <1>2, FS_Subset, MissingAssumption
  <2>3. CASE Seeds = {}
    <3>1. Cardinality(Seeds) = 0 /\ Cardinality(Worker) \in Nat
      BY <2>3, <2>2, FS_EmptySet, FS_CardinalityType, MissingAssumption
    <3>2. hired = {}
      BY <3>1, <2>1, <2>2, FS_EmptySet
    <3> QED
      BY <3>2, <2>1, <2>3, <1>4 DEF EndInv
  <2>4. CASE Seeds # {}
    <3>1. Cardinality(Seeds) # 0
      BY <2>4, <2>2, FS_EmptySet
    <3>2. hired # {}
      BY <3>1, <2>1, <2>2, FS_EmptySet, MissingAssumption
    <3>3. \E w \in Worker : pc[w] = "idle"
      BY <3>2, <2>1
    <3> QED
      BY <3>3, <2>4 DEF EndInv, Init
  <2> QED
    BY <2>3, <2>4
<1> QED
  BY <1>6, <1>7, <1>8, <1>9, <1>10 DEF Inv

-----------------------------------------------------------------------------
(* The steps.                                                              *)

\* A step that asks for nothing and stores nothing keeps what is pending.
LEMMA CancelInv == Inv /\ Cancel => Inv'
<1> SUFFICES ASSUME Inv, Cancel PROVE Inv'
  OBVIOUS
<1>1. TypeOK'
  BY DEF Inv, TypeOK, Cancel
<1>2. \A n : Pending(n)' <=> Pending(n)
  BY DEF Cancel, Pending
<1>3. NamedInv' /\ EndInv'
  BY <1>2 DEF Inv, NamedInv, EndInv, Cancel
<1>4. Walk' = Walk
  BY DEF Cancel, Walk, Reached, Closed
<1>5. ImportInv' /\ SyncInv'
  BY <1>2, <1>4 DEF Inv, ImportInv, SyncInv, Cancel
<1> QED
  BY <1>1, <1>3, <1>5 DEF Inv

\* A name that is taken is in the worker, or is passed over because it is stored.
LEMMA TakeItemInv ==
  ASSUME Inv, NEW w \in Worker, TakeItem(w)
  PROVE  Inv'
<1>1. PICK n \in Name :
        /\ Waiting(n)
        /\ queue' = [queue EXCEPT ![n] = @ - 1]
        /\ IF Skips(n) THEN UNCHANGED <<pc, item>>
                       ELSE /\ pc' = [pc EXCEPT ![w] = "import"]
                            /\ item' = [item EXCEPT ![w] = n]
  BY DEF TakeItem
<1>2. /\ running /\ pc[w] = "idle"
      /\ UNCHANGED <<atSync, refs, source, dest, before, running, shutdown, keys,
                     deps, failed>>
  BY DEF TakeItem
<1>3. TypeOK'
  <2>1. queue' \in [Name -> Nat]
    BY <1>1 DEF Inv, TypeOK, Waiting
  <2>2. pc' \in [Worker -> {"idle", "import", "returned"}]
    BY <1>1 DEF Inv, TypeOK
  <2>3. item' \in [Worker -> Name \cup {NoName}]
    BY <1>1 DEF Inv, TypeOK
  <2> QED
    BY <2>1, <2>2, <2>3, <1>2 DEF Inv, TypeOK
<1>4. n \in Names(Resource)
  BY <1>1 DEF Waiting, Inv, NamedInv, Pending
<1>5. \A m \in Name : Pending(m)' => Pending(m)
  BY <1>1, <1>2 DEF Pending, Inv, TypeOK, Waiting
<1>6. \A m \in Name : Pending(m) => Pending(m)' \/ (m = n /\ Skips(n))
  <2> SUFFICES ASSUME NEW m \in Name, Pending(m), ~(m = n /\ Skips(n))
               PROVE  Pending(m)'
    OBVIOUS
  <2>1. CASE m = n
    BY <2>1, <1>1 DEF Pending, Inv, TypeOK
  <2>2. CASE m # n
    <3>1. CASE queue[m] > 0
      BY <3>1, <2>2, <1>1 DEF Pending, Inv, TypeOK
    <3>2. CASE \E v \in Worker : pc[v] = "import" /\ item[v] = m
      <4>1. PICK v \in Worker : pc[v] = "import" /\ item[v] = m
        BY <3>2
      <4>2. v # w
        BY <4>1, <1>2
      <4>3. pc'[v] = "import" /\ item'[v] = m
        BY <4>1, <4>2, <1>1 DEF Inv, TypeOK
      <4> QED
        BY <4>3 DEF Pending
    <3> QED
      BY <3>1, <3>2 DEF Pending
  <2> QED
    BY <2>1, <2>2
<1>7. NamedInv'
  <2>1. \A v \in Worker : pc'[v] = "import" => item'[v] \in Name
    BY <1>1 DEF Inv, NamedInv, TypeOK
  <2> QED
    BY <2>1, <1>5 DEF Inv, NamedInv
<1>8. Walk' = Walk /\ Walk \subseteq source
  BY <1>2, WalkType DEF Walk, Reached, Closed, Inv, TypeOK
<1>9. ImportInv'
  <2> SUFFICES ASSUME ~atSync, NEW r \in Walk \cup (source \ before),
                      NEW m \in Names(refs[r] \ source)
               PROVE  m \in failed \/ Pending(m)'
    BY <1>2, <1>8 DEF ImportInv
  <2>1. m \in failed \/ Pending(m)
    BY DEF Inv, ImportInv
  <2>2. PICK q \in refs[r] \ source : m = NameOf[q]
    BY DEF Names
  <2>3. q \in Resource /\ m \in Name
    BY <1>8, <2>2, MissingAssumption DEF Inv, TypeOK
  <2>4. ~(m = n /\ Skips(n))
    BY <2>2, <2>3, KeyOfName DEF Skips
  <2> QED
    BY <2>1, <2>3, <2>4, <1>6
<1>10. SyncInv'
  <2> SUFFICES ASSUME atSync PROVE SyncInv'
    BY <1>2 DEF SyncInv
  <2>1. \A m \in Name : Pending(m) => Pending(m)'
    BY <1>6 DEF Skips
  <2>2. \A k \in keys : deps[k] \subseteq Name
    BY DEF Inv, TypeOK
  <2>3. \A k \in keys : \A m \in deps[k] :
          m \in keys \cup failed \cup Names(before) \/ Pending(m)'
    BY <2>1, <2>2 DEF Inv, SyncInv
  <2> QED
    BY <2>3, <1>2 DEF Inv, SyncInv, Names
<1>11. EndInv'
  <2>1. pc'[w] # "returned"
    BY <1>1, <1>2 DEF Inv, TypeOK
  <2> QED
    BY <2>1, <1>2 DEF EndInv
<1> QED
  BY <1>3, <1>7, <1>9, <1>10, <1>11 DEF Inv

\* What is stored is asked for no more, and what it lacks is queued before the
\* worker lets go of it.
LEMMA ImportStoresInv ==
  ASSUME Inv, NEW w \in Worker, running, pc[w] = "import",
         source' = source \cup {KeyOf(item[w])},
         queue' = [q \in Name |-> IF q \in Enqueued(KeyOf(item[w]), source')
                                    THEN queue[q] + 1 ELSE queue[q]],
         keys' = Node(item[w]),
         deps' = IF atSync
                   THEN [deps EXCEPT ![item[w]] =
                                  Names(Unconnected(KeyOf(item[w])))]
                   ELSE deps,
         pc' = [pc EXCEPT ![w] = "idle"],
         item' = [item EXCEPT ![w] = NoName],
         UNCHANGED <<failed, atSync, refs, dest, before, running, shutdown>>
  PROVE  Inv'
<1> DEFINE n == item[w]
           r == KeyOf(n)
<1>1. n \in Name /\ n \in Names(Resource) /\ r \in Resource /\ NameOf[r] = n
  <2>1. n \in Name /\ Pending(n)
    BY DEF Inv, NamedInv, Pending
  <2> QED
    BY <2>1, KeyOfType DEF Inv, NamedInv
<1>2. /\ refs[r] \subseteq Resource
      /\ Names(Unconnected(r)) \subseteq Name
      /\ Enqueued(r, source') \subseteq Names(Resource)
  <2>1. refs[r] \subseteq Resource
    BY <1>1 DEF Inv, TypeOK
  <2> QED
    BY <2>1, NamesType DEF Enqueued, Unconnected
<1>3. TypeOK'
  <2>1. queue' \in [Name -> Nat]
    BY DEF Inv, TypeOK
  <2>2. deps' \in [Name -> SUBSET Name]
    BY <1>1, <1>2 DEF Inv, TypeOK
  <2>3. keys' \subseteq Name
    BY <1>1 DEF Inv, TypeOK, Node
  <2>4. source' \subseteq Resource /\ before' \subseteq source'
    BY <1>1 DEF Inv, TypeOK
  <2>5. pc' \in [Worker -> {"idle", "import", "returned"}]
    BY DEF Inv, TypeOK
  <2>6. item' \in [Worker -> Name \cup {NoName}]
    BY DEF Inv, TypeOK
  <2> QED
    BY <2>1, <2>2, <2>3, <2>4, <2>5, <2>6 DEF Inv, TypeOK
<1>4. \A m \in Name : m \in Enqueued(r, source') => Pending(m)'
  BY DEF Pending, Inv, TypeOK
<1>5. \A m \in Name : Pending(m) => Pending(m)' \/ m = n
  <2> SUFFICES ASSUME NEW m \in Name, Pending(m), m # n PROVE Pending(m)'
    OBVIOUS
  <2>1. CASE queue[m] > 0
    BY <2>1 DEF Pending, Inv, TypeOK
  <2>2. CASE \E v \in Worker : pc[v] = "import" /\ item[v] = m
    BY <2>2 DEF Pending, Inv, TypeOK
  <2> QED
    BY <2>1, <2>2 DEF Pending
<1>6. \A m \in Name : Pending(m)' => Pending(m) \/ m \in Enqueued(r, source')
  <2> SUFFICES ASSUME NEW m \in Name, Pending(m)', m \notin Enqueued(r, source')
               PROVE  Pending(m)
    OBVIOUS
  <2>1. queue'[m] = queue[m]
    OBVIOUS
  <2>2. \A v \in Worker : pc'[v] = "import" => pc[v] = "import" /\ item'[v] = item[v]
    BY DEF Inv, TypeOK
  <2> QED
    BY <2>1, <2>2 DEF Pending
<1>7. NamedInv'
  <2>1. \A v \in Worker : pc'[v] = "import" => item'[v] \in Name
    BY DEF Inv, NamedInv, TypeOK
  <2> QED
    BY <2>1, <1>2, <1>6 DEF Inv, NamedInv
<1>8. Walk' = Walk /\ Walk \subseteq source
  BY WalkType DEF Walk, Reached, Closed, Inv, TypeOK
<1>9. ImportInv'
  <2> SUFFICES ASSUME ~atSync, NEW s \in Walk \cup (source' \ before),
                      NEW m \in Names(refs[s] \ source')
               PROVE  m \in failed \/ Pending(m)'
    BY <1>8 DEF ImportInv
  <2>1. PICK q \in refs[s] \ source' : m = NameOf[q]
    BY DEF Names
  <2>2. s \in Resource /\ q \in Resource /\ m \in Name
    BY <1>1, <1>8, <2>1, MissingAssumption DEF Inv, TypeOK
  <2>3. m # n
    BY <2>1, <2>2, KeyOfName
  <2>4. CASE s \in Walk \cup (source \ before)
    <3>1. m \in Names(refs[s] \ source)
      BY <2>1 DEF Names
    <3> QED
      BY <3>1, <2>4, <2>2, <2>3, <1>5 DEF Inv, ImportInv
  <2>5. CASE s = r
    BY <2>5, <2>2, <1>4 DEF Enqueued
  <2> QED
    BY <2>4, <2>5
<1>10. SyncInv'
  <2> SUFFICES ASSUME atSync PROVE SyncInv'
    BY DEF SyncInv
  <2>1. keys' = keys \cup {n}
    BY DEF Node
  <2>2. Names(source' \ before) \subseteq keys'
    BY <2>1, <1>1 DEF Inv, SyncInv, Names
  <2>3. ASSUME NEW k \in keys', NEW m \in deps'[k]
        PROVE  m \in keys' \cup failed \cup Names(before) \/ Pending(m)'
    <3>1. CASE k = n
      <4>1. m \in Names(Unconnected(r)) /\ m \in Name
        BY <3>1, <1>1, <1>2 DEF Inv, TypeOK
      <4>2. CASE m \notin source'
        BY <4>1, <4>2, <1>4 DEF Enqueued
      <4>3. CASE m \in source'
        <5>1. PICK q \in refs[r] : m = NameOf[q]
          BY <4>1 DEF Names, Unconnected
        <5>2. NameOf[m] = m /\ m \in Resource
          BY <4>3, <5>1, <1>1, <1>2, <1>3, MissingAssumption DEF TypeOK
        <5>3. m \in before \/ m \in source' \ before
          BY <4>3
        <5> QED
          BY <5>2, <5>3, <2>2 DEF Names
      <4> QED
        BY <4>2, <4>3
    <3>2. CASE k # n
      <4>1. k \in keys /\ m \in deps[k] /\ m \in Name
        BY <3>2, <2>1 DEF Inv, TypeOK
      <4> QED
        BY <4>1, <2>1, <1>5 DEF Inv, SyncInv
    <3> QED
      BY <3>1, <3>2
  <2> QED
    BY <2>2, <2>3 DEF SyncInv, Names
<1>11. EndInv'
  <2>1. pc'[w] # "returned"
    BY DEF Inv, TypeOK
  <2> QED
    BY <2>1 DEF EndInv
<1> QED
  BY <1>3, <1>7, <1>9, <1>10, <1>11 DEF Inv

\* What could not be imported has failed.
LEMMA ImportFailsInv ==
  ASSUME Inv, NEW w \in Worker, running, pc[w] = "import",
         failed' = failed \cup {item[w]},
         pc' = [pc EXCEPT ![w] = "idle"],
         item' = [item EXCEPT ![w] = NoName],
         UNCHANGED <<source, queue, keys, deps, atSync, refs, dest, before,
                     running, shutdown>>
  PROVE  Inv'
<1> DEFINE n == item[w]
<1>1. n \in Name
  BY DEF Inv, NamedInv
<1>2. TypeOK'
  BY <1>1 DEF Inv, TypeOK
<1>3. \A m \in Name : Pending(m) => Pending(m)' \/ m = n
  <2> SUFFICES ASSUME NEW m \in Name, Pending(m), m # n PROVE Pending(m)'
    OBVIOUS
  <2>1. CASE queue[m] > 0
    BY <2>1 DEF Pending
  <2>2. CASE \E v \in Worker : pc[v] = "import" /\ item[v] = m
    BY <2>2 DEF Pending, Inv, TypeOK
  <2> QED
    BY <2>1, <2>2 DEF Pending
<1>4. NamedInv'
  <2>1. \A v \in Worker : pc'[v] = "import" => pc[v] = "import" /\ item'[v] = item[v]
    BY DEF Inv, TypeOK
  <2> QED
    BY <2>1 DEF Inv, NamedInv, Pending
<1>5. Walk' = Walk /\ Walk \subseteq source
  BY WalkType DEF Walk, Reached, Closed, Inv, TypeOK
<1>6. ImportInv'
  <2> SUFFICES ASSUME ~atSync, NEW r \in Walk \cup (source \ before),
                      NEW m \in Names(refs[r] \ source)
               PROVE  m \in failed' \/ Pending(m)'
    BY <1>5 DEF ImportInv
  <2>1. m \in Name
    BY <1>5, NamesType DEF Inv, TypeOK
  <2> QED
    BY <2>1, <1>3 DEF Inv, ImportInv
<1>7. SyncInv'
  <2> SUFFICES ASSUME atSync PROVE SyncInv'
    BY DEF SyncInv
  <2>1. \A k \in keys : deps[k] \subseteq Name
    BY DEF Inv, TypeOK
  <2>2. \A k \in keys : \A m \in deps[k] :
          m \in keys \cup failed' \cup Names(before) \/ Pending(m)'
    BY <2>1, <1>3 DEF Inv, SyncInv
  <2> QED
    BY <2>2 DEF Inv, SyncInv, Names
<1>8. EndInv'
  <2>1. pc'[w] # "returned"
    BY DEF Inv, TypeOK
  <2> QED
    BY <2>1 DEF EndInv
<1> QED
  BY <1>2, <1>4, <1>6, <1>7, <1>8 DEF Inv

LEMMA ImportReturnsInv ==
  ASSUME Inv, NEW w \in Worker, ImportReturns(w)
  PROVE  Inv'
<1>1. CASE source' = source \cup {KeyOf(item[w])} /\ UNCHANGED failed
           /\ queue' = [q \in Name |->
                          IF q \in Enqueued(KeyOf(item[w]), source')
                            THEN queue[q] + 1 ELSE queue[q]]
           /\ keys' = Node(item[w])
           /\ deps' = IF atSync
                        THEN [deps EXCEPT ![item[w]] =
                                       Names(Unconnected(KeyOf(item[w])))]
                        ELSE deps
  BY <1>1, ImportStoresInv DEF ImportReturns
<1>2. CASE failed' = failed \cup {item[w]}
           /\ UNCHANGED <<source, queue, keys, deps>>
  BY <1>2, ImportFailsInv DEF ImportReturns
<1> QED
  BY <1>1, <1>2 DEF ImportReturns

\* A worker that returns found the queue empty.
LEMMA WorkerReturnsInv ==
  ASSUME Inv, NEW w \in Worker, WorkerReturns(w)
  PROVE  Inv'
<1>1. TypeOK'
  BY DEF Inv, TypeOK, WorkerReturns
<1>2. \A v \in Worker : pc'[v] = "import" <=> pc[v] = "import"
  BY DEF Inv, TypeOK, WorkerReturns
<1>3. \A m : Pending(m)' <=> Pending(m)
  BY <1>2 DEF Pending, WorkerReturns
<1>4. NamedInv'
  BY <1>2, <1>3 DEF Inv, NamedInv, WorkerReturns
<1>5. Walk' = Walk
  BY DEF WorkerReturns, Walk, Reached, Closed
<1>6. ImportInv' /\ SyncInv'
  BY <1>3, <1>5 DEF Inv, ImportInv, SyncInv, WorkerReturns
<1>7. EndInv'
  BY DEF Inv, TypeOK, EndInv, WorkerReturns, Stops, Waiting
<1> QED
  BY <1>1, <1>4, <1>6, <1>7 DEF Inv

LEMMA PoolReturnsInv == Inv /\ PoolReturns => Inv'
<1> SUFFICES ASSUME Inv, PoolReturns PROVE Inv'
  OBVIOUS
<1>1. TypeOK'
  BY DEF Inv, TypeOK, PoolReturns
<1>2. \A m : Pending(m)' <=> Pending(m)
  BY DEF Pending, PoolReturns
<1>3. NamedInv' /\ EndInv'
  BY <1>2 DEF Inv, NamedInv, EndInv, PoolReturns
<1>4. Walk' = Walk
  BY DEF PoolReturns, Walk, Reached, Closed
<1>5. ImportInv' /\ SyncInv'
  BY <1>2, <1>4 DEF Inv, ImportInv, SyncInv, PoolReturns
<1> QED
  BY <1>1, <1>3, <1>5 DEF Inv

LEMMA StepInv == Inv /\ [Next]_vars => Inv'
<1> SUFFICES ASSUME Inv, [Next]_vars PROVE Inv'
  OBVIOUS
<1>1. CASE UNCHANGED vars
  <2>1. \A m : Pending(m)' <=> Pending(m)
    BY <1>1 DEF Pending, vars
  <2>2. Walk' = Walk
    BY <1>1 DEF vars, Walk, Reached, Closed
  <2> QED
    BY <1>1, <2>1, <2>2
       DEF Inv, TypeOK, NamedInv, ImportInv, SyncInv, EndInv, vars
<1>2. ASSUME NEW w \in Worker, WorkerStep(w) PROVE Inv'
  BY <1>2, TakeItemInv, ImportReturnsInv, WorkerReturnsInv DEF WorkerStep
<1> QED
  BY <1>1, <1>2, CancelInv, PoolReturnsInv DEF Next, Terminated

-----------------------------------------------------------------------------
LEMMA Invariance == Spec => []Inv
  BY InitInv, StepInv, PTL DEF Spec

\* The invariant without anything pending.
LEMMA InvIsClosed == Inv => ImportIsClosed
<1> SUFFICES ASSUME Inv, ~running PROVE ImportIsClosed
  BY DEF ImportIsClosed
<1>1. \A m \in Name : ~Pending(m)
  BY DEF Inv, EndInv, Pending
<1>2. ~atSync => \A r \in Walk \cup (source \ before) :
                   Names(refs[r] \ source) \subseteq failed
  <2> SUFFICES ASSUME ~atSync, NEW r \in Walk \cup (source \ before),
                      NEW m \in Names(refs[r] \ source)
               PROVE  m \in failed
    OBVIOUS
  <2>1. m \in Name
    BY WalkType, NamesType DEF Inv, TypeOK
  <2> QED
    BY <2>1, <1>1 DEF Inv, ImportInv
<1>3. atSync => \A k \in keys : deps[k] \subseteq keys \cup failed \cup Names(before)
  BY <1>1 DEF Inv, TypeOK, SyncInv
<1> QED
  BY <1>2, <1>3 DEF ImportIsClosed

\* Every variable of the pool keeps its type, for any resources and workers.
THEOREM TypeOKCorrect == Spec => []TypeOK
<1>1. Inv => TypeOK
  BY DEF Inv
<1> QED
  BY <1>1, Invariance, PTL

\* Nothing that an import of missing dependencies has to bring is overlooked,
\* whatever the references, however many workers, and whatever fails.
THEOREM ImportIsClosedCorrect == Spec => []ImportIsClosed
  BY InvIsClosed, Invariance, PTL

-----------------------------------------------------------------------------
(* The files, one by one.                                                  *)

\* The name of the file that has an entry.
Home(p, i) == IF layout[p] THEN Safe[i] ELSE Whole

Put == [file : File, round : 1..3, content : State]

\* One entry of a state.
One(state, i) == Only(state, {i})

\* The types of what a load, a dump and a pruning go through.
FilesTyped ==
  /\ mode \in Modes
  /\ org \in State
  /\ store \in [File -> State]
  /\ files \subseteq File
  /\ layout \in [Proc -> BOOLEAN]
  /\ cmd \in [Proc -> {"none", "import", "import only", "sync", "prune"}]
  /\ at \in [Proc -> {"idle", "list", "read", "fetch", "apply", "dump", "put",
                      "compute", "fence", "delete", "done"}]
  /\ side \in [Proc -> Origin]
  /\ mem \in [Proc -> [Origin -> State]]
  /\ todo \in [Proc -> SUBSET File]
  /\ writes \in [Proc -> SUBSET Put]
  /\ open \in [Proc -> SUBSET Put]
  /\ steady \in [Proc -> SUBSET Id]

\* What a mode says.
LEMMA SharingIs ==
  ASSUME mode \in Modes
  PROVE  /\ Safe \in [Id -> FileName] /\ Whole \notin FileName
         /\ Commands \in
              [Proc -> SUBSET {"import", "import only", "sync", "prune"}]
         /\ Layouts \subseteq BOOLEAN
         /\ Switched \in BOOLEAN /\ Local \in BOOLEAN
         /\ mode.versions \in 1..MaxVersion /\ MaxVersion \in Nat \ {0}
<1>1. mode \in Mode
  BY StateFilesAssumption
<1>2. /\ mode.safe \in [Id -> FileName] /\ mode.layouts \subseteq BOOLEAN
      /\ mode.commands \in
           [Proc -> SUBSET {"import", "import only", "sync", "prune"}]
      /\ mode.switched \in BOOLEAN /\ mode.local \in BOOLEAN
      /\ mode.versions \in 1..MaxVersion
  BY <1>1 DEF Mode
<1>3. QED
  BY <1>2, StateFilesAssumption
     DEF Safe, Commands, Layouts, Switched, Local

\* The entries of two files read one after the other.
LEMMA MergedIs ==
  ASSUME NEW old \in State, NEW content \in State
  PROVE  /\ Merged(old, content) \in State
         /\ \A i \in Id : Merged(old, content)[i] =
                            IF content[i] # 0 THEN content[i] ELSE old[i]
BY DEF Merged, State

\* Some entries of a state.
LEMMA OnlyIs ==
  ASSUME NEW state \in State, NEW ids, MaxVersion \in Nat
  PROVE  /\ Only(state, ids) \in State
         /\ \A i \in Id : Only(state, ids)[i] =
                            IF i \in ids THEN state[i] ELSE 0
<1>1. \A i \in Id : (IF i \in ids THEN state[i] ELSE 0) \in 0..MaxVersion
  BY DEF State
<1>2. QED BY <1>1 DEF Only, State

\* Of the ids that share a name one is kept.
LEMMA WinnersAre ==
  ASSUME NEW state \in State,
         NEW ids \in Winners(state)
  PROVE  /\ ids \subseteq Id /\ \A i \in ids : state[i] # 0
         /\ \A i \in Id : state[i] # 0 =>
              \E j \in ids : {k \in ids : Safe[k] = Safe[i]} = {j}
BY DEF Winners

\* What one write of a dump puts where.
LEMMA WritesAre ==
  ASSUME mode \in Modes,
         NEW perFile \in BOOLEAN, NEW o \in Origin, NEW round \in 1..3,
         NEW state \in State, NEW ids \in Winners(state),
         NEW w \in WritesOf(perFile, o, round, state, ids)
  PROVE  /\ w \in Put /\ w.file[1] = o /\ w.round = round
         /\ ~perFile => w.file = <<o, Whole>> /\ w.content = state
         /\ perFile => \E j \in Id : /\ state[j] # 0
                                     /\ w.file = <<o, Safe[j]>>
                                     /\ w.content = One(state, j)
<1>1. CASE ~perFile
  <2>1. w = [file |-> <<o, Whole>>, round |-> round, content |-> state]
    BY <1>1 DEF WritesOf
  <2>2. <<o, Whole>> \in File
    BY DEF File
  <2>3. QED BY <1>1, <2>1, <2>2 DEF Put
<1>2. CASE perFile
  <2>1. PICK i \in ids :
          w = [file |-> <<o, Safe[i]>>, round |-> round,
               content |-> Only(state,
                             {j \in ids : Safe[j] = Safe[i]})]
    BY <1>2 DEF WritesOf
  <2>2. i \in Id /\ state[i] # 0
    BY WinnersAre
  <2>3. PICK j \in ids : {k \in ids : Safe[k] = Safe[i]} = {j}
    BY <2>2, WinnersAre
  <2>4. j = i
    BY <2>3
  <2>5. w.content = Only(state, {i}) /\ w.file = <<o, Safe[i]>>
        /\ w.round = round
    BY <2>1, <2>3, <2>4
  <2>6. <<o, Safe[i]>> \in File
    BY <2>2, SharingIs DEF File
  <2>7. Only(state, {i}) \in State
    BY OnlyIs, SharingIs
  <2>8. w \in Put
    BY <2>1, <2>3, <2>4, <2>6, <2>7 DEF Put
  <2>9. \E k \in Id : /\ state[k] # 0
                       /\ w.file = <<o, Safe[k]>>
                       /\ w.content = One(state, k)
    BY <2>2, <2>5 DEF One
  <2>10. w.file[1] = o
    BY <2>5
  <2>11. QED BY <1>2, <2>5, <2>8, <2>9, <2>10
<1>3. QED BY <1>1, <1>2

\* A dump in a file per resource writes every name of the state.
LEMMA WritesCover ==
  ASSUME mode \in Modes, NEW o, NEW round,
         NEW state \in State, NEW ids \in Winners(state),
         NEW i \in Id, state[i] # 0
  PROVE  \E w \in WritesOf(TRUE, o, round, state, ids) :
           w.file = <<o, Safe[i]>>
<1>1. PICK j \in ids : {k \in ids : Safe[k] = Safe[i]} = {j}
  BY WinnersAre
<1>2. j \in ids /\ Safe[j] = Safe[i]
  BY <1>1
<1> DEFINE w == [file |-> <<o, Safe[j]>>, round |-> round,
                 content |-> Only(state,
                               {k \in ids : Safe[k] = Safe[j]})]
<1>3. w \in WritesOf(TRUE, o, round, state, ids)
  BY <1>2 DEF WritesOf
<1>4. w.file = <<o, Safe[i]>>
  BY <1>2
<1>5. QED BY <1>3, <1>4

\* The writes of a dump.
LEMMA DumpIs ==
  ASSUME FilesTyped, NEW p \in Proc, Dump(p)
  PROVE  /\ \A w \in writes'[p] :
              \E o \in Origin, r \in 1..3 :
                \E ids \in Winners(mem[p][o]) :
                  w \in WritesOf(layout[p], o, r, mem[p][o], ids)
         /\ cmd[p] # "sync" =>
              \E src \in Winners(mem[p]["source"]) :
                writes'[p] = WritesOf(layout[p], "source", 1,
                                            mem[p]["source"], src)
         /\ writes' = [writes EXCEPT ![p] = writes'[p]]
<1> DEFINE Source(src, round) ==
             WritesOf(layout[p], "source", round, mem[p]["source"], src)
           Destination(dst) ==
             WritesOf(layout[p], "destination", 3, mem[p]["destination"], dst)
<1>1. PICK src \in Winners(mem[p]["source"]),
           dst \in Winners(mem[p]["destination"]) :
        writes' = [writes EXCEPT ![p] =
          CASE cmd[p] # "sync" -> Source(src, 1)
            [] cmd[p] = "sync" /\ ~Local ->
                 Source(src, 1) \cup Destination(dst)
            [] cmd[p] = "sync" /\ Local ->
                 Source(src, 1) \cup Source(src, 2) \cup Destination(dst)]
  BY DEF Dump
<1>2. Local \in BOOLEAN
  BY SharingIs DEF FilesTyped
<1>3. "source" \in Origin /\ "destination" \in Origin
  BY DEF Origin
<1>4. writes \in [Proc -> SUBSET Put]
  BY DEF FilesTyped
<1> HIDE DEF Source, Destination
<1>5. CASE cmd[p] # "sync"
  <2>1. writes'[p] = Source(src, 1)
    BY <1>1, <1>4, <1>5
  <2>2. writes' = [writes EXCEPT ![p] = writes'[p]]
    BY <1>1, <1>4, <2>1
  <2>3. ASSUME NEW w \in writes'[p]
        PROVE  \E o \in Origin, r \in 1..3 :
                 \E ids \in Winners(mem[p][o]) :
                   w \in WritesOf(layout[p], o, r, mem[p][o], ids)
    BY <1>3, <2>1 DEF Source
  <2>4. QED BY <2>1, <2>2, <2>3 DEF Source
<1>6. CASE cmd[p] = "sync"
  <2>1. \/ writes'[p] = Source(src, 1) \cup Destination(dst)
        \/ writes'[p] = Source(src, 1) \cup Source(src, 2) \cup Destination(dst)
    BY <1>1, <1>2, <1>4, <1>6
  <2>2. writes' = [writes EXCEPT ![p] = writes'[p]]
    BY <1>1, <1>4
  <2>3. ASSUME NEW w \in writes'[p]
        PROVE  \E o \in Origin, r \in 1..3 :
                 \E ids \in Winners(mem[p][o]) :
                   w \in WritesOf(layout[p], o, r, mem[p][o], ids)
    <3>1. CASE w \in Source(src, 1)
      BY <1>3, <3>1 DEF Source
    <3>2. CASE w \in Source(src, 2)
      BY <1>3, <3>2 DEF Source
    <3>3. CASE w \in Destination(dst)
      BY <1>3, <3>3 DEF Destination
    <3>4. QED BY <2>1, <3>1, <3>2, <3>3
  <2>4. QED BY <1>6, <2>2, <2>3
<1>7. QED BY <1>5, <1>6

\* Everything a dump writes has its type.
LEMMA DumpPuts ==
  ASSUME FilesTyped, NEW p \in Proc, Dump(p)
  PROVE  writes'[p] \subseteq Put
<1>1. /\ mode \in Modes /\ layout[p] \in BOOLEAN
      /\ \A o \in Origin : mem[p][o] \in State
  BY DEF FilesTyped
<1>2. QED BY <1>1, DumpIs, WritesAre

\* No step leaves the types.
LEMMA FilesTypedStep ==
  ASSUME FilesTyped, [FilesNext]_filesVars
  PROVE  FilesTyped'
<1> USE DEF Goto, orgVars, diskVars, runVars,
            putVars
<1>0. /\ Commands \in
           [Proc -> SUBSET {"import", "import only", "sync", "prune"}]
      /\ Layouts \subseteq BOOLEAN
      /\ mode.versions \in 1..MaxVersion /\ MaxVersion \in Nat
      /\ Empty \in State
      /\ "source" \in Origin /\ "destination" \in Origin
  <2>1. MaxVersion \in Nat /\ 0 \in 0..MaxVersion
    BY StateFilesAssumption
  <2>2. QED BY <2>1, SharingIs DEF FilesTyped, Empty, State, Origin
<1>a. /\ mode.versions \in Nat /\ mode.versions <= MaxVersion
      /\ MaxVersion \in Nat /\ 0 \in 0..MaxVersion
  <2>1. mode.versions \in 1..MaxVersion /\ MaxVersion \in Nat
    BY <1>0
  <2>2. QED BY <2>1
<1>1. ASSUME NEW i \in Id, SourceChanges(i) PROVE FilesTyped'
  <2>1. \/ org' = [org EXCEPT ![i] = @ + 1] /\ org[i] < mode.versions
        \/ org' = [org EXCEPT ![i] = 0]
    BY <1>1 DEF SourceChanges
  <2>2. org \in [Id -> 0..MaxVersion]
    BY DEF FilesTyped, State
  <2>3. ASSUME org[i] < mode.versions PROVE org[i] + 1 \in 0..MaxVersion
    <3>1. org[i] \in Nat
      BY <1>a, <2>2
    <3>2. QED BY <1>a, <2>3, <3>1
  <2>4. org' \in [Id -> 0..MaxVersion]
    <3>1. CASE org' = [org EXCEPT ![i] = @ + 1] /\ org[i] < mode.versions
      BY <2>2, <2>3, <3>1
    <3>2. CASE org' = [org EXCEPT ![i] = 0]
      BY <1>a, <2>2, <3>2
    <3>3. QED BY <2>1, <3>1, <3>2
  <2>5. UNCHANGED <<mode, store, files, layout, cmd, at, side, mem,
                    todo, writes, open, steady>>
    BY <1>1 DEF SourceChanges
  <2>6. QED BY <2>4, <2>5 DEF FilesTyped, State
<1>2. ASSUME NEW p \in Proc, Begin(p) PROVE FilesTyped'
  <2>1. PICK c \in Commands[p] :
          /\ cmd' = [cmd EXCEPT ![p] = c]
          /\ \E l \in IF Switched THEN Layouts ELSE {layout[p]} :
               layout' = [layout EXCEPT ![p] = l]
          /\ at' = [at EXCEPT ![p] = IF c = "import only" THEN "fetch" ELSE "list"]
    BY <1>2 DEF Begin
  <2>2. c \in {"import", "import only", "sync", "prune"}
    BY <1>0, <2>1
  <2>3. layout' \in [Proc -> BOOLEAN]
    BY <1>0, <2>1 DEF FilesTyped
  <2>4. side' = [side EXCEPT ![p] = "source"]
        /\ UNCHANGED <<mode, org, store, files, todo, writes, open, steady>>
    BY <1>2 DEF Begin
  <2>5. mem' \in [Proc -> [Origin -> State]]
    <3>1. [o \in Origin |-> Empty] \in [Origin -> State]
      BY <1>0
    <3>2. mem' = [mem EXCEPT ![p] = [o \in Origin |-> Empty]]
      BY <1>2 DEF Begin
    <3>3. QED BY <3>1, <3>2 DEF FilesTyped
  <2>6. QED BY <1>0, <2>1, <2>2, <2>3, <2>4, <2>5 DEF FilesTyped
<1>3. ASSUME NEW p \in Proc, List(p) PROVE FilesTyped'
  <2>1. FilesOf(side[p]) \subseteq File
        /\ Present(store, side[p]) \subseteq Id
    BY DEF FilesOf, Present, FilesTyped
  <2>2. QED BY <1>3, <2>1 DEF List, FilesTyped
<1>4. ASSUME NEW p \in Proc, NEW f \in File, Read(p, f) PROVE FilesTyped'
  <2>1. f[1] \in Origin
    BY DEF File
  <2>2. mem[p][f[1]] \in State /\ store[f] \in State
    BY <2>1 DEF FilesTyped
  <2>3. Merged(mem[p][f[1]], store[f]) \in State
    BY <2>2, MergedIs
  <2>4. mem' \in [Proc -> [Origin -> State]]
    <3>1. \/ mem' = mem
          \/ mem' = [mem EXCEPT ![p][f[1]] = Merged(mem[p][f[1]], store[f])]
      BY <1>4 DEF Read
    <3>2. [mem[p] EXCEPT ![f[1]] = Merged(mem[p][f[1]], store[f])]
            \in [Origin -> State]
      BY <2>1, <2>3 DEF FilesTyped
    <3>3. QED BY <3>1, <3>2 DEF FilesTyped
  <2>5. todo' \in [Proc -> SUBSET File]
    <3>1. \/ todo' = [todo EXCEPT ![p] = {}]
          \/ todo' = [todo EXCEPT ![p] = @ \ {f}]
      BY <1>4 DEF Read
    <3>2. QED BY <3>1 DEF FilesTyped
  <2>6. /\ at' = at \/ at' = [at EXCEPT ![p] = "idle"]
        /\ UNCHANGED <<mode, org, store, files, layout, cmd, side, writes,
                       open, steady>>
    BY <1>4 DEF Read
  <2>7. QED BY <2>4, <2>5, <2>6 DEF FilesTyped
<1>5. ASSUME NEW p \in Proc, NEW f \in File, Delete(p, f) PROVE FilesTyped'
  <2>1. steady' \in [Proc -> SUBSET Id]
    BY <1>5 DEF Delete, KeepSteady, FilesTyped
  <2>2. QED BY <1>0, <1>5, <2>1 DEF Delete, FilesTyped
<1>6. ASSUME NEW p \in Proc,
             Loaded(p) \/ Dumped(p) \/ Pruned(p) \/ End(p)
      PROVE  FilesTyped'
  <2>1. PICK step \in {"idle", "list", "apply", "fetch", "compute", "delete",
                       "done"} :
          at' = [at EXCEPT ![p] = step]
    BY <1>6 DEF Loaded, Dumped, Pruned, End
  <2>2. \/ side' = side
        \/ \E o \in {"source", "destination"} :
             side' = [side EXCEPT ![p] = o]
    BY <1>6 DEF Loaded, Dumped, Pruned, End
  <2>3. steady' = steady \/ steady' = [steady EXCEPT ![p] = {}]
    BY <1>6 DEF Loaded, Dumped, Pruned, End
  <2>4. /\ UNCHANGED <<mode, org, store, files, layout, cmd, mem, writes, open>>
        /\ todo' = todo \/ todo' = [todo EXCEPT ![p] = {}]
    BY <1>6 DEF Loaded, Dumped, Pruned, End
  <2>9. todo' \in [Proc -> SUBSET File]
    BY <2>4 DEF FilesTyped
  <2>5. at' \in [Proc -> {"idle", "list", "read", "fetch", "apply", "dump", "put",
                          "compute", "fence", "delete", "done"}]
    BY <2>1 DEF FilesTyped
  <2>6. side' \in [Proc -> Origin]
    <3>1. "source" \in Origin /\ "destination" \in Origin
      BY <1>0
    <3>2. QED BY <2>2, <3>1 DEF FilesTyped
  <2>7. steady' \in [Proc -> SUBSET Id]
    BY <2>3 DEF FilesTyped
  <2>8. QED BY <2>4, <2>5, <2>6, <2>7, <2>9 DEF FilesTyped
<1>7. ASSUME NEW p \in Proc, Fetch(p) PROVE FilesTyped'
  <2>1. mem' \in [Proc -> [Origin -> State]]
    BY <1>0, <1>7 DEF Fetch, FilesTyped
  <2>2. QED BY <1>7, <2>1 DEF Fetch, FilesTyped
<1>8. ASSUME NEW p \in Proc, Apply(p) PROVE FilesTyped'
  <2>1. mem[p]["destination"] \in State /\ mem[p]["source"] \in State
    BY <1>0 DEF FilesTyped
  <2>2. Merged(mem[p]["destination"], mem[p]["source"]) \in State
    BY <2>1, MergedIs
  <2>3. mem' \in [Proc -> [Origin -> State]]
    BY <1>0, <1>8, <2>2 DEF Apply, FilesTyped
  <2>4. QED BY <1>8, <2>3 DEF Apply, FilesTyped
<1>9. ASSUME NEW p \in Proc, Dump(p) PROVE FilesTyped'
  <2>1. writes' \in [Proc -> SUBSET Put]
    <3>1. writes' = [writes EXCEPT ![p] = writes'[p]] /\ writes'[p] \subseteq Put
      BY <1>9, DumpIs, DumpPuts
    <3>2. QED BY <3>1 DEF FilesTyped
  <2>2. /\ at' = [at EXCEPT ![p] = "put"]
        /\ UNCHANGED <<mode, org, removed, store, files, layout, cmd, side,
                       mem, todo, open, steady>>
    BY <1>9 DEF Dump
  <2>3. QED BY <2>1, <2>2 DEF FilesTyped
<1>10. ASSUME NEW p \in Proc, NEW w \in writes[p],
              Truncate(p, w) \/ Write(p, w)
       PROVE  FilesTyped'
  <2>1. w \in Put
    BY DEF FilesTyped
  <2>0. w.file \in File /\ w.content \in State
    BY <2>1 DEF Put
  <2>2. CASE Truncate(p, w)
    BY <1>0, <2>0, <2>1, <2>2 DEF Truncate, FilesTyped
  <2>3. CASE Write(p, w)
    <3>1. steady' \in [Proc -> SUBSET Id]
      BY <2>3 DEF Write, KeepSteady, FilesTyped
    <3>2. QED BY <2>0, <2>3, <3>1 DEF Write, FilesTyped
  <2>4. QED BY <1>10, <2>2, <2>3
<1>11. ASSUME NEW p \in Proc, Compute(p) \/ Fence(p) PROVE FilesTyped'
  <2>1. \A o \in Origin : Stale(p, o) \subseteq File
    BY DEF Stale, FilesOf, FilesTyped
  <2>2. todo' \in [Proc -> SUBSET File]
    <3>1. CASE Compute(p)
      <4>1. todo' = [todo EXCEPT ![p] = Stale(p, "source") \cup
              (IF cmd[p] = "prune" THEN Stale(p, "destination") ELSE {})]
        BY <3>1 DEF Compute
      <4>2. QED BY <1>0, <2>1, <4>1 DEF FilesTyped
    <3>2. CASE Fence(p)
      <4>1. \/ todo' = [todo EXCEPT ![p] = @ \cap
                  (Stale(p, "source") \cup Stale(p, "destination"))]
            \/ todo' = [todo EXCEPT ![p] = {}]
        BY <3>2 DEF Fence
      <4>2. QED BY <4>1 DEF FilesTyped
    <3>3. QED BY <1>11, <3>1, <3>2
  <2>3. QED BY <1>11, <2>2 DEF Compute, Fence, FilesTyped
<1>12. CASE UNCHANGED filesVars
  BY <1>12 DEF filesVars, FilesTyped
<1>13. QED
  BY <1>1, <1>2, <1>3, <1>4, <1>5, <1>6, <1>7, <1>8, <1>9, <1>10, <1>11, <1>12
  DEF FilesNext, Step

\* What a step of one process leaves to the others.
Framed(p) ==
  /\ mode' = mode
  /\ \A q \in Proc \ {p} :
       /\ at'[q] = at[q] /\ cmd'[q] = cmd[q]
       /\ layout'[q] = layout[q] /\ side'[q] = side[q]
       /\ mem'[q] = mem[q] /\ todo'[q] = todo[q]
       /\ writes'[q] = writes[q] /\ open'[q] = open[q]

LEMMA Frame ==
  ASSUME FilesTyped, NEW p \in Proc, Step(p)
  PROVE  Framed(p)
<1> USE DEF Goto, orgVars, diskVars, runVars,
            putVars, Framed
<1>0. /\ DOMAIN at = Proc /\ DOMAIN cmd = Proc /\ DOMAIN layout = Proc
      /\ DOMAIN side = Proc /\ DOMAIN mem = Proc /\ DOMAIN todo = Proc
      /\ DOMAIN writes = Proc /\ DOMAIN open = Proc
  BY DEF FilesTyped
<1>1. CASE Begin(p)
  BY <1>0, <1>1 DEF Begin
<1>2. CASE List(p)
  BY <1>0, <1>2 DEF List
<1>3. ASSUME NEW f \in File, Read(p, f)
      PROVE  Framed(p)
  BY <1>0, <1>3 DEF Read
<1>4. ASSUME NEW f \in File, Delete(p, f)
      PROVE  Framed(p)
  BY <1>0, <1>4 DEF Delete
<1>5. CASE Loaded(p) \/ Dumped(p) \/ Pruned(p) \/ End(p)
  BY <1>0, <1>5 DEF Loaded, Dumped, Pruned, End
<1>6. CASE Fetch(p) \/ Apply(p)
  BY <1>0, <1>6 DEF Fetch, Apply
<1>7. CASE Dump(p)
  <2>1. /\ at' = [at EXCEPT ![p] = "put"]
        /\ UNCHANGED <<mode, org, layout, cmd, side, mem, todo, open>>
    BY <1>7 DEF Dump
  <2>2. \A q \in Proc \ {p} : writes'[q] = writes[q]
    BY <1>0, <1>7 DEF Dump
  <2>3. QED BY <1>0, <2>1, <2>2
<1>8. ASSUME NEW w \in writes[p], Truncate(p, w) \/ Write(p, w)
      PROVE  Framed(p)
  BY <1>0, <1>8 DEF Truncate, Write
<1>9. CASE Compute(p) \/ Fence(p)
  BY <1>0, <1>9 DEF Compute, Fence
<1>10. QED
  BY <1>1, <1>2, <1>3, <1>4, <1>5, <1>6, <1>7, <1>8, <1>9 DEF Step

\* The steps that change nothing of the files: the source organization's, and
\* none at all.
LEMMA NextIs ==
  ASSUME [FilesNext]_filesVars
  PROVE  \/ \E p \in Proc : Step(p)
         \/ UNCHANGED <<mode, store, files, layout, cmd, at, side, mem,
                        todo, writes, open, steady>>
<1>1. ASSUME NEW i \in Id, SourceChanges(i)
      PROVE  UNCHANGED <<mode, store, files, layout, cmd, at, side, mem,
                         todo, writes, open, steady>>
  BY <1>1 DEF SourceChanges, diskVars, runVars, putVars
<1>2. CASE UNCHANGED filesVars
  BY <1>2 DEF filesVars, orgVars, diskVars, runVars,
              putVars
<1>3. QED BY <1>1, <1>2 DEF FilesNext

\* What a process has in hand it has only in the steps that deal with it.
InHand(p) ==
  /\ at[p] # "idle" => cmd[p] \in Commands[p]
  /\ at[p] \notin {"read", "fence", "delete", "done"} => todo[p] = {}
  /\ at[p] # "put" => writes[p] = {}
  /\ open[p] \subseteq writes[p]

LEMMA InHandOwn ==
  ASSUME FilesTyped, NEW p \in Proc, InHand(p), Step(p)
  PROVE  InHand(p)'
<1> USE DEF Goto, orgVars, diskVars, runVars,
            putVars
<1>0. /\ DOMAIN at = Proc /\ DOMAIN cmd = Proc /\ DOMAIN todo = Proc
      /\ DOMAIN writes = Proc /\ DOMAIN open = Proc
  BY DEF FilesTyped
<1>a. mode' = mode => Commands' = Commands
  BY DEF Commands
<1>1. CASE Begin(p)
  <2>1. PICK c \in Commands[p] : cmd' = [cmd EXCEPT ![p] = c]
    BY <1>1 DEF Begin
  <2>2. /\ at[p] = "idle" /\ UNCHANGED <<mode, todo, writes, open>>
        /\ at'[p] \in {"fetch", "list"}
    BY <1>0, <1>1 DEF Begin
  <2>3. QED BY <1>0, <1>a, <2>1, <2>2 DEF InHand
<1>2. CASE List(p)
  BY <1>0, <1>a, <1>2 DEF List, InHand
<1>3. ASSUME NEW f \in File, Read(p, f) PROVE InHand(p)'
  BY <1>0, <1>a, <1>3 DEF Read, InHand
<1>4. ASSUME NEW f \in File, Delete(p, f) PROVE InHand(p)'
  BY <1>0, <1>a, <1>4 DEF Delete, InHand
<1>5. CASE Loaded(p)
  BY <1>0, <1>a, <1>5 DEF Loaded, InHand
<1>6. CASE Dumped(p) \/ Pruned(p) \/ End(p)
  BY <1>0, <1>a, <1>6 DEF Dumped, Pruned, End, InHand
<1>7. CASE Fetch(p) \/ Apply(p)
  BY <1>0, <1>a, <1>7 DEF Fetch, Apply, InHand
<1>8. CASE Dump(p)
  <2>1. /\ at' = [at EXCEPT ![p] = "put"] /\ at[p] = "dump"
        /\ UNCHANGED <<mode, cmd, todo, open>>
    BY <1>8 DEF Dump
  <2>2. QED BY <1>0, <1>a, <2>1 DEF InHand
<1>9. ASSUME NEW w \in writes[p], Truncate(p, w) PROVE InHand(p)'
  BY <1>0, <1>a, <1>9 DEF Truncate, IsNext, InHand
<1>10. ASSUME NEW w \in writes[p], Write(p, w) PROVE InHand(p)'
  BY <1>0, <1>a, <1>10 DEF Write, IsNext, InHand
<1>11. CASE Compute(p) \/ Fence(p)
  BY <1>0, <1>a, <1>11 DEF Compute, Fence, InHand
<1>12. QED
  BY <1>1, <1>2, <1>3, <1>4, <1>5, <1>6, <1>7, <1>8, <1>9, <1>10, <1>11
  DEF Step

\* No step puts anything else in hand.
LEMMA InHandStep ==
  ASSUME FilesTyped, \A q \in Proc : InHand(q), [FilesNext]_filesVars,
         NEW p \in Proc
  PROVE  InHand(p)'
<1>0. mode' = mode => Commands' = Commands
  BY DEF Commands
<1>1. ASSUME NEW q \in Proc, Step(q) PROVE InHand(p)'
  <2>1. CASE p = q
    BY <1>1, <2>1, InHandOwn
  <2>2. CASE p # q
    <3>1. Framed(q)
      BY <1>1, Frame
    <3>2. InHand(p)
      OBVIOUS
    <3>3. QED BY <1>0, <2>2, <3>1, <3>2 DEF Framed, InHand
  <2>3. QED BY <2>1, <2>2
<1>2. CASE UNCHANGED <<mode, store, files, layout, cmd, at, side, mem,
                       todo, writes, open, steady>>
  BY <1>0, <1>2 DEF InHand
<1>3. QED BY <1>1, <1>2, NextIs

\* A file that does not exist has no entries.
Exists == \A f \in File : f \notin files => store[f] = Empty

\* The steps that change the files.
LEMMA DiskSteps ==
  ASSUME [FilesNext]_filesVars
  PROVE  \/ \E p \in Proc : \E f \in File : Delete(p, f)
         \/ \E p \in Proc : \E w \in writes[p] :
              Truncate(p, w) \/ Write(p, w)
         \/ store' = store /\ files' = files
<1> USE DEF diskVars
<1>1. ASSUME NEW p \in Proc, Step(p),
             ~\E f \in File : Delete(p, f),
             ~\E w \in writes[p] : Truncate(p, w) \/ Write(p, w)
      PROVE  store' = store /\ files' = files
  <2>1. CASE Begin(p) \/ List(p) \/ \E f \in File : Read(p, f)
    BY <2>1 DEF Begin, List, Read
  <2>2. CASE Loaded(p) \/ Fetch(p) \/ Apply(p) \/ Dump(p)
    BY <2>2 DEF Loaded, Fetch, Apply, Dump
  <2>3. CASE Dumped(p) \/ Compute(p) \/ Fence(p)
             \/ Pruned(p) \/ End(p)
    BY <2>3 DEF Dumped, Compute, Fence, Pruned, End
  <2>4. QED BY <1>1, <2>1, <2>2, <2>3 DEF Step
<1>2. QED BY <1>1, NextIs

LEMMA ExistsStep ==
  ASSUME FilesTyped, Exists, [FilesNext]_filesVars
  PROVE  Exists'
<1>0. store \in [File -> State] /\ files \subseteq File
  BY DEF FilesTyped
<1>a. Empty' = Empty /\ File' = File
  BY DEF Empty, File, Origin
<1>1. ASSUME NEW p \in Proc, NEW f \in File, Delete(p, f) PROVE Exists'
  BY <1>0, <1>a, <1>1 DEF Delete, Exists
<1>2. ASSUME NEW p \in Proc, NEW w \in writes[p], Truncate(p, w) PROVE Exists'
  BY <1>0, <1>a, <1>2 DEF Truncate, Exists
<1>3. ASSUME NEW p \in Proc, NEW w \in writes[p], Write(p, w) PROVE Exists'
  <2>1. \/ store' = [store EXCEPT ![w.file] = w.content]
           /\ files' = files \cup {w.file}
        \/ store' = store /\ files' = files
    BY <1>3 DEF Write, diskVars
  <2>2. QED BY <1>0, <1>a, <2>1 DEF Exists
<1>4. CASE store' = store /\ files' = files
  BY <1>a, <1>4 DEF Exists
<1>5. QED BY <1>1, <1>2, <1>3, <1>4, DiskSteps

\* In one layout an id has its entries in one file of each origin.
Housed(p) ==
  /\ \A q \in Proc : layout[q] = layout[p]
  /\ cmd[p] = "prune" => layout[p]
  /\ \A f \in files : f[2] = Whole <=> ~layout[p]
  /\ \A f \in File, i \in Id : store[f][i] # 0 => f[2] = Home(p, i)
  /\ \A w \in writes[p] :
       /\ w.file[2] = Whole <=> ~layout[p]
       /\ \A i \in Id : w.content[i] # 0 => w.file[2] = Home(p, i)

\* The layout changes between two commands only, where it may.
LEMMA LayoutKept ==
  ASSUME FilesTyped, ~Switched, [FilesNext]_filesVars
  PROVE  layout' = layout
<1> USE DEF runVars
<1>1. ASSUME NEW p \in Proc, Step(p) PROVE layout' = layout
  <2>1. CASE Begin(p)
    <3>1. layout' = [layout EXCEPT ![p] = layout[p]]
      BY <2>1 DEF Begin
    <3>2. QED BY <3>1 DEF FilesTyped
  <2>2. CASE List(p) \/ \E f \in File : Read(p, f) \/ Delete(p, f)
    BY <2>2 DEF List, Read, Delete
  <2>3. CASE Loaded(p) \/ Fetch(p) \/ Apply(p) \/ Dump(p)
    BY <2>3 DEF Loaded, Fetch, Apply, Dump
  <2>4. CASE \E w \in writes[p] : Truncate(p, w) \/ Write(p, w)
    BY <2>4 DEF Truncate, Write
  <2>5. CASE Dumped(p) \/ Compute(p) \/ Fence(p)
             \/ Pruned(p) \/ End(p)
    BY <2>5 DEF Dumped, Compute, Fence, Pruned, End
  <2>6. QED BY <1>1, <2>1, <2>2, <2>3, <2>4, <2>5 DEF Step
<1>2. QED BY <1>1, NextIs

\* What a process has to write only its own dump adds to.
LEMMA WritesShrink ==
  ASSUME FilesTyped, NEW p \in Proc, Step(p)
  PROVE  Dump(p) \/ writes'[p] \subseteq writes[p]
<1> USE DEF putVars
<1>0. DOMAIN writes = Proc
  BY DEF FilesTyped
<1>1. CASE Begin(p) \/ List(p)
           \/ \E f \in File : Read(p, f) \/ Delete(p, f)
  BY <1>1 DEF Begin, List, Read, Delete
<1>2. CASE Loaded(p) \/ Fetch(p) \/ Apply(p)
  BY <1>2 DEF Loaded, Fetch, Apply
<1>3. CASE \E w \in writes[p] : Truncate(p, w) \/ Write(p, w)
  BY <1>0, <1>3 DEF Truncate, Write
<1>4. CASE Dumped(p) \/ Compute(p) \/ Fence(p)
           \/ Pruned(p) \/ End(p)
  BY <1>4 DEF Dumped, Compute, Fence, Pruned, End
<1>5. QED BY <1>1, <1>2, <1>3, <1>4 DEF Step

\* What a dump writes has its place.
LEMMA DumpHoused ==
  ASSUME FilesTyped, NEW p \in Proc, Dump(p),
         NEW w \in writes'[p]
  PROVE  /\ w.file[2] = Whole <=> ~layout[p]
         /\ \A i \in Id : w.content[i] # 0 => w.file[2] = Home(p, i)
<1>1. PICK o \in Origin, r \in 1..3 :
        \E ids \in Winners(mem[p][o]) :
          w \in WritesOf(layout[p], o, r, mem[p][o], ids)
  BY DumpIs
<1>2. PICK ids \in Winners(mem[p][o]) :
        w \in WritesOf(layout[p], o, r, mem[p][o], ids)
  BY <1>1
<1>3. /\ mode \in Modes /\ layout[p] \in BOOLEAN
      /\ mem[p][o] \in State
  BY DEF FilesTyped
<1>4. /\ ~layout[p] => w.file = <<o, Whole>>
      /\ layout[p] => \E j \in Id : /\ mem[p][o][j] # 0
                                    /\ w.file = <<o, Safe[j]>>
                                    /\ w.content = One(mem[p][o], j)
  BY <1>2, <1>3, WritesAre
<1>5. CASE ~layout[p]
  BY <1>4, <1>5 DEF Home
<1>6. CASE layout[p]
  <2>1. PICK j \in Id : /\ w.file = <<o, Safe[j]>>
                        /\ w.content = One(mem[p][o], j)
    BY <1>4, <1>6
  <2>2. Safe[j] \in FileName /\ Whole \notin FileName /\ MaxVersion \in Nat
    BY <1>3, SharingIs
  <2>3. \A i \in Id : w.content[i] # 0 => i = j
    BY <1>3, <2>1, <2>2, OnlyIs DEF One
  <2>4. QED BY <1>6, <2>1, <2>2, <2>3 DEF Home
<1>7. QED BY <1>3, <1>5, <1>6

\* No step takes an entry to a second file.
LEMMA HousedStep ==
  ASSUME FilesTyped, ~Switched,
         \A q \in Proc : Housed(q), [FilesNext]_filesVars, NEW p \in Proc
  PROVE  Housed(p)'
<1>0. /\ store \in [File -> State] /\ files \subseteq File
      /\ layout \in [Proc -> BOOLEAN] /\ writes \in [Proc -> SUBSET Put]
  BY DEF FilesTyped
<1>1. layout' = layout /\ mode' = mode
  <2>1. mode' = mode
    BY NextIs, Frame DEF Framed
  <2>2. QED BY <2>1, LayoutKept
<1>2. \A i \in Id, q \in Proc : Home(q, i) = Home(p, i) /\ Home(p, i)' = Home(p, i)
  BY <1>1 DEF Housed, Home, Safe
<1>3. File' = File
  BY DEF File, Origin
<1>4. cmd'[p] = "prune" => layout[p]
  <2>1. ASSUME NEW q \in Proc, Step(q) PROVE cmd'[p] = "prune" => layout[p]
    <3>1. CASE Begin(q)
      <4>1. PICK c \in Commands[q] :
              /\ cmd' = [cmd EXCEPT ![q] = c]
              /\ c = "prune" => layout[q]
        BY <3>1 DEF Begin
      <4>2. QED BY <4>1 DEF Housed, FilesTyped
    <3>2. CASE ~Begin(q)
      <4>1. cmd' = cmd
        BY <2>1, <3>2
        DEF Step, List, Read, Delete, Loaded,
            Fetch, Apply, Dump, Truncate, Write,
            Dumped, Compute, Fence, Pruned, End,
            runVars
      <4>2. QED BY <4>1 DEF Housed
    <3>3. QED BY <3>1, <3>2
  <2>2. QED BY <2>1, NextIs DEF Housed
<1>5. /\ \A f \in files' : f[2] = Whole <=> ~layout[p]
      /\ \A f \in File, i \in Id : store'[f][i] # 0 => f[2] = Home(p, i)
  <2>1. ASSUME NEW q \in Proc, NEW g \in File, Delete(q, g)
        PROVE  /\ \A f \in files' : f[2] = Whole <=> ~layout[p]
               /\ \A f \in File, i \in Id : store'[f][i] # 0 => f[2] = Home(p, i)
    <3>1. files' \subseteq files /\ store' = [store EXCEPT ![g] = Empty]
      BY <2>1 DEF Delete
    <3>2. \A i \in Id : Empty[i] = 0
      BY DEF Empty
    <3>3. QED BY <1>0, <3>1, <3>2 DEF Housed
  <2>2. ASSUME NEW q \in Proc, NEW w \in writes[q], Truncate(q, w) \/ Write(q, w)
        PROVE  /\ \A f \in files' : f[2] = Whole <=> ~layout[p]
               /\ \A f \in File, i \in Id : store'[f][i] # 0 => f[2] = Home(p, i)
    <3>1. /\ files' \subseteq files \cup {w.file}
          /\ \/ store' = [store EXCEPT ![w.file] = Empty]
             \/ store' = [store EXCEPT ![w.file] = w.content]
             \/ store' = store
      BY <2>2 DEF Truncate, Write, diskVars
    <3>2. \A i \in Id : Empty[i] = 0
      BY DEF Empty
    <3>3. /\ w.file[2] = Whole <=> ~layout[p]
          /\ \A i \in Id : w.content[i] # 0 => w.file[2] = Home(p, i)
      BY <1>2 DEF Housed
    <3>4. \A f \in files' : f[2] = Whole <=> ~layout[p]
      BY <3>1, <3>3 DEF Housed
    <3>5. ASSUME NEW f \in File, NEW i \in Id, store'[f][i] # 0
          PROVE  f[2] = Home(p, i)
      BY <1>0, <3>1, <3>2, <3>3, <3>5 DEF Housed
    <3>6. QED BY <3>4, <3>5
  <2>3. CASE store' = store /\ files' = files
    BY <2>3 DEF Housed
  <2>4. QED BY <2>1, <2>2, <2>3, DiskSteps
<1>6. ASSUME NEW w \in writes'[p]
      PROVE  /\ w.file[2] = Whole <=> ~layout[p]
             /\ \A i \in Id : w.content[i] # 0 => w.file[2] = Home(p, i)
  <2>1. CASE w \in writes[p]
    BY <2>1 DEF Housed
  <2>2. CASE w \notin writes[p]
    <3>1. Dump(p)
      BY <1>6, <2>2, NextIs, Frame, WritesShrink DEF Framed
    <3>2. QED BY <3>1, DumpHoused
  <2>3. QED BY <2>1, <2>2
<1>7. QED
  BY <1>1, <1>2, <1>3, <1>4, <1>5, <1>6 DEF Housed

\* A steady entry is in memory, or in a file that is still to be read.
Seen(p) ==
  at[p] = "read" => \A i \in steady[p] :
    \/ mem[p][side[p]][i] # 0
    \/ \E f \in todo[p] : f[1] = side[p] /\ store[f][i] # 0

\* The steps after which a process is reading.
LEMMA Reads ==
  ASSUME FilesTyped, NEW p \in Proc, Step(p), at'[p] = "read"
  PROVE  List(p) \/ \E f \in File : Read(p, f)
<1> USE DEF Goto
<1>0. DOMAIN at = Proc
  BY DEF FilesTyped
<1>1. CASE Begin(p)
  BY <1>0, <1>1 DEF Begin
<1>2. CASE Loaded(p) \/ Fetch(p) \/ Apply(p)
  BY <1>0, <1>2 DEF Loaded, Fetch, Apply
<1>3. CASE Dump(p)
  <2>1. at' = [at EXCEPT ![p] = "put"]
    BY <1>3 DEF Dump
  <2>2. QED BY <1>0, <2>1
<1>4. CASE \E w \in writes[p] : Truncate(p, w) \/ Write(p, w)
  BY <1>4 DEF Truncate, Write, IsNext
<1>5. CASE \E f \in File : Delete(p, f)
  BY <1>5 DEF Delete
<1>6. CASE Dumped(p) \/ Pruned(p) \/ End(p)
  BY <1>0, <1>6 DEF Dumped, Pruned, End
<1>7. CASE Compute(p) \/ Fence(p)
  BY <1>0, <1>7 DEF Compute, Fence
<1>8. QED BY <1>1, <1>2, <1>3, <1>4, <1>5, <1>6, <1>7 DEF Step

\* The one file that a step changes, and what stays steady.
LEMMA OneFile ==
  ASSUME FilesTyped, ~Local, NEW q \in Proc, Step(q), NEW p \in Proc,
         p # q
  PROVE  \/ store' = store /\ steady'[p] = steady[p]
         \/ \E g \in File :
              /\ \A f \in File \ {g} : store'[f] = store[f]
              /\ at[p] = "read" /\ side[p] = g[1] =>
                   steady'[p] = steady[p] \cap Present(store', g[1])
              /\ side[p] # g[1] => steady'[p] = steady[p]
<1>0. /\ store \in [File -> State] /\ steady \in [Proc -> SUBSET Id]
      /\ writes \in [Proc -> SUBSET Put]
  BY DEF FilesTyped
<1> USE DEF diskVars, runVars
<1>1. CASE List(q)
  BY <1>0, <1>1 DEF List
<1>2. CASE Loaded(q)
  BY <1>0, <1>2 DEF Loaded
<1>3. CASE Begin(q) \/ \E f \in File : Read(q, f)
  BY <1>3 DEF Begin, Read
<1>4. CASE Fetch(q) \/ Apply(q) \/ Dump(q)
  BY <1>4 DEF Fetch, Apply, Dump
<1>5. CASE Dumped(q) \/ Compute(q) \/ Fence(q)
           \/ Pruned(q) \/ End(q)
  BY <1>5 DEF Dumped, Compute, Fence, Pruned, End
<1>6. ASSUME NEW g \in File, Delete(q, g)
      PROVE  /\ \A f \in File \ {g} : store'[f] = store[f]
             /\ at[p] = "read" /\ side[p] = g[1] =>
                  steady'[p] = steady[p] \cap Present(store', g[1])
             /\ side[p] # g[1] => steady'[p] = steady[p]
  <2>1. /\ store' = [store EXCEPT ![g] = Empty]
        /\ KeepSteady(g[1])
    BY <1>6 DEF Delete
  <2>2. QED BY <1>0, <2>1 DEF KeepSteady
<1>7. ASSUME NEW w \in writes[q], Truncate(q, w) \/ Write(q, w)
      PROVE  /\ w.file \in File
             /\ \A f \in File \ {w.file} : store'[f] = store[f]
             /\ at[p] = "read" /\ side[p] = w.file[1] =>
                  steady'[p] = steady[p] \cap Present(store', w.file[1])
             /\ side[p] # w.file[1] => steady'[p] = steady[p]
  <2>1. Write(q, w)
    BY <1>7 DEF Truncate, Truncates
  <2>2. w.file \in File
    BY <1>0 DEF Put
  <2>3. /\ store' = [store EXCEPT ![w.file] = w.content]
        /\ KeepSteady(w.file[1])
    BY <2>1 DEF Write, Truncates
  <2>4. QED BY <1>0, <2>2, <2>3 DEF KeepSteady
<1>8. QED BY <1>1, <1>2, <1>3, <1>4, <1>5, <1>6, <1>7 DEF Step

LEMMA SeenStep ==
  ASSUME FilesTyped, FilesTyped', Exists,
         ~Local, ~Switched,
         \A q \in Proc : Housed(q) /\ Seen(q),
         [FilesNext]_filesVars, NEW p \in Proc
  PROVE  Seen(p)'
<1>0. /\ store \in [File -> State] /\ files \subseteq File
      /\ side \in [Proc -> Origin] /\ todo \in [Proc -> SUBSET File]
      /\ steady \in [Proc -> SUBSET Id]
      /\ mem \in [Proc -> [Origin -> State]]
  BY DEF FilesTyped
<1>1. CASE Step(p)
  <2> SUFFICES ASSUME at'[p] = "read" PROVE Seen(p)'
    BY DEF Seen
  <2>1. CASE List(p)
    <3>1. /\ todo' = [todo EXCEPT ![p] = FilesOf(side[p])]
          /\ steady' = [steady EXCEPT ![p] = Present(store, side[p])]
          /\ UNCHANGED <<store, side, mem>>
      BY <2>1 DEF List, diskVars, runVars
    <3>2. todo'[p] = FilesOf(side[p])
          /\ steady'[p] = Present(store, side[p])
      BY <1>0, <3>1
    <3>3. ASSUME NEW i \in steady'[p]
          PROVE  \E f \in todo'[p] : f[1] = side[p] /\ store[f][i] # 0
      <4>1. i \in Id
            /\ \E n \in FileName \cup {Whole} : store[<<side[p], n>>][i] # 0
        BY <3>2 DEF Present
      <4>2. PICK n \in FileName \cup {Whole} : store[<<side[p], n>>][i] # 0
        BY <4>1
      <4>3. <<side[p], n>> \in File
        BY <1>0 DEF File
      <4>4. <<side[p], n>> \in files
        BY <4>1, <4>2, <4>3 DEF Exists, Empty
      <4>5. <<side[p], n>> \in todo'[p] /\ <<side[p], n>>[1] = side[p]
        BY <3>2, <4>4 DEF FilesOf
      <4>6. QED BY <4>2, <4>5
    <3>4. QED BY <3>1, <3>3 DEF Seen
  <2>2. ASSUME NEW f \in File, Read(p, f) PROVE Seen(p)'
    <3>1. /\ mem' = [mem EXCEPT ![p][f[1]] = Merged(mem[p][f[1]], store[f])]
          /\ todo' = [todo EXCEPT ![p] = @ \ {f}]
          /\ UNCHANGED <<store, side, steady>> /\ at[p] = "read"
      BY <2>2 DEF Read, diskVars, runVars
    <3>2. f[1] \in Origin /\ side[p] \in Origin
      BY <1>0 DEF File
    <3>3. /\ mem'[p] = [mem[p] EXCEPT ![f[1]] = Merged(mem[p][f[1]], store[f])]
          /\ todo'[p] = todo[p] \ {f}
      BY <1>0, <3>1
    <3>4. \A i \in Id : Merged(mem[p][f[1]], store[f])[i] =
                          IF store[f][i] # 0 THEN store[f][i] ELSE mem[p][f[1]][i]
      BY <1>0, <3>2, MergedIs
    <3>5. ASSUME NEW i \in steady[p]
          PROVE  \/ mem'[p][side[p]][i] # 0
                 \/ \E g \in todo'[p] : g[1] = side[p] /\ store[g][i] # 0
      <4>1. i \in Id
        BY <1>0
      <4>2. CASE f[1] = side[p]
        <5>1. mem'[p][side[p]][i] =
                IF store[f][i] # 0 THEN store[f][i] ELSE mem[p][side[p]][i]
          BY <1>0, <3>2, <3>3, <3>4, <4>1, <4>2
        <5>2. QED BY <3>1, <3>3, <5>1 DEF Seen
      <4>3. CASE f[1] # side[p]
        <5>1. mem'[p][side[p]] = mem[p][side[p]]
          BY <1>0, <3>2, <3>3, <4>3
        <5>2. QED BY <3>1, <3>3, <4>3, <5>1 DEF Seen
      <4>4. QED BY <4>2, <4>3
    <3>6. QED BY <3>1, <3>5 DEF Seen
  <2>3. QED BY <1>1, <2>1, <2>2, Reads
<1>2. ASSUME NEW q \in Proc, Step(q), p # q PROVE Seen(p)'
  <2>1. /\ at'[p] = at[p] /\ side'[p] = side[p] /\ mem'[p] = mem[p]
        /\ todo'[p] = todo[p]
    BY <1>2, Frame DEF Framed
  <2>2. CASE store' = store /\ steady'[p] = steady[p]
    <3>1. ASSUME at[p] = "read", NEW i \in steady[p]
          PROVE  \/ mem[p][side[p]][i] # 0
                 \/ \E f \in todo[p] : f[1] = side[p] /\ store[f][i] # 0
      BY <3>1 DEF Seen
    <3>2. QED BY <2>1, <2>2, <3>1 DEF Seen
  <2>3. ASSUME NEW g \in File,
               \A f \in File \ {g} : store'[f] = store[f],
               at[p] = "read" /\ side[p] = g[1] =>
                 steady'[p] = steady[p] \cap Present(store', g[1]),
               side[p] # g[1] => steady'[p] = steady[p]
        PROVE  Seen(p)'
    <3> SUFFICES ASSUME at[p] = "read", NEW i \in steady'[p]
                 PROVE  \/ mem[p][side[p]][i] # 0
                        \/ \E f \in todo[p] : f[1] = side[p] /\ store'[f][i] # 0
      BY <2>1 DEF Seen
    <3>1. i \in steady[p] /\ i \in Id
      BY <1>0, <2>3
    <3>2. ASSUME mem[p][side[p]][i] = 0
          PROVE  \E f \in todo[p] : f[1] = side[p] /\ store'[f][i] # 0
      <4>1. PICK f \in todo[p] : f[1] = side[p] /\ store[f][i] # 0
        BY <3>1, <3>2 DEF Seen
      <4>2. f \in File
        BY <1>0
      <4>3. CASE f # g
        BY <2>3, <4>1, <4>2, <4>3
      <4>4. CASE f = g
        <5>1. i \in Present(store', g[1])
          BY <2>3, <4>1, <4>4
        <5>2. PICK n \in FileName \cup {Whole} : store'[<<g[1], n>>][i] # 0
          BY <5>1 DEF Present
        <5>3. <<g[1], n>> \in File /\ g = <<g[1], g[2]>>
          BY DEF File
        <5>4. CASE n = g[2]
          BY <4>1, <4>4, <5>2, <5>3, <5>4
        <5>5. CASE n # g[2]
          <6>1. store'[<<g[1], n>>] = store[<<g[1], n>>]
            BY <2>3, <5>3, <5>5
          <6>2. <<g[1], n>>[2] = Home(p, i) /\ f[2] = Home(p, i)
            BY <3>1, <4>1, <4>2, <5>2, <5>3, <6>1 DEF Housed
          <6>3. QED BY <4>4, <5>5, <6>2
        <5>6. QED BY <5>4, <5>5
      <4>5. QED BY <4>3, <4>4
    <3>3. QED BY <3>2
  <2>4. QED BY <1>2, <2>2, <2>3, OneFile
<1>3. CASE UNCHANGED <<mode, store, files, layout, cmd, at, side, mem,
                       todo, writes, open, steady>>
  BY <1>3 DEF Seen
<1>4. QED BY <1>1, <1>2, <1>3, NextIs

\* What holds of the files in every state.
FilesInv ==
  /\ FilesTyped
  /\ \A p \in Proc : InHand(p)
  /\ Exists
  /\ ~Switched => \A p \in Proc : Housed(p)
  /\ ~Local /\ ~Switched => \A p \in Proc : Seen(p)

LEMMA FilesStart ==
  ASSUME FilesInit
  PROVE  FilesInv
<1> USE DEF FilesInit
<1>1. /\ MaxVersion \in Nat \ {0} /\ Empty \in State
      /\ \A i \in Id : Empty[i] = 0
      /\ Layouts \subseteq BOOLEAN
      /\ "source" \in Origin
  <2>1. mode \in Modes
    OBVIOUS
  <2>2. MaxVersion \in Nat \ {0} /\ 0 \in 0..MaxVersion
    BY StateFilesAssumption
  <2>3. QED BY <2>1, <2>2, SharingIs DEF Empty, State, Origin
<1>2. FilesTyped
  <2>1. org \in State
    <3>1. org \in [Id -> 0..1] /\ \A x \in 0..1 : x \in 0..MaxVersion
      BY <1>1
    <3>2. QED BY <3>1 DEF State
  <2>2. PICK l \in Layouts : layout = [p \in Proc |-> l]
    OBVIOUS
  <2>3. layout \in [Proc -> BOOLEAN]
    BY <1>1, <2>2
  <2>4. mem \in [Proc -> [Origin -> State]]
    BY <1>1
  <2>5. QED BY <1>1, <2>1, <2>3, <2>4 DEF FilesTyped
<1>3. ASSUME NEW p \in Proc PROVE InHand(p)
  BY DEF InHand
<1>4. Exists
  BY DEF Exists
<1>5. ASSUME NEW p \in Proc PROVE Housed(p)
  <2>1. \A f \in File, i \in Id : store[f][i] = 0
    BY <1>1
  <2>2. \A q \in Proc : layout[q] = layout[p] /\ cmd[p] = "none"
                        /\ writes[p] = {}
    OBVIOUS
  <2>3. QED BY <2>1, <2>2 DEF Housed
<1>6. ASSUME NEW p \in Proc PROVE Seen(p)
  BY DEF Seen
<1>7. QED BY <1>2, <1>3, <1>4, <1>5, <1>6 DEF FilesInv

LEMMA SharingKept ==
  ASSUME FilesTyped, [FilesNext]_filesVars
  PROVE  /\ mode' = mode /\ Switched' = Switched
         /\ Local' = Local /\ Safe' = Safe
         /\ Commands' = Commands
<1>1. mode' = mode
  BY NextIs, Frame DEF Framed
<1>2. QED
  BY <1>1 DEF Switched, Local, Safe, Commands

LEMMA FilesStep ==
  ASSUME FilesInv, [FilesNext]_filesVars
  PROVE  FilesInv'
<1> USE DEF FilesInv
<1>1. FilesTyped'
  BY FilesTypedStep
<1>2. ASSUME NEW p \in Proc PROVE InHand(p)'
  BY InHandStep
<1>3. Exists'
  BY ExistsStep
<1>4. ASSUME ~Switched, NEW p \in Proc PROVE Housed(p)'
  BY <1>4, HousedStep
<1>5. ASSUME ~Local, ~Switched, NEW p \in Proc PROVE Seen(p)'
  BY <1>1, <1>5, SeenStep
<1>6. QED BY <1>1, <1>2, <1>3, <1>4, <1>5, SharingKept

\* StateFiles: a process that loads from a bucket in one layout has every entry
\* that was in the files from the moment it listed them until it had read them,
\* whatever other processes write and delete meanwhile.
THEOREM SteadyIsSeenCorrect ==
  FilesSpec => []SteadyIsSeen
<1>1. FilesInit => FilesInv
  BY FilesStart
<1>2. FilesInv /\ [FilesNext]_filesVars => FilesInv'
  BY FilesStep
<1>3. FilesInv => SteadyIsSeen
  <2>1. ASSUME FilesInv, ~Local, ~Switched, NEW p \in Proc,
               at[p] = "read", todo[p] = {}, NEW i \in steady[p]
        PROVE  mem[p][side[p]][i] # 0
    BY <2>1 DEF FilesInv, Seen
  <2>2. QED BY <2>1 DEF SteadyIsSeen
<1>4. QED BY <1>1, <1>2, <1>3, PTL DEF FilesSpec

\* The name is that of an imported resource; what is in a file is one.
Claimed(p, n) == \E i \in Id : mem[p]["source"][i] # 0 /\ Safe[i] = n
Holds(p, n, content) ==
  \E j \in Id : /\ mem[p]["source"][j] # 0
                /\ Safe[j] = n
                /\ content = One(mem[p]["source"], j)

\* The source files of an import, once they are written.
Settled(p, n) == <<"source", n>> \in files /\ Holds(p, n, store[<<"source", n>>])
SettledWhole(p) == /\ <<"source", Whole>> \in files
                   /\ store[<<"source", Whole>>] = mem[p]["source"]

\* What an import is writing: each name is settled, or still to be written.
InWriting(p) ==
  /\ \A w \in open[p] : w.file \in files
  /\ \A w \in writes[p] :
       /\ w.file[1] = "source"
       /\ layout[p] => Holds(p, w.file[2], w.content)
       /\ ~layout[p] => w.content = mem[p]["source"]
  /\ layout[p] => \A n \in FileName : Claimed(p, n) =>
       Settled(p, n) \/ \E w \in writes[p] : w.file = <<"source", n>>
  /\ ~layout[p] => SettledWhole(p) \/ writes[p] # {}

AllWritten(p) ==
  /\ layout[p] => \A n \in FileName : Claimed(p, n) => Settled(p, n)
  /\ ~layout[p] => SettledWhole(p)

\* What no imported resource names is still to be deleted.
InPruning(p) ==
  layout[p] => \A f \in files :
    cmd[p] = "prune" \/ f[1] = "source" =>
      Claimed(p, f[2]) \/ f \in todo[p]

\* Only a prune is fenced, and it writes nothing.
OwnSteps(p) ==
  /\ cmd[p] = "prune" => at[p] \notin {"apply", "dump", "put"}
  /\ at[p] = "fence" => cmd[p] = "prune"

ExactFacts(p) ==
  /\ OwnSteps(p)
  /\ cmd[p] = "import" /\ at[p] = "put" => InWriting(p)
  /\ cmd[p] = "import" /\ at[p] \in {"compute", "delete", "done"} =>
       AllWritten(p)
  /\ cmd[p] = "import" /\ at[p] \in {"delete", "done"} =>
       \A f \in todo[p] :
         f[1] = "source" /\ f[2] # Whole /\ ~Claimed(p, f[2])
  /\ cmd[p] \in {"import", "prune"} /\ at[p] \in {"fence", "delete", "done"} =>
       InPruning(p)

\* A process that runs no cmd takes no step.
LEMMA OthersIdle ==
  ASSUME FilesTyped, \A q \in Proc : InHand(q), NEW p \in Proc, Alone(p),
         NEW q \in Proc, Step(q)
  PROVE  q = p
<1>1. ASSUME Commands[q] = {} PROVE FALSE
  <2>1. at[q] = "idle"
    BY <1>1 DEF InHand
  <2>2. ~Begin(q)
    BY <1>1 DEF Begin
  <2>3. writes[q] = {}
    BY <2>1 DEF InHand
  <2>4. CASE List(q) \/ \E f \in File : Read(q, f) \/ Delete(q, f)
    BY <2>1, <2>4 DEF List, Read, Delete
  <2>5. CASE Loaded(q) \/ Fetch(q) \/ Apply(q) \/ Dump(q)
    BY <2>1, <2>5 DEF Loaded, Fetch, Apply, Dump
  <2>6. CASE Dumped(q) \/ Compute(q) \/ Fence(q)
             \/ Pruned(q) \/ End(q)
    BY <2>1, <2>6
    DEF Dumped, Compute, Fence, Pruned, End
  <2>7. QED BY <2>2, <2>3, <2>4, <2>5, <2>6 DEF Step
<1>2. QED BY <1>1 DEF Alone

\* What an import that has dumped is about to write.
LEMMA DumpWrites ==
  ASSUME FilesTyped, NEW p \in Proc, InHand(p),
         Dump(p), cmd[p] = "import"
  PROVE  InWriting(p)'
<1>1. /\ mode \in Modes /\ layout[p] \in BOOLEAN
      /\ mem[p]["source"] \in State /\ "source" \in Origin
  BY DEF FilesTyped, Origin
<1>a. 1 \in 1..3
  OBVIOUS
<1>2. PICK src \in Winners(mem[p]["source"]) :
        writes'[p] = WritesOf(layout[p], "source", 1, mem[p]["source"], src)
  BY DumpIs
<1>3. UNCHANGED <<mode, store, files, layout, mem, open>> /\ at[p] = "dump"
  BY DEF Dump, diskVars, runVars
<1>4. open'[p] = {}
  BY <1>3 DEF InHand
<1>5. Safe' = Safe
  BY <1>3 DEF Safe
<1>6. ASSUME NEW w \in writes'[p]
      PROVE  /\ w.file[1] = "source"
             /\ layout[p] => Holds(p, w.file[2], w.content)
             /\ ~layout[p] => w.content = mem[p]["source"]
  <2>1. /\ w.file[1] = "source"
        /\ ~layout[p] => w.content = mem[p]["source"]
        /\ layout[p] => \E j \in Id : /\ mem[p]["source"][j] # 0
                                      /\ w.file = <<"source", Safe[j]>>
                                      /\ w.content = One(mem[p]["source"], j)
    BY <1>1, <1>a, <1>2, WritesAre
  <2>2. QED BY <2>1 DEF Holds
<1>7. ASSUME layout[p], NEW n \in FileName, Claimed(p, n)
      PROVE  \E w \in writes'[p] : w.file = <<"source", n>>
  <2>1. PICK i \in Id : mem[p]["source"][i] # 0 /\ Safe[i] = n
    BY <1>7 DEF Claimed
  <2>2. writes'[p] = WritesOf(TRUE, "source", 1, mem[p]["source"], src)
    BY <1>1, <1>2, <1>7 DEF WritesOf
  <2>3. \E w \in WritesOf(TRUE, "source", 1, mem[p]["source"], src) :
          w.file = <<"source", Safe[i]>>
    BY <1>1, <2>1, WritesCover
  <2>4. QED BY <2>1, <2>2, <2>3
<1>8. ASSUME ~layout[p] PROVE writes'[p] # {}
  BY <1>2, <1>8 DEF WritesOf
<1>9. \A n, content : /\ Holds(p, n, content)' <=> Holds(p, n, content)
                      /\ Claimed(p, n)' <=> Claimed(p, n)
  BY <1>3, <1>5 DEF Holds, Claimed, One, Only
<1>10. QED
  BY <1>3, <1>4, <1>6, <1>7, <1>8, <1>9 DEF InWriting

\* What a process knows of its own memory and names does not change otherwise.
LEMMA SameNames ==
  ASSUME mode' = mode, NEW p \in Proc, mem'[p]["source"] = mem[p]["source"]
  PROVE  \A n : /\ Claimed(p, n)' <=> Claimed(p, n)
                /\ \A content : Holds(p, n, content)' <=> Holds(p, n, content)
BY DEF Claimed, Holds, One, Only, Safe

\* The steps of a dump keep to what it has to write.
LEMMA PutStep ==
  ASSUME FilesTyped, NEW p \in Proc, InHand(p), Housed(p), ExactFacts(p),
         NEW w \in writes[p], Truncate(p, w) \/ Write(p, w)
  PROVE  ExactFacts(p)'
<1>0. /\ store \in [File -> State] /\ DOMAIN writes = Proc
      /\ DOMAIN open = Proc /\ w \in Put
  BY DEF FilesTyped
<1>1. /\ UNCHANGED <<mode, layout, cmd, at, mem, todo>>
      /\ at[p] = "put"
  BY DEF Truncate, Write, IsNext, runVars
<1>2. \A n : /\ Claimed(p, n)' <=> Claimed(p, n)
             /\ \A content : Holds(p, n, content)' <=> Holds(p, n, content)
  BY <1>1, SameNames
<1>3. w.file \in File /\ w.file = <<w.file[1], w.file[2]>>
  BY <1>0 DEF Put, File
<1>4. /\ w.file \in files' \/ files' = files
      /\ files \subseteq files'
      /\ \A f \in File \ {w.file} : store'[f] = store[f]
  BY <1>0 DEF Truncate, Write, diskVars
<1>5. ASSUME NEW n \in FileName, <<"source", n>> # w.file, Settled(p, n)
      PROVE  Settled(p, n)'
  <2>1. <<"source", n>> \in File
    BY DEF File, Origin
  <2>2. store'[<<"source", n>>] = store[<<"source", n>>]
    BY <1>4, <1>5, <2>1
  <2>3. QED BY <1>2, <1>4, <1>5, <2>2 DEF Settled
<1>6. CASE cmd[p] = "import" /\ Truncate(p, w)
  <2>1. /\ open' = [open EXCEPT ![p] = {w}] /\ writes' = writes
        /\ w.file \in files'
    BY <1>6 DEF Truncate
  <2>2. InWriting(p)
    BY <1>1, <1>6 DEF ExactFacts
  <2>3. \A v \in open'[p] : v.file \in files'
    BY <1>0, <2>1
  <2>4. ASSUME layout[p], NEW n \in FileName, Claimed(p, n)
        PROVE  Settled(p, n)' \/ \E v \in writes[p] : v.file = <<"source", n>>
    BY <1>5, <2>2, <2>4 DEF InWriting
  <2>5. InWriting(p)'
    BY <1>1, <1>2, <2>1, <2>2, <2>3, <2>4 DEF InWriting
  <2>6. OwnSteps(p)'
    BY <1>1, <1>6 DEF OwnSteps
  <2>7. QED BY <1>1, <1>6, <2>5, <2>6 DEF ExactFacts
<1>7. CASE cmd[p] = "import" /\ Write(p, w)
  <2>1. InWriting(p)
    BY <1>1, <1>7 DEF ExactFacts
  <2>2. Truncates => w.file \in files
    BY <1>7, <2>1 DEF Write, InWriting
  <2>3. /\ store' = [store EXCEPT ![w.file] = w.content]
        /\ files' = files \cup {w.file}
        /\ writes' = [writes EXCEPT ![p] = @ \ {w}]
        /\ open' = [open EXCEPT ![p] = {}]
    BY <1>7, <2>2 DEF Write
  <2>4. /\ store'[w.file] = w.content /\ w.file \in files'
        /\ writes'[p] = writes[p] \ {w} /\ open'[p] = {}
    BY <1>0, <1>3, <2>3
  <2>5. ASSUME layout[p], NEW n \in FileName, Claimed(p, n)
        PROVE  Settled(p, n)' \/ \E v \in writes'[p] : v.file = <<"source", n>>
    <3>1. CASE <<"source", n>> = w.file
      <4>1. Holds(p, n, w.content)
        <5>1. w.file[2] = n
          BY <3>1
        <5>2. QED BY <2>1, <2>5, <5>1 DEF InWriting
      <4>2. QED BY <1>2, <2>4, <3>1, <4>1 DEF Settled
    <3>2. CASE <<"source", n>> # w.file
      BY <1>5, <2>1, <2>4, <2>5, <3>2 DEF InWriting
    <3>3. QED BY <3>1, <3>2
  <2>6. ASSUME ~layout[p] PROVE SettledWhole(p)'
    <3>1. w.file[1] = "source" /\ w.file[2] = Whole /\ w.content = mem[p]["source"]
      BY <2>1, <2>6 DEF InWriting, Housed
    <3>2. w.file = <<"source", Whole>>
      BY <1>3, <3>1
    <3>3. QED BY <1>1, <2>4, <3>1, <3>2 DEF SettledWhole
  <2>7. \A v \in writes'[p] :
          /\ v.file[1] = "source"
          /\ layout[p] => Holds(p, v.file[2], v.content)
          /\ ~layout[p] => v.content = mem[p]["source"]
    BY <2>1, <2>4 DEF InWriting
  <2>8. InWriting(p)'
    BY <1>1, <1>2, <2>4, <2>5, <2>6, <2>7 DEF InWriting
  <2>9. OwnSteps(p)'
    BY <1>1, <1>7 DEF OwnSteps
  <2>10. QED BY <1>1, <1>7, <2>8, <2>9 DEF ExactFacts
<1>8. CASE cmd[p] # "import"
  BY <1>1, <1>8 DEF ExactFacts, OwnSteps
<1>9. QED BY <1>6, <1>7, <1>8

\* Everything but what a prune deletes is left as it is.
LEMMA DeleteStep ==
  ASSUME FilesTyped, NEW p \in Proc, ExactFacts(p),
         NEW f \in File, Delete(p, f)
  PROVE  ExactFacts(p)'
<1>0. /\ store \in [File -> State] /\ DOMAIN todo = Proc
      /\ "source" \in Origin
  BY DEF FilesTyped, Origin
<1>1. /\ UNCHANGED <<mode, layout, cmd, at, mem>>
      /\ at[p] = "delete" /\ f \in todo[p]
      /\ files' = files \ {f} /\ store' = [store EXCEPT ![f] = Empty]
      /\ todo' = [todo EXCEPT ![p] = @ \ {f}]
  BY DEF Delete, runVars
<1>2. \A n : /\ Claimed(p, n)' <=> Claimed(p, n)
             /\ \A content : Holds(p, n, content)' <=> Holds(p, n, content)
  BY <1>1, SameNames
<1>3. todo'[p] = todo[p] \ {f}
  BY <1>0, <1>1
<1>4. OwnSteps(p)'
  BY <1>1 DEF ExactFacts, OwnSteps
<1>5. ASSUME cmd[p] = "import"
      PROVE  /\ AllWritten(p)'
             /\ \A g \in todo'[p] :
                  g[1] = "source" /\ g[2] # Whole /\ ~Claimed(p, g[2])
  <2>1. /\ AllWritten(p)
        /\ \A g \in todo[p] :
             g[1] = "source" /\ g[2] # Whole /\ ~Claimed(p, g[2])
    BY <1>1, <1>5 DEF ExactFacts
  <2>2. f[2] # Whole /\ ~Claimed(p, f[2])
    BY <1>1, <2>1
  <2>3. ASSUME layout[p], NEW n \in FileName, Claimed(p, n) PROVE Settled(p, n)'
    <3>1. Settled(p, n) /\ <<"source", n>> # f
      BY <2>1, <2>2, <2>3 DEF AllWritten
    <3>2. <<"source", n>> \in File
      BY <1>0 DEF File
    <3>3. store'[<<"source", n>>] = store[<<"source", n>>]
          /\ <<"source", n>> \in files'
      BY <1>0, <1>1, <3>1, <3>2 DEF Settled
    <3>4. QED BY <1>2, <3>1, <3>3 DEF Settled
  <2>4. ASSUME ~layout[p] PROVE SettledWhole(p)'
    <3>1. SettledWhole(p) /\ <<"source", Whole>> # f
      BY <2>1, <2>2, <2>4 DEF AllWritten
    <3>2. <<"source", Whole>> \in File
      BY <1>0 DEF File
    <3>3. store'[<<"source", Whole>>] = store[<<"source", Whole>>]
          /\ <<"source", Whole>> \in files'
      BY <1>0, <1>1, <3>1, <3>2 DEF SettledWhole
    <3>4. QED BY <1>1, <3>1, <3>3 DEF SettledWhole
  <2>5. AllWritten(p)'
    BY <1>1, <1>2, <2>3, <2>4 DEF AllWritten
  <2>6. QED BY <1>3, <2>1, <2>5
<1>6. ASSUME cmd[p] \in {"import", "prune"} PROVE InPruning(p)'
  <2>1. InPruning(p)
    BY <1>1, <1>6 DEF ExactFacts
  <2>2. QED BY <1>1, <1>2, <1>3, <2>1 DEF InPruning
<1>7. QED BY <1>1, <1>2, <1>4, <1>5, <1>6 DEF ExactFacts

\* A file that no imported resource names is stale.
LEMMA StaleIs ==
  ASSUME FilesTyped, NEW p \in Proc, Housed(p), layout[p],
         NEW f \in files, ~Claimed(p, f[2])
  PROVE  f \in Stale(p, "source") \cup Stale(p, "destination")
         /\ (f[1] = "source" => f \in Stale(p, "source"))
<1>1. f[1] \in {"source", "destination"}
  BY DEF FilesTyped, File, Origin
<1>2. f[2] # Whole
  BY DEF Housed
<1>3. \A i \in Id : mem[p]["source"][i] # 0 => Safe[i] # f[2]
  BY DEF Claimed
<1>4. f \in Stale(p, f[1])
  BY <1>2, <1>3 DEF Stale, FilesOf
<1>5. QED BY <1>1, <1>4

LEMMA ComputeStep ==
  ASSUME FilesTyped, NEW p \in Proc, Housed(p), ExactFacts(p),
         Compute(p) \/ Fence(p)
  PROVE  ExactFacts(p)'
<1>0. DOMAIN todo = Proc /\ DOMAIN at = Proc
  BY DEF FilesTyped
<1>1. UNCHANGED <<mode, layout, cmd, mem, files, store, writes, open>>
  BY DEF Compute, Fence, runVars, diskVars, putVars
<1>2. \A n : /\ Claimed(p, n)' <=> Claimed(p, n)
             /\ \A content : Holds(p, n, content)' <=> Holds(p, n, content)
  BY <1>1, SameNames
<1>3. AllWritten(p)' <=> AllWritten(p)
  BY <1>1, <1>2 DEF AllWritten, Settled, SettledWhole
<1>4. CASE Compute(p) /\ cmd[p] = "import"
  <2>1. /\ at[p] = "compute" /\ at'[p] = "delete"
        /\ todo'[p] = Stale(p, "source")
    BY <1>0, <1>4 DEF Compute, Goto
  <2>2. \A f \in Stale(p, "source") :
          f[1] = "source" /\ f[2] # Whole /\ ~Claimed(p, f[2])
    BY DEF Stale, FilesOf, Claimed
  <2>3. ASSUME layout[p], NEW f \in files, f[1] = "source", ~Claimed(p, f[2])
        PROVE  f \in todo'[p]
    BY <2>1, <2>3, StaleIs
  <2>4. InPruning(p)'
    BY <1>1, <1>2, <1>4, <2>3 DEF InPruning
  <2>5. AllWritten(p)'
    BY <1>3, <1>4, <2>1 DEF ExactFacts
  <2>6. QED BY <1>1, <1>2, <1>4, <2>1, <2>2, <2>4, <2>5 DEF ExactFacts, OwnSteps
<1>5. CASE Compute(p) /\ cmd[p] = "prune"
  <2>1. /\ at'[p] = "fence"
        /\ todo'[p] = Stale(p, "source") \cup Stale(p, "destination")
    BY <1>0, <1>5 DEF Compute, Goto
  <2>2. ASSUME layout[p], NEW f \in files, ~Claimed(p, f[2])
        PROVE  f \in todo'[p]
    BY <2>1, <2>2, StaleIs
  <2>3. InPruning(p)'
    BY <1>1, <1>2, <2>2 DEF InPruning
  <2>4. QED BY <1>1, <1>5, <2>1, <2>3 DEF ExactFacts, OwnSteps
<1>6. CASE Compute(p) /\ cmd[p] \notin {"import", "prune"}
  <2>1. at'[p] = "delete"
    BY <1>0, <1>6 DEF Compute, Goto
  <2>2. QED BY <1>1, <1>6, <2>1 DEF ExactFacts, OwnSteps
<1>7. CASE Fence(p)
  <2>1. at[p] = "fence" /\ cmd[p] = "prune"
    BY <1>7 DEF Fence, ExactFacts, OwnSteps
  <2>2. InPruning(p)
    BY <2>1 DEF ExactFacts
  <2>3. CASE at'[p] = "idle"
    BY <1>1, <2>1, <2>3 DEF ExactFacts, OwnSteps
  <2>4. CASE at'[p] # "idle"
    <3>1. /\ at'[p] = "delete"
          /\ todo'[p] = todo[p] \cap
               (Stale(p, "source") \cup Stale(p, "destination"))
      BY <1>0, <1>7, <2>4 DEF Fence, Goto
    <3>2. ASSUME layout[p], NEW f \in files, ~Claimed(p, f[2])
          PROVE  f \in todo'[p]
      <4>1. f \in todo[p]
        BY <2>1, <2>2, <3>2 DEF InPruning
      <4>2. QED BY <3>1, <3>2, <4>1, StaleIs
    <3>3. InPruning(p)'
      BY <1>1, <1>2, <3>2 DEF InPruning
    <3>4. QED BY <1>1, <2>1, <3>1, <3>3 DEF ExactFacts, OwnSteps
  <2>5. QED BY <2>3, <2>4
<1>8. QED BY <1>4, <1>5, <1>6, <1>7

\* The steps up to the dump.
LEMMA LoadStep ==
  ASSUME FilesTyped, NEW p \in Proc, ExactFacts(p),
         \/ Begin(p) \/ List(p)
         \/ \E f \in File : Read(p, f)
         \/ Loaded(p) \/ Fetch(p) \/ Apply(p)
  PROVE  ExactFacts(p)'
<1> USE DEF Goto
<1>0. DOMAIN at = Proc
  BY DEF FilesTyped
<1>1. CASE Begin(p)
  <2>1. at'[p] \in {"fetch", "list"}
    BY <1>0, <1>1 DEF Begin
  <2>2. QED BY <2>1 DEF ExactFacts, OwnSteps
<1>2. CASE List(p)
  <2>1. at'[p] = "read"
    BY <1>0, <1>2 DEF List
  <2>2. QED BY <2>1 DEF ExactFacts, OwnSteps
<1>3. ASSUME NEW f \in File, Read(p, f) PROVE ExactFacts(p)'
  <2>1. at'[p] \in {"read", "idle"}
    BY <1>0, <1>3 DEF Read
  <2>2. QED BY <2>1 DEF ExactFacts, OwnSteps
<1>4. CASE Loaded(p)
  <2>1. /\ at'[p] \in {"list", "apply", "fetch"} /\ cmd' = cmd
        /\ at'[p] = "apply" => cmd[p] = "sync"
    BY <1>0, <1>4 DEF Loaded
  <2>2. QED BY <2>1 DEF ExactFacts, OwnSteps
<1>5. CASE Fetch(p)
  <2>1. /\ cmd' = cmd
        /\ at'[p] = IF cmd[p] = "prune" THEN "compute" ELSE "dump"
    BY <1>0, <1>5 DEF Fetch, runVars
  <2>2. QED BY <2>1 DEF ExactFacts, OwnSteps
<1>6. CASE Apply(p)
  <2>1. at'[p] = "dump" /\ at[p] = "apply" /\ cmd' = cmd
    BY <1>0, <1>6 DEF Apply, runVars
  <2>2. QED BY <2>1 DEF ExactFacts, OwnSteps
<1>7. QED BY <1>1, <1>2, <1>3, <1>4, <1>5, <1>6

\* The steps that end a phase.
LEMMA PhaseStep ==
  ASSUME FilesTyped, NEW p \in Proc, InHand(p), ExactFacts(p),
         Dumped(p) \/ Pruned(p) \/ End(p)
  PROVE  ExactFacts(p)'
<1>0. DOMAIN at = Proc
  BY DEF FilesTyped
<1>1. UNCHANGED <<mode, layout, cmd, mem, files, store, writes, open>>
  BY DEF Dumped, Pruned, End, runVars, diskVars,
         putVars
<1>2. \A n : /\ Claimed(p, n)' <=> Claimed(p, n)
             /\ \A content : Holds(p, n, content)' <=> Holds(p, n, content)
  BY <1>1, SameNames
<1>3. AllWritten(p)' <=> AllWritten(p)
  BY <1>1, <1>2 DEF AllWritten, Settled, SettledWhole
<1>4. todo' = todo => (InPruning(p)' <=> InPruning(p))
  BY <1>1, <1>2 DEF InPruning
<1>5. CASE Dumped(p)
  <2>1. /\ at[p] = "put" /\ writes[p] = {} /\ todo' = todo
        /\ at'[p] = IF cmd[p] = "import" /\ layout[p] THEN "compute" ELSE "done"
    BY <1>0, <1>5 DEF Dumped, Goto
  <2>2. cmd[p] # "prune"
    BY <2>1 DEF ExactFacts, OwnSteps
  <2>3. cmd[p] = "import" => AllWritten(p)
    BY <2>1 DEF ExactFacts, InWriting, AllWritten
  <2>4. cmd[p] = "import" /\ at'[p] = "done" => InPruning(p)
    BY <2>1 DEF InPruning
  <2>5. todo[p] = {}
    BY <2>1 DEF InHand
  <2>6. QED
    BY <1>1, <1>3, <1>4, <2>1, <2>2, <2>3, <2>4, <2>5 DEF ExactFacts, OwnSteps
<1>6. CASE Pruned(p)
  <2>1. /\ at[p] = "delete" /\ at'[p] \in {"delete", "done"}
        /\ todo' = todo
    BY <1>0, <1>6 DEF Pruned, Goto
  <2>2. (cmd[p] = "import" => AllWritten(p)) /\ OwnSteps(p)
    BY <2>1 DEF ExactFacts
  <2>3. cmd[p] = "import" => \A f \in todo[p] :
          f[1] = "source" /\ f[2] # Whole /\ ~Claimed(p, f[2])
    BY <2>1 DEF ExactFacts
  <2>4. cmd[p] \in {"import", "prune"} => InPruning(p)
    BY <2>1 DEF ExactFacts
  <2>5. QED
    BY <1>1, <1>2, <1>3, <1>4, <2>1, <2>2, <2>3, <2>4 DEF ExactFacts, OwnSteps
<1>7. CASE End(p)
  <2>1. at'[p] = "idle"
    BY <1>0, <1>7 DEF End, Goto
  <2>2. QED BY <1>1, <2>1 DEF ExactFacts, OwnSteps
<1>8. QED BY <1>5, <1>6, <1>7

LEMMA ExactStep ==
  ASSUME FilesInv, ~Switched, [FilesNext]_filesVars,
         NEW p \in Proc, Alone(p), ExactFacts(p)
  PROVE  ExactFacts(p)'
<1>0. FilesTyped /\ (\A q \in Proc : InHand(q)) /\ Housed(p)
  BY DEF FilesInv
<1>1. CASE Step(p)
  <2>1. CASE \/ Begin(p) \/ List(p)
             \/ \E f \in File : Read(p, f)
             \/ Loaded(p) \/ Fetch(p) \/ Apply(p)
    BY <1>0, <2>1, LoadStep
  <2>2. CASE Dump(p)
    <3>1. /\ cmd' = cmd /\ at[p] = "dump" /\ at'[p] = "put"
      BY <1>0, <2>2 DEF Dump, Goto, runVars, FilesTyped
    <3>2. cmd[p] = "import" => InWriting(p)'
      BY <1>0, <2>2, DumpWrites
    <3>3. QED BY <3>1, <3>2 DEF ExactFacts, OwnSteps
  <2>3. CASE \E w \in writes[p] : Truncate(p, w) \/ Write(p, w)
    BY <1>0, <2>3, PutStep
  <2>4. CASE Compute(p) \/ Fence(p)
    BY <1>0, <2>4, ComputeStep
  <2>5. CASE \E f \in File : Delete(p, f)
    BY <1>0, <2>5, DeleteStep
  <2>6. CASE Dumped(p) \/ Pruned(p) \/ End(p)
    BY <1>0, <2>6, PhaseStep
  <2>7. QED BY <1>1, <2>1, <2>2, <2>3, <2>4, <2>5, <2>6 DEF Step
<1>2. CASE UNCHANGED <<mode, store, files, layout, cmd, at, side, mem,
                       todo, writes, open, steady>>
  <2>1. \A n : /\ Claimed(p, n)' <=> Claimed(p, n)
               /\ \A content : Holds(p, n, content)' <=> Holds(p, n, content)
    BY <1>2, SameNames
  <2>2. AllWritten(p)' <=> AllWritten(p)
    BY <1>2, <2>1 DEF AllWritten, Settled, SettledWhole
  <2>3. InPruning(p)' <=> InPruning(p)
    BY <1>2, <2>1 DEF InPruning
  <2>4. InWriting(p) => InWriting(p)'
    BY <1>2, <2>1 DEF InWriting, Settled, SettledWhole
  <2>5. QED BY <1>2, <2>1, <2>2, <2>3, <2>4 DEF ExactFacts, OwnSteps
<1>3. ASSUME NEW q \in Proc, Step(q) PROVE Step(p)
  BY <1>0, <1>3, OthersIdle
<1>4. QED BY <1>1, <1>2, <1>3, NextIs

\* What an import or a prune leaves when it is done.
LEMMA ExactWhenDone ==
  ASSUME FilesInv, ~Switched, NEW p \in Proc,
         at[p] = "done", ExactFacts(p)
  PROVE  LET now == mem[p]["source"] IN
         /\ cmd[p] = "import" => \A i \in Id :
              /\ Found(p, "source", i) \subseteq {now[i]}
              /\ now[i] # 0 => \E j \in Id :
                   /\ Safe[j] = Safe[i]
                   /\ Found(p, "source", j) = {now[j]}
         /\ cmd[p] = "prune" => \A i \in Id, o \in Origin :
              Found(p, o, i) # {} =>
                \E j \in Id : Safe[j] = Safe[i] /\ now[j] # 0
<1> DEFINE now == mem[p]["source"]
<1>0. /\ files \subseteq File /\ mode \in Modes
      /\ now \in State /\ MaxVersion \in Nat
      /\ layout[p] \in BOOLEAN
      /\ Housed(p)
  <2>1. FilesTyped /\ Housed(p)
    BY DEF FilesInv
  <2>2. "source" \in Origin /\ MaxVersion \in Nat
    BY StateFilesAssumption DEF Origin
  <2>3. QED BY <2>1, <2>2 DEF FilesTyped
<1>1. \A i \in Id : Safe[i] \in FileName
  BY <1>0, SharingIs
<1>2. ASSUME NEW o, NEW i \in Id, NEW x \in Found(p, o, i)
      PROVE  \E f \in files \ todo[p] :
               f[1] = o /\ f[2] = Home(p, i) /\ x = store[f][i]
  <2>1. PICK f \in files \ todo[p] : f[1] = o /\ x = store[f][i] /\ x # 0
    BY <1>2 DEF Found, FilesOf
  <2>2. f[2] = Home(p, i)
    BY <1>0, <2>1 DEF Housed
  <2>3. QED BY <2>1, <2>2
<1>3. ASSUME NEW j \in Id, now[j] # 0
      PROVE  /\ \A i \in Id : One(now, j)[i] # 0 => i = j
             /\ One(now, j)[j] = now[j]
  BY <1>0, OnlyIs DEF One
<1>4. ASSUME NEW f \in files \ todo[p], NEW j \in Id, f[1] = "source",
             store[f][j] # 0
      PROVE  store[f][j] \in Found(p, "source", j)
  BY <1>4 DEF Found, FilesOf
<1>5. CASE cmd[p] = "import"
  <2>1. AllWritten(p) /\ InPruning(p)
    BY <1>5 DEF ExactFacts
  <2>0. \A f \in todo[p] : f[2] # Whole /\ ~Claimed(p, f[2])
    BY <1>5 DEF ExactFacts
  <2>2. ASSUME NEW i \in Id, NEW x \in Found(p, "source", i) PROVE x = now[i]
    <3>1. PICK f \in files \ todo[p] : /\ f[1] = "source"
                                      /\ f[2] = Home(p, i)
                                      /\ x = store[f][i]
      BY <1>2, <2>2
    <3>2. f = <<f[1], f[2]>>
      BY <1>0 DEF File
    <3>3. x # 0
      BY <2>2 DEF Found
    <3>4. CASE layout[p]
      <4>1. Claimed(p, f[2]) /\ f[2] = Safe[i]
        BY <1>0, <2>1, <3>1, <3>4 DEF InPruning, Home
      <4>2. Settled(p, f[2])
        BY <1>1, <2>1, <3>4, <4>1 DEF AllWritten
      <4>3. PICK j \in Id : now[j] # 0 /\ store[f] = One(now, j)
        BY <3>1, <3>2, <4>2 DEF Settled, Holds
      <4>4. QED BY <1>3, <3>1, <3>3, <4>3
    <3>5. CASE ~layout[p]
      <4>1. f = <<"source", Whole>>
        BY <3>1, <3>2, <3>5 DEF Home
      <4>2. QED BY <2>1, <3>1, <3>5, <4>1 DEF AllWritten, SettledWhole
    <3>6. QED BY <1>0, <3>4, <3>5
  <2>3. ASSUME NEW i \in Id, now[i] # 0
        PROVE  \E j \in Id : /\ Safe[j] = Safe[i]
                             /\ Found(p, "source", j) = {now[j]}
    <3>1. CASE layout[p]
      <4>1. Settled(p, Safe[i])
        BY <1>1, <2>1, <2>3, <3>1 DEF AllWritten, Claimed
      <4>2. PICK j \in Id : /\ now[j] # 0 /\ Safe[j] = Safe[i]
                            /\ store[<<"source", Safe[i]>>] = One(now, j)
        BY <4>1 DEF Settled, Holds
      <4>3. store[<<"source", Safe[i]>>][j] = now[j]
        BY <1>3, <4>2
      <4>7. <<"source", Safe[i]>> \notin todo[p]
        <5>1. Claimed(p, Safe[i])
          BY <2>3 DEF Claimed
        <5>2. QED BY <2>0, <5>1
      <4>4. now[j] \in Found(p, "source", j)
        BY <1>4, <4>1, <4>2, <4>3, <4>7 DEF Settled
      <4>5. Found(p, "source", j) = {now[j]}
        BY <2>2, <4>4
      <4>6. QED BY <4>2, <4>5
    <3>2. CASE ~layout[p]
      <4>1. /\ <<"source", Whole>> \in files
            /\ store[<<"source", Whole>>][i] = now[i]
        BY <2>1, <3>2 DEF AllWritten, SettledWhole
      <4>5. <<"source", Whole>> \notin todo[p]
        BY <2>0
      <4>2. now[i] \in Found(p, "source", i)
        BY <1>4, <2>3, <4>1, <4>5
      <4>3. Found(p, "source", i) = {now[i]}
        BY <2>2, <4>2
      <4>4. QED BY <4>3
    <3>3. QED BY <1>0, <3>1, <3>2
  <2>4. QED BY <1>5, <2>2, <2>3
<1>6. CASE cmd[p] = "prune"
  <2>1. ASSUME NEW i \in Id, NEW o \in Origin, Found(p, o, i) # {}
        PROVE  \E j \in Id : Safe[j] = Safe[i] /\ now[j] # 0
    <3>1. layout[p]
      BY <1>0, <1>6 DEF Housed
    <3>2. PICK x : x \in Found(p, o, i)
      BY <2>1
    <3>3. PICK f \in files \ todo[p] : f[2] = Home(p, i)
      BY <1>2, <3>2
    <3>4. Claimed(p, f[2])
      BY <1>0, <1>6, <3>1 DEF ExactFacts, InPruning
    <3>5. QED BY <3>1, <3>3, <3>4 DEF Claimed, Home
  <2>2. QED BY <1>6, <2>1
<1>7. QED BY <1>5, <1>6

\* StateFiles: an import that has the files to itself, in one layout, leaves the
\* source files with what it imported and nothing else, and a prune leaves
\* neither origin a resource that is removed from the source.
THEOREM ExactAfterImportCorrect ==
  FilesSpec => []ExactAfterImport
<1> DEFINE Exact == /\ FilesInv
                    /\ ~Switched =>
                         \A p \in Proc : Alone(p) => ExactFacts(p)
<1>1. FilesInit => Exact
  <2>1. ASSUME FilesInit, NEW p \in Proc PROVE ExactFacts(p)
    BY <2>1 DEF FilesInit, ExactFacts, OwnSteps
  <2>2. QED BY <2>1, FilesStart
<1>2. Exact /\ [FilesNext]_filesVars => Exact'
  <2> SUFFICES ASSUME Exact, [FilesNext]_filesVars PROVE Exact'
    OBVIOUS
  <2>1. FilesInv'
    BY FilesStep
  <2>2. /\ Switched' = Switched
        /\ \A p \in Proc : Alone(p)' <=> Alone(p)
    BY SharingKept DEF FilesInv, Alone
  <2>3. ASSUME ~Switched, NEW p \in Proc, Alone(p) PROVE ExactFacts(p)'
    BY <2>3, ExactStep
  <2>4. QED BY <2>1, <2>2, <2>3
<1>3. Exact => ExactAfterImport
  <2> SUFFICES ASSUME Exact, NEW p \in Proc, at[p] = "done", Alone(p),
                      ~Switched
               PROVE  LET now == mem[p]["source"] IN
         /\ cmd[p] = "import" => \A i \in Id :
              /\ Found(p, "source", i) \subseteq {now[i]}
              /\ now[i] # 0 => \E j \in Id :
                   /\ Safe[j] = Safe[i]
                   /\ Found(p, "source", j) = {now[j]}
         /\ cmd[p] = "prune" => \A i \in Id, o \in Origin :
              Found(p, o, i) # {} =>
                \E j \in Id : Safe[j] = Safe[i] /\ now[j] # 0
    BY Zenon DEF ExactAfterImport, Alone
  <2>1. ExactFacts(p)
    OBVIOUS
  <2>2. QED BY <2>1, ExactWhenDone
<1>4. QED BY <1>1, <1>2, <1>3, PTL DEF FilesSpec
=============================================================================
