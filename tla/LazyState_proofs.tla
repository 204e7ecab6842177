-------------------------- MODULE LazyState_proofs --------------------------
(* Theorems about LazyState, for any resources, references, processes and  *)
(* options.                                                                *)
EXTENDS LazyState, FiniteSetTheorems, TLAPS

\* What process p knows of a resource that it looked up: its source when it was
\* imported, unless its counterpart was read by a refresh; and for one that was
\* not imported, its counterpart as long as a file has it and p did not delete it.
Knows(p) ==
  /\ source[p] \subseteq imported
  /\ phase[p] = "idle" => attempted[p] = {}
  /\ phase[p] \notin {"apply", "ended"} =>
       attempted[p] \cap imported \subseteq source[p]
  /\ \A d \in attempted[p] \cap imported :
       d \in source[p] \/ destination[p][d] # 0
  /\ \A d \in Resources \ imported : destination[p][d] # 0 => files[d] # 0
  /\ \A d \in attempted[p] \ imported :
       destination[p][d] # 0 \/ files[d] = 0 \/ d \in deleted[p]

LookedUp == \A p \in Procs : Knows(p)

\* The inductive invariant.
LazyInv == TypeOK /\ LookedUp

\* The initial states satisfy the invariant.
LEMMA InitInv == Init => LazyInv
<1> SUFFICES ASSUME Init PROVE LazyInv
  OBVIOUS
<1> USE LazyAssumption
<1>1. PICK synced \in SUBSET Resources :
         /\ files = [r \in Resources |-> IF r \in synced THEN 1 ELSE 0]
         /\ live = {<<r, 1>> : r \in synced}
  BY DEF Init
<1>2. TypeOK
  BY <1>1 DEF Init, TypeOK
<1>3. LookedUp
  BY DEF Init, LookedUp, Knows
<1>4. QED BY <1>2, <1>3 DEF LazyInv

\* The invariant speaks of these variables only.
LEMMA Stutter == LazyInv /\ UNCHANGED vars => LazyInv'
<1> SUFFICES ASSUME LazyInv, UNCHANGED vars PROVE LazyInv'
  OBVIOUS
<1>1. Procs' = Procs
  BY DEF vars, Procs, Scope
<1>2. TypeOK'
  BY <1>1 DEF LazyInv, TypeOK, vars, org, mem
<1>3. LookedUp'
  BY <1>1 DEF LazyInv, LookedUp, Knows, vars, org, mem
<1>4. QED BY <1>2, <1>3 DEF LazyInv

\* A process of which nothing changes knows what it knew, as long as no file
\* appears for a resource that was not imported.
LEMMA OthersKnow ==
  ASSUME NEW q \in Procs, Knows(q), TypeOK,
         UNCHANGED imported,
         source'[q] = source[q], attempted'[q] = attempted[q],
         destination'[q] = destination[q], phase'[q] = phase[q],
         deleted'[q] = deleted[q],
         \A d \in Resources \ imported : (files'[d] = 0) <=> (files[d] = 0)
  PROVE  Knows(q)'
<1>1. attempted[q] \subseteq Resources
  BY DEF TypeOK
<1>2. QED BY <1>1 DEF Knows

\* Loading keeps the invariant.
LEMMA LoadInv == ASSUME LazyInv, NEW p \in Procs, Load(p) PROVE LazyInv'
<1> USE DEF LazyInv
<1>1. Procs' = Procs /\ UNCHANGED <<mode, org, attempted, deleted>>
  BY DEF Load, Procs, Scope
<1>2. TypeOK'
  <2>1. imported \cap Mine(p) \in SUBSET Resources
    BY DEF Mine
  <2>2. [r \in Resources |-> IF r \in Mine(p) THEN files[r] ELSE 0]
          \in [Resources -> 0..MaxId]
    BY LazyAssumption DEF TypeOK
  <2>3. QED BY <1>1, <2>1, <2>2 DEF Load, TypeOK, org
<1>3. ASSUME NEW q \in Procs PROVE Knows(q)'
  <2>1. CASE q = p
    <3>1. source'[p] = imported \cap Mine(p) /\ phase'[p] = "scan"
          /\ attempted'[p] = {}
          /\ destination'[p] = [r \in Resources |-> IF r \in Mine(p) THEN files[r] ELSE 0]
      BY <1>1 DEF Load, TypeOK, LookedUp, Knows
    <3>2. QED BY <1>1, <2>1, <3>1 DEF Knows, org
  <2>2. CASE q # p
    BY <1>1, <2>2, OthersKnow DEF Load, TypeOK, LookedUp, org
  <2>3. QED BY <2>1, <2>2
<1>4. QED BY <1>1, <1>2, <1>3 DEF LookedUp

\* ensure_resource_loaded keeps it, between the load and the apply.
LEMMA ScanInv ==
  ASSUME LazyInv, NEW p \in Procs, NEW r \in Resources, Scan(p, r)
  PROVE  LazyInv'
<1> USE DEF LazyInv
<1> DEFINE deps == Unresolved(p, r)
<1>1. /\ Procs' = Procs /\ UNCHANGED <<mode, org, phase, deleted>>
      /\ phase[p] = "scan" /\ Ensure(p, deps)
      /\ finished' = finished /\ failed' = failed /\ sent' = sent
  BY DEF Scan, Procs, Scope
<1>2. deps \subseteq Resources
  BY LazyAssumption DEF Unresolved
<1>3. /\ source'[p] = source[p] \cup (Wanted(p, deps) \cap imported)
      /\ attempted'[p] = attempted[p] \cup deps
      /\ destination'[p] = [d \in Resources |->
           IF d \in Wanted(p, deps) /\ files[d] # 0 THEN files[d]
                                                    ELSE destination[p][d]]
  BY <1>1 DEF Ensure, TypeOK
<1>4. TypeOK'
  <2>1. edges' \in [Procs -> [Resources -> SUBSET Resources]]
    BY <1>2 DEF Scan, TypeOK
  <2>2. source[p] \cup (Wanted(p, deps) \cap imported) \subseteq Resources
    BY DEF TypeOK
  <2>3. destination' \in [Procs -> [Resources -> 0..MaxId]]
    BY <1>1 DEF Ensure, TypeOK
  <2>4. scanned' \in [Procs -> SUBSET Resources]
    BY DEF Scan, TypeOK
  <2>5. source' \in [Procs -> SUBSET Resources] /\ attempted' \in [Procs -> SUBSET Resources]
    BY <1>1, <1>2, <2>2 DEF Ensure, TypeOK
  <2>6. QED BY <1>1, <2>1, <2>3, <2>4, <2>5 DEF TypeOK, org
<1>5. ASSUME NEW q \in Procs PROVE Knows(q)'
  <2>1. CASE q = p
    BY <1>1, <1>2, <1>3, <2>1 DEF Knows, LookedUp, org, Wanted, TypeOK
  <2>2. CASE q # p
    BY <1>1, <2>2, OthersKnow DEF Ensure, TypeOK, LookedUp, org
  <2>3. QED BY <2>1, <2>2
<1>6. QED BY <1>1, <1>4, <1>5 DEF LookedUp

\* The graph is complete, and run_sorter passes over a node.
LEMMA ScannedInv == ASSUME LazyInv, NEW p \in Procs, Scanned(p) PROVE LazyInv'
<1> USE DEF LazyInv
<1>1. /\ Procs' = Procs
      /\ UNCHANGED <<mode, org, mem, scanned, edges, finished, failed, sent, deleted>>
      /\ phase[p] = "scan" /\ phase' = [phase EXCEPT ![p] = "cleanup"]
  BY DEF Scanned, Procs, Scope
<1>2. TypeOK'
  BY <1>1 DEF TypeOK, org, mem
<1>3. LookedUp'
  BY <1>1 DEF TypeOK, LookedUp, Knows, org, mem
<1>4. QED BY <1>2, <1>3

LEMMA PassOverInv ==
  ASSUME LazyInv, NEW p \in Procs, NEW r \in Resources, PassOver(p, r)
  PROVE  LazyInv'
<1> USE DEF LazyInv
<1>1. /\ Procs' = Procs
      /\ UNCHANGED <<mode, org, mem, phase, scanned, edges, failed, sent, deleted>>
      /\ finished' = [finished EXCEPT ![p] = @ \cup {r}]
  BY DEF PassOver, Procs, Scope
<1>2. TypeOK'
  BY <1>1 DEF TypeOK, org, mem
<1>3. LookedUp'
  BY <1>1 DEF LookedUp, Knows, org, mem
<1>4. QED BY <1>2, <1>3

\* A resource that is deleted was not imported, or is not one that the process
\* looked up: what it looked up and was imported is in its source state.
LEMMA DeleteInv ==
  ASSUME LazyInv, NEW p \in Procs, NEW r \in Resources, Delete(p, r)
  PROVE  LazyInv'
<1> USE DEF LazyInv
<1>1. /\ Procs' = Procs
      /\ UNCHANGED <<mode, imported, files, phase, source, attempted, scanned,
                     edges, finished, failed, sent>>
      /\ phase[p] = "cleanup" /\ r \notin source[p]
      /\ live' \subseteq live
      /\ destination' = [destination EXCEPT ![p] = [destination[p] EXCEPT ![r] = 0]]
      /\ deleted' = [deleted EXCEPT ![p] = @ \cup {r}]
  BY DEF Delete, Procs, Scope, Orphans, Forgotten
<1>2. TypeOK'
  <2>1. destination' \in [Procs -> [Resources -> 0..MaxId]]
    BY <1>1, LazyAssumption DEF TypeOK
  <2>2. deleted' \in [Procs -> SUBSET Resources]
    BY <1>1 DEF TypeOK
  <2>3. QED BY <1>1, <2>1, <2>2 DEF TypeOK
<1>3. ASSUME NEW q \in Procs PROVE Knows(q)'
  <2>1. CASE q = p
    <3>1. /\ destination'[p] = [destination[p] EXCEPT ![r] = 0]
          /\ destination[p] \in [Resources -> 0..MaxId]
          /\ deleted'[p] = deleted[p] \cup {r}
          /\ attempted[p] \subseteq Resources
      BY <1>1 DEF TypeOK
    <3>2. Knows(p)
      BY DEF LookedUp
    <3>3. QED BY <1>1, <2>1, <3>1, <3>2 DEF Knows
  <2>2. CASE q # p
    BY <1>1, <2>2, OthersKnow DEF TypeOK, LookedUp
  <2>3. QED BY <2>1, <2>2
<1>4. QED BY <1>1, <1>2, <1>3 DEF LookedUp

\* The refresh marks what it read as looked up, and only that.
LEMMA BeginApplyInv ==
  ASSUME LazyInv, NEW p \in Procs, BeginApply(p) PROVE LazyInv'
<1> USE DEF LazyInv
<1>1. /\ Procs' = Procs
      /\ UNCHANGED <<mode, org, source, scanned, edges, finished, failed, sent,
                     deleted>>
      /\ phase[p] = "cleanup" /\ phase' = [phase EXCEPT ![p] = "apply"]
  BY DEF BeginApply, Procs, Scope
<1>2. Types(p) \subseteq Resources
  BY DEF Types
<1>3. TypeOK /\ Knows(p) /\ attempted[p] \subseteq Resources
  BY DEF TypeOK, LookedUp
<1>4. CASE Refresh
  <2> DEFINE dest == [r \in Resources |-> IF r \in Types(p) THEN Kept(p, r)
                                                          ELSE destination[p][r]]
             att == attempted[p] \cup {r \in Types(p) : files[r] # 0}
  <2>1. /\ destination' = [destination EXCEPT ![p] = dest]
        /\ attempted' = [attempted EXCEPT ![p] = att]
    BY <1>4 DEF BeginApply
  <2>2. dest \in [Resources -> 0..MaxId] /\ att \in SUBSET Resources
    BY <1>2, <1>3 DEF TypeOK, Kept
  <2>3. destination'[p] = dest /\ attempted'[p] = att
    BY <2>1, <1>3 DEF TypeOK
  <2>4. TypeOK'
    BY <1>1, <1>3, <2>1, <2>2 DEF TypeOK, org
  <2>5. ASSUME NEW q \in Procs PROVE Knows(q)'
    <3>1. CASE q = p
      <4>1. phase'[p] = "apply"
        BY <1>1, <1>3 DEF TypeOK
      <4>2. \A d \in Resources :
              /\ destination[p][d] # 0 => dest[d] # 0
              /\ files[d] # 0 /\ d \in Types(p) => dest[d] # 0
              /\ dest[d] # 0 => destination[p][d] # 0 \/ files[d] # 0
        BY <1>2, <1>3 DEF Kept, TypeOK
      <4>3. QED BY <1>1, <1>2, <1>3, <2>3, <3>1, <4>1, <4>2 DEF Knows, org
    <3>2. CASE q # p
      BY <1>1, <1>3, <2>1, <3>2, OthersKnow DEF TypeOK, LookedUp, org
    <3>3. QED BY <3>1, <3>2
  <2>6. QED BY <1>1, <2>4, <2>5 DEF LookedUp
<1>5. CASE ~Refresh
  <2>1. UNCHANGED <<destination, attempted>>
    BY <1>5 DEF BeginApply
  <2>2. TypeOK'
    BY <1>1, <1>3, <2>1 DEF TypeOK, org
  <2>3. LookedUp'
    BY <1>1, <1>3, <2>1 DEF TypeOK, LookedUp, Knows, org
  <2>4. QED BY <2>2, <2>3
<1>6. QED BY <1>4, <1>5

\* An apply loads what was missing, and may create r with an id.
LEMMA ApplyWrites ==
  ASSUME NEW p \in Procs, NEW r \in Resources, Apply(p, r)
  PROVE  \E dest :
           /\ destination' = [destination EXCEPT ![p] = dest]
           /\ \/ dest = Loaded(p, r) /\ live' = live
              \/ /\ Loaded(p, r)[r] = 0
                 /\ \E i \in 1..MaxId : /\ dest = [Loaded(p, r) EXCEPT ![r] = i]
                                       /\ live' = live \cup {<<r, i>>}
<1>1. CASE /\ destination' = [destination EXCEPT ![p] = Loaded(p, r)]
           /\ UNCHANGED live
  BY <1>1
<1>2. CASE /\ Loaded(p, r)[r] = 0
           /\ \E i \in NewIds(r) :
                /\ live' = live \cup {<<r, i>>}
                /\ destination' = [destination EXCEPT ![p] =
                                     [Loaded(p, r) EXCEPT ![r] = i]]
  <2>1. PICK i \in NewIds(r) :
           /\ live' = live \cup {<<r, i>>}
           /\ destination' = [destination EXCEPT ![p] =
                                [Loaded(p, r) EXCEPT ![r] = i]]
    BY <1>2
  <2>2. i \in 1..MaxId
    BY DEF NewIds
  <2>3. QED BY <1>2, <2>1, <2>2
<1>3. \/ destination' = [destination EXCEPT ![p] = Loaded(p, r)] /\ UNCHANGED live
      \/ /\ Loaded(p, r)[r] = 0
         /\ \E i \in NewIds(r) :
              /\ live' = live \cup {<<r, i>>}
              /\ destination' = [destination EXCEPT ![p] =
                                   [Loaded(p, r) EXCEPT ![r] = i]]
  BY DEF Apply
<1>4. QED BY <1>1, <1>2, <1>3

\* A resource is created with an id that it has not had; everything else that
\* an apply changes, it changes as ensure_resource_loaded does.
LEMMA ApplyInv ==
  ASSUME LazyInv, NEW p \in Procs, NEW r \in Resources, Apply(p, r)
  PROVE  LazyInv'
<1> USE DEF LazyInv
<1> DEFINE late == Late(p, r)
           want == Wanted(p, late)
<1>1. /\ Procs' = Procs
      /\ UNCHANGED <<mode, imported, files, phase, scanned, edges, deleted>>
      /\ phase[p] = "apply" /\ r \in source[p]
      /\ source' = [source EXCEPT ![p] = @ \cup (want \cap imported)]
      /\ attempted' = [attempted EXCEPT ![p] = @ \cup late]
      /\ finished' = [finished EXCEPT ![p] = @ \cup {r}]
  BY DEF Apply, Procs, Scope
<1>2. PICK dest :
        /\ destination' = [destination EXCEPT ![p] = dest]
        /\ \/ dest = Loaded(p, r) /\ live' = live
           \/ \E i \in 1..MaxId : /\ dest = [Loaded(p, r) EXCEPT ![r] = i]
                                 /\ live' = live \cup {<<r, i>>}
  BY ApplyWrites
<1>3. TypeOK /\ Knows(p) /\ late \subseteq Resources /\ want \subseteq late
      /\ attempted[p] \subseteq Resources /\ source[p] \subseteq Resources
  BY LazyAssumption DEF TypeOK, LookedUp, Late, Unresolved, Wanted
<1>4. Loaded(p, r) \in [Resources -> 0..MaxId]
  BY <1>3 DEF Loaded, IdNow, TypeOK
<1>5. dest \in [Resources -> 0..MaxId] /\ live' \subseteq Resources \X (0..MaxId)
  <2>1. live \subseteq Resources \X (0..MaxId)
    BY <1>3 DEF TypeOK
  <2>2. CASE dest = Loaded(p, r) /\ live' = live
    BY <1>4, <2>1, <2>2
  <2>3. CASE \E i \in 1..MaxId : /\ dest = [Loaded(p, r) EXCEPT ![r] = i]
                                 /\ live' = live \cup {<<r, i>>}
    <3>1. PICK i \in 1..MaxId : /\ dest = [Loaded(p, r) EXCEPT ![r] = i]
                                /\ live' = live \cup {<<r, i>>}
      BY <2>3
    <3>2. i \in 0..MaxId
      BY LazyAssumption
    <3>3. dest \in [Resources -> 0..MaxId]
      BY <1>4, <3>1, <3>2
    <3>4. <<r, i>> \in Resources \X (0..MaxId)
      BY <3>2
    <3>5. QED BY <2>1, <3>1, <3>3, <3>4
  <2>4. QED BY <1>2, <2>2, <2>3
<1>6. TypeOK'
  <2>1. destination' \in [Procs -> [Resources -> 0..MaxId]]
    BY <1>2, <1>3, <1>5 DEF TypeOK
  <2>2. /\ source' \in [Procs -> SUBSET Resources]
        /\ attempted' \in [Procs -> SUBSET Resources]
        /\ finished' \in [Procs -> SUBSET Resources]
    BY <1>1, <1>3 DEF TypeOK
  <2>3. failed' \in [Procs -> SUBSET Resources]
    <3>1. failed' = [failed EXCEPT ![p] = @ \cup {r}] \/ failed' = failed
      BY DEF Apply
    <3>2. failed \in [Procs -> SUBSET Resources]
      BY <1>3 DEF TypeOK
    <3>3. QED BY ONLY <3>1, <3>2, r \in Resources, p \in Procs
  <2>4. sent' \in [Procs -> [Resources -> SUBSET Resources]]
    <3>1. Refs[r] \ Dropped(p, r) \in SUBSET Resources
      BY LazyAssumption
    <3>2. CASE UNCHANGED sent
      BY <1>3, <3>2 DEF TypeOK
    <3>3. CASE sent' = [sent EXCEPT ![p][r] = Refs[r] \ Dropped(p, r)]
      BY <1>3, <3>1, <3>3 DEF TypeOK
    <3>4. QED BY <3>2, <3>3 DEF Apply
  <2>5. QED BY <1>1, <1>3, <1>5, <2>1, <2>2, <2>3, <2>4 DEF TypeOK
<1>7. ASSUME NEW q \in Procs PROVE Knows(q)'
  <2>1. CASE q = p
    <3>1. /\ destination'[p] = dest /\ source'[p] = source[p] \cup (want \cap imported)
          /\ attempted'[p] = attempted[p] \cup late
          /\ phase'[p] = "apply" /\ deleted'[p] = deleted[p]
      BY <1>1, <1>2, <1>3 DEF TypeOK
    <3>2. \A d \in Resources : d # r => dest[d] = Loaded(p, r)[d]
      BY <1>2, <1>4
    <3>3. Loaded(p, r)[r] # 0 => dest[r] # 0
      BY <1>2, <1>4, LazyAssumption
    <3>4. r \in imported
      BY <1>1, <1>3 DEF Knows
    <3>5. \A d \in Resources :
            /\ destination[p][d] # 0 => Loaded(p, r)[d] # 0
            /\ d \in want => (Loaded(p, r)[d] = 0 <=> files[d] = 0)
            /\ d \in late \ want => d \in attempted[p]
            /\ d \notin want => Loaded(p, r)[d] = destination[p][d]
      BY <1>3 DEF Loaded, IdNow, Wanted, Late, Unresolved, TypeOK
    <3>6. QED
      BY <1>1, <1>3, <2>1, <3>1, <3>2, <3>3, <3>4, <3>5 DEF Knows
  <2>2. CASE q # p
    BY <1>1, <1>2, <1>3, <2>2, OthersKnow DEF TypeOK, LookedUp
  <2>3. QED BY <2>1, <2>2
<1>8. QED BY <1>1, <1>6, <1>7 DEF LookedUp

\* A dump writes no file for a resource that was not imported and has none.
LEMMA DumpInv == ASSUME LazyInv, NEW p \in Procs, Dump(p) PROVE LazyInv'
<1> USE DEF LazyInv
<1>1. /\ Procs' = Procs
      /\ UNCHANGED <<mode, imported, live, mem, scanned, edges, finished, failed,
                     sent, deleted>>
      /\ phase[p] = "apply" /\ phase' = [phase EXCEPT ![p] = "ended"]
      /\ files' = [r \in Resources |->
                     IF Written(p, r) THEN destination[p][r] ELSE files[r]]
  BY DEF Dump, Procs, Scope
<1>2. TypeOK /\ Knows(p)
  BY DEF LookedUp
<1>3. files' \in [Resources -> 0..MaxId]
  BY <1>1, <1>2 DEF TypeOK
<1>4. TypeOK'
  BY <1>1, <1>2, <1>3 DEF TypeOK, mem
<1>5. \A d \in Resources \ imported : (files'[d] = 0) <=> (files[d] = 0)
  BY <1>1, <1>2 DEF Knows, Written
<1>6. ASSUME NEW q \in Procs PROVE Knows(q)'
  <2>1. CASE q = p
    <3>1. phase'[p] = "ended" /\ attempted[p] \subseteq Resources
      BY <1>1, <1>2 DEF TypeOK
    <3>2. QED BY <1>1, <1>2, <1>5, <2>1, <3>1 DEF Knows, mem
  <2>2. CASE q # p
    BY <1>1, <1>2, <1>5, <2>2, OthersKnow DEF TypeOK, LookedUp, mem
  <2>3. QED BY <2>1, <2>2
<1>7. QED BY <1>1, <1>4, <1>6 DEF LookedUp

\* No step leaves the invariant.
LEMMA NextInv == LazyInv /\ [Next]_vars => LazyInv'
<1> SUFFICES ASSUME LazyInv, [Next]_vars PROVE LazyInv'
  OBVIOUS
<1>1. ASSUME NEW p \in Procs, Step(p) PROVE LazyInv'
  BY <1>1, LoadInv, ScanInv, ScannedInv, DeleteInv, BeginApplyInv, PassOverInv,
     ApplyInv, DumpInv DEF Step
<1>2. CASE UNCHANGED vars
  BY <1>2, Stutter
<1>3. QED BY <1>1, <1>2 DEF Next, Ended

\* Every variable keeps its type.
THEOREM TypeOKCorrect == Spec => []TypeOK
<1>1. LazyInv => TypeOK
  BY DEF LazyInv
<1>2. QED BY <1>1, InitInv, NextInv, PTL DEF Spec

\* What a step that applies r does: it is a step of Apply that does not raise.
LEMMA AppliesIs ==
  ASSUME LazyInv, [Next]_vars, NEW p \in Procs, NEW r \in Applies(p)
  PROVE  Apply(p, r) /\ ~Raises(p, r) /\ sent'[p][r] = Refs[r] \ Dropped(p, r)
<1> USE DEF LazyInv
<1>1. /\ r \in source[p] /\ r \in finished'[p] /\ r \notin finished[p]
      /\ ~Resolved(p, r) /\ r \notin failed'[p] /\ r \in Resources
  BY DEF Applies, TypeOK
<1>2. finished' # finished
  BY <1>1
<1>3. PICK q \in Procs, s \in Resources : PassOver(q, s) \/ Apply(q, s)
  BY <1>2 DEF Next, Step, Ended, Load, Scanned, BeginApply, Dump, Scan, Delete, vars
<1>4. finished' = [finished EXCEPT ![q] = @ \cup {s}]
  BY <1>3 DEF PassOver, Apply
<1>5. q = p /\ s = r
  BY <1>1, <1>4 DEF TypeOK
<1>6. Apply(p, r)
  BY <1>1, <1>3, <1>5 DEF PassOver
<1>7. /\ ~Raises(p, r)
      /\ sent' = [sent EXCEPT ![p][r] = Refs[r] \ Dropped(p, r)]
  <2>1. failed \in [Procs -> SUBSET Resources]
    BY DEF TypeOK
  <2>2. failed' # [failed EXCEPT ![p] = @ \cup {r}]
    BY <1>1, <2>1
  <2>3. QED BY <1>6, <2>2 DEF Apply
<1>8. QED BY <1>1, <1>6, <1>7 DEF TypeOK

\* A principal that is left out of what is applied is gone: it was not imported,
\* and no file has its counterpart, unless this process deleted it.
LEMMA DroppedIsGone ==
  ASSUME LazyInv, NEW p \in Procs, NEW r \in Resources, NEW d \in Dropped(p, r)
  PROVE  /\ Drop /\ d \in Principals /\ d \notin imported
         /\ files[d] = 0 \/ d \in deleted[p]
<1>1. /\ Drop /\ d \in Late(p, r) /\ d \notin source[p] /\ IdNow(p, r, d) = 0
      /\ d \notin Wanted(p, Late(p, r)) \cap imported
  BY DEF Dropped, Stale
<1>2. d \in Principals /\ d \in Resources /\ destination[p][d] = 0
  BY <1>1, LazyAssumption DEF Late, Unresolved
<1>3. CASE d \in Wanted(p, Late(p, r))
  BY <1>1, <1>2, <1>3 DEF IdNow
<1>4. CASE d \notin Wanted(p, Late(p, r))
  <2>1. d \in attempted[p]
    BY <1>1, <1>4 DEF Wanted
  <2>2. Knows(p)
    BY DEF LazyInv, LookedUp
  <2>3. QED BY <1>1, <1>2, <2>1, <2>2 DEF Knows
<1>5. QED BY <1>3, <1>4

\* Whatever processes run when over the files, an access list loses only
\* principals that are gone, and no resource is written with a list that this
\* emptied unless --skip-failed-resource-connections asks for it.
THEOREM ListsKeptCorrect == Spec => ListsKept
<1> DEFINE kept(p, r) ==
      /\ \A d \in Refs[r] \ sent'[p][r] :
           /\ Drop /\ d \in Principals /\ d \notin imported
           /\ files[d] = 0 \/ d \in deleted[p]
      /\ SkipFailed \/ \A list \in Lists[r] :
                         list = {} \/ list \cap sent'[p][r] # {}
<1>1. ASSUME LazyInv, [Next]_vars, NEW p \in Procs, NEW r \in Applies(p)
      PROVE  kept(p, r)
  <2>1. Apply(p, r) /\ ~Raises(p, r) /\ sent'[p][r] = Refs[r] \ Dropped(p, r)
    BY <1>1, AppliesIs
  <2>2. r \in Resources
    BY <1>1 DEF Applies, LazyInv, TypeOK
  <2>3. ASSUME NEW d \in Refs[r] \ sent'[p][r]
        PROVE  /\ Drop /\ d \in Principals /\ d \notin imported
               /\ files[d] = 0 \/ d \in deleted[p]
    BY <1>1, <2>1, <2>2, <2>3, DroppedIsGone
  <2>4. ASSUME ~SkipFailed, NEW list \in Lists[r], list # {}
        PROVE  list \cap sent'[p][r] # {}
    <3>1. ~Emptied(p, r)
      BY <2>1, <2>4 DEF Raises
    <3>2. list \subseteq Refs[r]
      BY <2>2, LazyAssumption
    <3>3. QED BY <2>1, <2>4, <3>1, <3>2 DEF Emptied
  <2>5. QED BY <2>3, <2>4
<1>2. LazyInv /\ [Next]_vars => [\A p \in Procs : \A r \in Applies(p) : kept(p, r)]_vars
  BY <1>1
<1>3. QED BY <1>2, InitInv, NextInv, PTL DEF Spec, ListsKept
-----------------------------------------------------------------------------
(* CreatedOnce.                                                            *)

\* A process that applies is alone, and one that does not overlap is alone from
\* its load on.
Turns ==
  \A p, q \in Procs :
    q < p /\ (phase[p] \in {"apply", "ended"} \/ (~Overlap /\ phase[p] # "idle"))
      => phase[q] = "ended"

\* What the graph of p is made of was read: its own resources at the load, the
\* others when they were met.
Reads(p) ==
  /\ scanned[p] \subseteq imported \cap Mine(p)
  /\ \A r \in scanned[p] : edges[p][r] \subseteq attempted[p]
  /\ phase[p] # "idle" => imported \cap Mine(p) \subseteq source[p]

\* p has seen the file of d, if there is one.
Seen(p, d) == files[d] # 0 => destination[p][d] # 0

Fresh(p) ==
  /\ phase[p] \in {"scan", "cleanup"} /\ ~Overlap =>
       \A d \in imported \cap (Mine(p) \cup attempted[p]) : Seen(p, d)
  /\ phase[p] = "apply" => \A d \in imported \cap Nodes(p) : Seen(p, d)

\* There is one counterpart, which a file or the process that applies knows.
Single(r) ==
  /\ \A i, j \in 0..MaxId : <<r, i>> \in live /\ <<r, j>> \in live => i = j
  /\ r \in imported /\ (\E i \in 0..MaxId : <<r, i>> \in live) =>
       \/ files[r] # 0
       \/ \E p \in Procs : phase[p] = "apply" /\ destination[p][r] # 0

OnceFacts ==
  /\ Turns
  /\ \A p \in Procs : Reads(p)
  /\ InTurn => /\ \A p \in Procs : Fresh(p)
               /\ \A r \in Resources : Single(r)

OnceInv == LazyInv /\ OnceFacts

\* Processes are numbered.
LEMMA ProcsAreNumbers == ASSUME LazyInv PROVE Procs \subseteq Nat
<1>1. mode \in Mode
  BY LazyAssumption DEF LazyInv, TypeOK
<1>2. QED BY <1>1 DEF Procs, Scope, Mode

\* What no step changes.
LEMMA Fixed ==
  ASSUME NEW p \in Procs, Step(p)
  PROVE  /\ mode' = mode /\ imported' = imported /\ Procs' = Procs
         /\ Overlap' = Overlap /\ InTurn' = InTurn
         /\ \A q : Mine(q)' = Mine(q)
<1>1. mode' = mode /\ imported' = imported
  BY DEF Step, Load, Scan, Scanned, Delete, BeginApply, PassOver, Apply, Dump, org
<1>2. QED BY <1>1 DEF Procs, Scope, Overlap, InTurn, Refresh, Mine

LEMMA TurnsStep ==
  ASSUME OnceInv, NEW p \in Procs, Step(p) PROVE Turns'
<1>1. TypeOK /\ Turns /\ Procs \subseteq Nat /\ Procs' = Procs /\ Overlap' = Overlap
  BY Fixed, ProcsAreNumbers DEF OnceInv, LazyInv, OnceFacts
<1>2. phase \in [Procs -> {"idle", "scan", "cleanup", "apply", "ended"}]
  BY <1>1 DEF TypeOK
<1>3. CASE Load(p)
  <2>1. /\ phase[p] = "idle" /\ phase' = [phase EXCEPT ![p] = "scan"]
        /\ ~Overlap => \A q \in Procs : q < p => phase[q] = "ended"
    BY <1>3 DEF Load, Started
  <2>2. QED BY <1>1, <1>2, <2>1 DEF Turns
<1>4. CASE Scanned(p)
  <2>1. phase[p] = "scan" /\ phase' = [phase EXCEPT ![p] = "cleanup"]
    BY <1>4 DEF Scanned
  <2>2. QED BY <1>1, <1>2, <2>1 DEF Turns
<1>5. CASE BeginApply(p)
  <2>1. /\ phase[p] = "cleanup" /\ phase' = [phase EXCEPT ![p] = "apply"]
        /\ \A q \in Procs : q < p => phase[q] = "ended"
    BY <1>5 DEF BeginApply
  <2>2. QED BY <1>1, <1>2, <2>1 DEF Turns
<1>6. CASE Dump(p)
  <2>1. phase[p] = "apply" /\ phase' = [phase EXCEPT ![p] = "ended"]
    BY <1>6 DEF Dump
  <2>2. QED BY <1>1, <1>2, <2>1 DEF Turns
<1>7. CASE \E r \in Resources : Scan(p, r) \/ Delete(p, r) \/ PassOver(p, r) \/ Apply(p, r)
  <2>1. phase' = phase
    BY <1>7 DEF Scan, Delete, PassOver, Apply
  <2>2. QED BY <1>1, <2>1 DEF Turns
<1>8. QED BY <1>3, <1>4, <1>5, <1>6, <1>7 DEF Step
\* A step of p is about p.
LEMMA OthersStay ==
  ASSUME OnceInv, NEW p \in Procs, Step(p), NEW q \in Procs, q # p
  PROVE  /\ phase'[q] = phase[q] /\ source'[q] = source[q]
         /\ attempted'[q] = attempted[q] /\ destination'[q] = destination[q]
         /\ scanned'[q] = scanned[q] /\ edges'[q] = edges[q]
<1>1. TypeOK
  BY DEF OnceInv, LazyInv
<1>2. CASE Load(p) \/ Scanned(p) \/ BeginApply(p) \/ Dump(p)
  BY <1>1, <1>2 DEF TypeOK, Load, Scanned, BeginApply, Dump, org, mem
<1>3. CASE \E r \in Resources : Scan(p, r)
  BY <1>1, <1>3 DEF TypeOK, Scan, Ensure
<1>4. CASE \E r \in Resources : Delete(p, r) \/ PassOver(p, r)
  BY <1>1, <1>4 DEF TypeOK, Delete, PassOver, org, mem
<1>5. CASE \E r \in Resources : Apply(p, r)
  <2>1. PICK r \in Resources : Apply(p, r)
    BY <1>5
  <2>2. /\ source' = [source EXCEPT ![p] = @ \cup (Wanted(p, Late(p, r)) \cap imported)]
        /\ attempted' = [attempted EXCEPT ![p] = @ \cup Late(p, r)]
        /\ UNCHANGED <<phase, scanned, edges>>
    BY <2>1 DEF Apply
  <2>3. destination'[q] = destination[q]
    BY <1>1, <2>1 DEF TypeOK, Apply
  <2>4. QED BY <1>1, <2>2, <2>3 DEF TypeOK
<1>6. QED BY <1>2, <1>3, <1>4, <1>5 DEF Step

LEMMA ReadsStep ==
  ASSUME OnceInv, NEW p \in Procs, Step(p), NEW q \in Procs
  PROVE  Reads(q)'
<1>1. TypeOK /\ Reads(q) /\ imported' = imported /\ Mine(q)' = Mine(q)
  BY Fixed DEF OnceInv, LazyInv, OnceFacts
<1>2. CASE q # p
  BY <1>1, <1>2, OthersStay DEF Reads
<1>3. CASE q = p
  <2> USE <1>3
  <2>1. CASE Load(p)
    BY <1>1, <2>1 DEF Load, Reads, TypeOK
  <2>2. CASE Scanned(p)
    BY <1>1, <2>2 DEF Scanned, Reads, TypeOK, mem
  <2>3. CASE BeginApply(p)
    <3>1. /\ UNCHANGED <<source, scanned, edges>>
          /\ phase[p] = "cleanup"
      BY <2>3 DEF BeginApply
    <3>2. attempted[p] \subseteq attempted'[p]
      BY <1>1, <2>3 DEF BeginApply, TypeOK
    <3>3. QED BY <1>1, <3>1, <3>2 DEF Reads
  <2>4. CASE Dump(p)
    BY <1>1, <2>4 DEF Dump, Reads, TypeOK, mem
  <2>5. ASSUME NEW r \in Resources, Scan(p, r) PROVE Reads(p)'
    <3> DEFINE deps == Unresolved(p, r)
    <3>1. /\ r \in imported \cap Mine(p) /\ phase' = phase
          /\ edges' = [edges EXCEPT ![p][r] = deps]
          /\ scanned' = [scanned EXCEPT ![p] = @ \cup {r}]
          /\ attempted' = [attempted EXCEPT ![p] = @ \cup deps]
          /\ source' = [source EXCEPT ![p] = @ \cup (Wanted(p, deps) \cap imported)]
      BY <2>5 DEF Scan, Ensure
    <3>2. /\ edges'[p][r] = deps
          /\ \A s \in Resources \ {r} : edges'[p][s] = edges[p][s]
      BY <1>1, <3>1 DEF TypeOK
    <3>3. /\ scanned'[p] = scanned[p] \cup {r}
          /\ attempted'[p] = attempted[p] \cup deps
          /\ source[p] \subseteq source'[p] /\ scanned[p] \subseteq Resources
      BY <1>1, <3>1 DEF TypeOK
    <3>4. QED BY <1>1, <3>1, <3>2, <3>3 DEF Reads
  <2>6. CASE \E r \in Resources : Delete(p, r) \/ PassOver(p, r)
    BY <1>1, <2>6 DEF Delete, PassOver, Reads, mem
  <2>7. ASSUME NEW r \in Resources, Apply(p, r) PROVE Reads(p)'
    <3>1. /\ source' = [source EXCEPT ![p] = @ \cup (Wanted(p, Late(p, r)) \cap imported)]
          /\ attempted' = [attempted EXCEPT ![p] = @ \cup Late(p, r)]
          /\ UNCHANGED <<phase, scanned, edges>>
      BY <2>7 DEF Apply
    <3>2. source[p] \subseteq source'[p] /\ attempted[p] \subseteq attempted'[p]
      BY <1>1, <3>1 DEF TypeOK
    <3>3. QED BY <1>1, <3>1, <3>2 DEF Reads
  <2>8. QED BY <2>1, <2>2, <2>3, <2>4, <2>5, <2>6, <2>7 DEF Step
<1>4. QED BY <1>2, <1>3

\* A file is written by the process that applies, which is alone then.
LEMMA FilesStay ==
  ASSUME OnceInv, NEW p \in Procs, Step(p), NEW q \in Procs, q # p,
         phase[q] = "apply" \/ (~Overlap /\ phase[q] \in {"scan", "cleanup"})
  PROVE  files' = files
<1>1. Turns /\ Procs \subseteq Nat
  BY ProcsAreNumbers DEF OnceInv, OnceFacts
<1>2. phase[p] # "apply"
  <2>1. q < p \/ p < q
    BY <1>1
  <2>2. CASE q < p
    BY <1>1, <2>2 DEF Turns
  <2>3. CASE p < q
    BY <1>1, <2>3 DEF Turns
  <2>4. QED BY <2>1, <2>2, <2>3
<1>3. QED
  BY <1>2 DEF Step, Load, Scan, Scanned, Delete, BeginApply, PassOver, Apply, Dump, org

\* What an apply does to the entries: none is lost, and only r gets one that no
\* file has.
LEMMA ApplyEntries ==
  ASSUME OnceInv, NEW p \in Procs, NEW r \in Resources, Apply(p, r)
  PROVE  /\ \A d \in Resources : destination[p][d] # 0 => destination'[p][d] # 0
         /\ \/ live' = live
            \/ \E i \in 1..MaxId : /\ live' = live \cup {<<r, i>>}
                                   /\ destination[p][r] = 0 /\ destination'[p][r] # 0
<1>1. TypeOK
  BY DEF OnceInv, LazyInv
<1>2. Loaded(p, r) \in [Resources -> 0..MaxId]
  BY <1>1, LazyAssumption DEF Loaded, IdNow, TypeOK
<1>3. \A d \in Resources : destination[p][d] # 0 => Loaded(p, r)[d] # 0
  BY <1>1 DEF Loaded
<1>4. PICK dest :
        /\ destination' = [destination EXCEPT ![p] = dest]
        /\ \/ dest = Loaded(p, r) /\ live' = live
           \/ /\ Loaded(p, r)[r] = 0
              /\ \E i \in 1..MaxId : /\ dest = [Loaded(p, r) EXCEPT ![r] = i]
                                    /\ live' = live \cup {<<r, i>>}
  BY ApplyWrites
<1>5. destination'[p] = dest
  BY <1>1, <1>4 DEF TypeOK
<1>6. CASE dest = Loaded(p, r) /\ live' = live
  BY <1>3, <1>5, <1>6
<1>7. ASSUME Loaded(p, r)[r] = 0,
             NEW i \in 1..MaxId, dest = [Loaded(p, r) EXCEPT ![r] = i],
             live' = live \cup {<<r, i>>}
      PROVE  /\ \A d \in Resources : destination[p][d] # 0 => destination'[p][d] # 0
             /\ destination[p][r] = 0 /\ destination'[p][r] # 0
  <2>1. /\ dest[r] = i /\ i # 0
        /\ \A d \in Resources \ {r} : dest[d] = Loaded(p, r)[d]
    BY <1>2, <1>7, LazyAssumption
  <2>2. QED BY <1>3, <1>5, <1>7, <2>1
<1>8. QED BY <1>4, <1>6, <1>7

\* A node is one that was examined, or a dependency that failed.
LEMMA NodesAre ==
  ASSUME OnceInv, NEW p \in Procs
  PROVE  /\ Nodes(p) \subseteq Resources
         /\ Nodes(p) \subseteq Mine(p) \cup attempted[p]
<1>1. TypeOK /\ Reads(p)
  BY DEF OnceInv, LazyInv, OnceFacts
<1>2. QED BY <1>1 DEF TypeOK, Reads, Nodes

LEMMA FreshStep ==
  ASSUME OnceInv, InTurn, NEW p \in Procs, Step(p), NEW q \in Procs
  PROVE  Fresh(q)'
<1>1. /\ TypeOK /\ Reads(p) /\ Fresh(q) /\ imported' = imported
      /\ Overlap' = Overlap /\ Mine(q)' = Mine(q) /\ Knows(p)
      /\ imported \subseteq Resources
  BY Fixed DEF OnceInv, LazyInv, OnceFacts, LookedUp, TypeOK
<1>2. CASE q # p
  <2>1. /\ phase'[q] = phase[q] /\ attempted'[q] = attempted[q]
        /\ destination'[q] = destination[q]
        /\ scanned'[q] = scanned[q] /\ edges'[q] = edges[q]
    BY <1>2, OthersStay
  <2>2. Nodes(q)' = Nodes(q)
    BY <2>1 DEF Nodes
  <2>3. phase[q] = "apply" \/ (~Overlap /\ phase[q] \in {"scan", "cleanup"})
           => files' = files
    BY <1>2, FilesStay
  <2>4. QED BY <1>1, <2>1, <2>2, <2>3 DEF Fresh, Seen
<1>3. CASE q = p
  <2> USE <1>3
  <2>1. CASE Load(p)
    <3>1. /\ phase'[p] = "scan" /\ attempted'[p] = {} /\ files' = files
          /\ destination'[p] = [r \in Resources |-> IF r \in Mine(p) THEN files[r] ELSE 0]
      BY <1>1, <2>1 DEF Load, Knows, TypeOK, org
    <3>2. QED BY <1>1, <3>1 DEF Fresh, Seen
  <2>2. ASSUME NEW r \in Resources, Scan(p, r) PROVE Fresh(p)'
    <3> DEFINE deps == Unresolved(p, r)
    <3>1. /\ phase' = phase /\ phase[p] = "scan" /\ files' = files
          /\ attempted'[p] = attempted[p] \cup deps
          /\ destination'[p] = [d \in Resources |->
               IF d \in Wanted(p, deps) /\ files[d] # 0 THEN files[d]
                                                        ELSE destination[p][d]]
      BY <1>1, <2>2 DEF Scan, Ensure, org, TypeOK
    <3>2. QED BY <1>1, <3>1 DEF Fresh, Seen, Wanted
  <2>3. CASE Scanned(p)
    BY <1>1, <2>3 DEF Scanned, Fresh, Seen, TypeOK, org, mem
  <2>4. ASSUME NEW r \in Resources, Delete(p, r) PROVE Fresh(p)'
    <3>1. /\ phase' = phase /\ phase[p] = "cleanup" /\ files' = files
          /\ attempted' = attempted /\ r \in Mine(p) \ source[p]
          /\ destination' = [destination EXCEPT ![p] = [destination[p] EXCEPT ![r] = 0]]
      BY <2>4 DEF Delete, Orphans, Forgotten
    <3>2. r \notin imported
      BY <1>1, <3>1 DEF Reads
    <3>3. \A d \in Resources \ {r} : destination'[p][d] = destination[p][d]
      BY <1>1, <3>1 DEF TypeOK
    <3>4. QED BY <1>1, <3>1, <3>2, <3>3 DEF Fresh, Seen
  <2>5. CASE BeginApply(p)
    <3>1. /\ phase'[p] = "apply" /\ phase[p] = "cleanup"
          /\ UNCHANGED <<files, scanned, edges>>
      BY <1>1, <2>5 DEF BeginApply, TypeOK, org
    <3>2. Nodes(p)' = Nodes(p) /\ Nodes(p) \subseteq Resources
      BY <3>1, NodesAre DEF Nodes
    <3>3. CASE Refresh
      <4>1. destination'[p] = [r \in Resources |-> IF r \in Types(p) THEN Kept(p, r)
                                                                    ELSE destination[p][r]]
        BY <1>1, <2>5, <3>3 DEF BeginApply, TypeOK
      <4>2. \A d \in Nodes(p) : d \in Types(p)
        BY <3>2 DEF Types
      <4>3. QED BY <1>1, <3>1, <3>2, <4>1, <4>2 DEF Fresh, Seen, Kept
    <3>4. CASE ~Refresh
      <4>1. destination' = destination /\ ~Overlap
        BY <2>5, <3>4 DEF BeginApply, InTurn
      <4>2. QED BY <1>1, <3>1, <3>2, <4>1, NodesAre DEF Fresh, Seen
    <3>5. QED BY <3>3, <3>4
  <2>6. ASSUME NEW r \in Resources, PassOver(p, r) PROVE Fresh(p)'
    BY <1>1, <2>6 DEF PassOver, Fresh, Seen, Nodes, org, mem
  <2>7. ASSUME NEW r \in Resources, Apply(p, r) PROVE Fresh(p)'
    <3>1. /\ phase[p] = "apply" /\ UNCHANGED <<phase, files, scanned, edges>>
      BY <2>7 DEF Apply
    <3>2. \A d \in Resources : destination[p][d] # 0 => destination'[p][d] # 0
      BY <2>7, ApplyEntries
    <3>3. Nodes(p)' = Nodes(p)
      BY <3>1 DEF Nodes
    <3>4. QED BY <1>1, <3>1, <3>2, <3>3 DEF Fresh, Seen
  <2>8. CASE Dump(p)
    <3>1. phase'[p] = "ended"
      BY <1>1, <2>8 DEF Dump, TypeOK
    <3>2. QED BY <3>1 DEF Fresh
  <2>9. QED BY <2>1, <2>2, <2>3, <2>4, <2>5, <2>6, <2>7, <2>8 DEF Step
<1>4. QED BY <1>2, <1>3

\* A resource that is created has no counterpart: a file or an entry would tell.
LEMMA CreatedHasNone ==
  ASSUME OnceInv, InTurn, NEW p \in Procs, NEW r \in Resources, Apply(p, r),
         destination[p][r] = 0
  PROVE  r \in imported /\ \A i \in 0..MaxId : <<r, i>> \notin live
<1>1. /\ TypeOK /\ Knows(p) /\ Fresh(p) /\ Single(r) /\ Turns
      /\ Procs \subseteq Nat
  BY ProcsAreNumbers DEF OnceInv, LazyInv, LookedUp, OnceFacts
<1>2. phase[p] = "apply" /\ r \in source[p] /\ r \in Nodes(p)
  BY DEF Apply, Dispatched
<1>3. r \in imported
  BY <1>1, <1>2 DEF Knows
<1>4. files[r] = 0
  BY <1>1, <1>2, <1>3 DEF Fresh, Seen
<1>5. ASSUME NEW q \in Procs, phase[q] = "apply" PROVE q = p
  <2>1. q < p \/ p < q \/ q = p
    BY <1>1
  <2>2. ~(q < p) /\ ~(p < q)
    BY <1>1, <1>2, <1>5 DEF Turns
  <2>3. QED BY <2>1, <2>2
<1>6. QED BY <1>1, <1>3, <1>4, <1>5 DEF Single

LEMMA SingleStep ==
  ASSUME OnceInv, InTurn, NEW p \in Procs, Step(p), NEW r \in Resources
  PROVE  Single(r)'
<1>1. TypeOK /\ Single(r) /\ imported' = imported /\ Procs' = Procs
  BY Fixed DEF OnceInv, LazyInv, OnceFacts
<1>2. \A q \in Procs \ {p} : phase'[q] = phase[q] /\ destination'[q] = destination[q]
  BY OthersStay
<1>3. CASE /\ phase[p] # "apply" /\ live' \subseteq live /\ files' = files
  BY <1>1, <1>2, <1>3 DEF Single
<1>4. CASE \E s \in Resources : PassOver(p, s)
  BY <1>1, <1>4 DEF Single, PassOver, org, mem
<1>5. ASSUME NEW s \in Resources, Apply(p, s) PROVE Single(r)'
  <2>1. /\ phase[p] = "apply" /\ phase' = phase /\ files' = files
        /\ \A d \in Resources : destination[p][d] # 0 => destination'[p][d] # 0
    BY <1>5, ApplyEntries DEF Apply
  <2>2. CASE \A i \in 0..MaxId : <<r, i>> \in live' => <<r, i>> \in live
    BY <1>1, <1>2, <2>1, <2>2 DEF Single
  <2>3. CASE \E i \in 0..MaxId : <<r, i>> \in live' /\ <<r, i>> \notin live
    <3>1. PICK i \in 1..MaxId : /\ live' = live \cup {<<s, i>>}
                                /\ destination[p][s] = 0 /\ destination'[p][s] # 0
      BY <1>5, <2>3, ApplyEntries
    <3>2. s = r
      BY <2>3, <3>1
    <3>3. \A j \in 0..MaxId : <<r, j>> \notin live
      BY <1>5, <3>1, <3>2, CreatedHasNone
    <3>4. \A j \in 0..MaxId : <<r, j>> \in live' => j = i
      BY <3>1, <3>2, <3>3
    <3>5. QED BY <1>1, <2>1, <3>1, <3>2, <3>4 DEF Single
  <2>4. QED BY <2>2, <2>3
<1>6. CASE Dump(p)
  <2>1. /\ live' = live /\ destination' = destination
        /\ \A q \in Procs \ {p} : phase'[q] = phase[q]
        /\ files'[r] = IF destination[p][r] # 0 THEN destination[p][r] ELSE files[r]
    BY <1>1, <1>6 DEF Dump, Written, mem, TypeOK
  <2>2. QED BY <1>1, <2>1 DEF Single
<1>7. CASE Load(p) \/ Scanned(p) \/ BeginApply(p) \/ \E s \in Resources : Scan(p, s)
  BY <1>3, <1>7 DEF Load, Scanned, BeginApply, Scan, org
<1>8. CASE \E s \in Resources : Delete(p, s)
  BY <1>3, <1>8 DEF Delete
<1>9. QED BY <1>4, <1>5, <1>6, <1>7, <1>8 DEF Step

\* No two processes create the same resource, as long as those that overlap refresh
\* their destination state before they apply.
THEOREM CreatedOnceCorrect == Spec => []CreatedOnce
<1>1. Init => OnceInv
  <2> SUFFICES ASSUME Init PROVE OnceInv
    OBVIOUS
  <2>1. LazyInv
    BY InitInv
  <2>2. PICK synced \in SUBSET Resources :
           /\ files = [r \in Resources |-> IF r \in synced THEN 1 ELSE 0]
           /\ live = {<<r, 1>> : r \in synced}
    BY DEF Init
  <2>3. Turns /\ \A p \in Procs : Reads(p) /\ Fresh(p)
    BY DEF Init, Turns, Reads, Fresh
  <2>4. \A r \in Resources : Single(r)
    BY <2>2 DEF Single
  <2>5. QED BY <2>1, <2>3, <2>4 DEF OnceInv, OnceFacts
<1>2. OnceInv /\ [Next]_vars => OnceInv'
  <2> SUFFICES ASSUME OnceInv, [Next]_vars PROVE OnceInv'
    OBVIOUS
  <2>1. LazyInv'
    BY NextInv DEF OnceInv
  <2>2. ASSUME NEW p \in Procs, Step(p) PROVE OnceFacts'
    <3>1. Procs' = Procs /\ InTurn' = InTurn
      BY <2>2, Fixed
    <3>2. Turns' /\ \A q \in Procs : Reads(q)'
      BY <2>2, TurnsStep, ReadsStep
    <3>3. ASSUME InTurn PROVE /\ \A q \in Procs : Fresh(q)'
                              /\ \A r \in Resources : Single(r)'
      BY <2>2, <3>3, FreshStep, SingleStep
    <3>4. QED BY <3>1, <3>2, <3>3 DEF OnceFacts
  <2>3. CASE UNCHANGED vars
    <3>1. /\ Procs' = Procs /\ InTurn' = InTurn /\ Overlap' = Overlap
          /\ UNCHANGED <<org, mem, phase, scanned, edges>> /\ \A q : Mine(q)' = Mine(q)
      BY <2>3 DEF vars, Procs, Scope, InTurn, Overlap, Refresh, Mine
    <3>2. Turns' /\ \A q \in Procs : Reads(q)'
      BY <3>1 DEF OnceInv, OnceFacts, Turns, Reads, org, mem
    <3>3. InTurn => \A q \in Procs : Fresh(q)'
      BY <3>1 DEF OnceInv, OnceFacts, Fresh, Seen, Nodes, org, mem
    <3>4. InTurn => \A r \in Resources : Single(r)'
      BY <3>1 DEF OnceInv, OnceFacts, Single, org, mem
    <3>5. QED BY <2>1, <3>1, <3>2, <3>3, <3>4 DEF OnceInv, OnceFacts
  <2>4. QED BY <2>1, <2>2, <2>3 DEF Next, Ended, OnceInv
<1>3. OnceInv => CreatedOnce
  <2> SUFFICES ASSUME OnceInv, InTurn, NEW r \in Resources
               PROVE  Cardinality({i \in 1..MaxId : <<r, i>> \in live}) <= 1
    BY DEF CreatedOnce
  <2> DEFINE S == {i \in 1..MaxId : <<r, i>> \in live}
  <2>1. CASE S = {}
    <3>1. Cardinality(S) = 0
      BY <2>1, FS_EmptySet
    <3>2. QED BY <3>1
  <2>2. CASE S # {}
    <3>1. PICK i \in S : TRUE
      BY <2>2
    <3>2. \A j \in S : j = i
      BY <3>1 DEF OnceInv, OnceFacts, Single
    <3>3. S = {i}
      BY <3>1, <3>2
    <3>4. Cardinality(S) = 1
      BY <3>3, FS_Singleton
    <3>5. QED BY <3>4
  <2>3. QED BY <2>1, <2>2
<1>4. QED BY <1>1, <1>2, <1>3, PTL DEF Spec
-----------------------------------------------------------------------------
(* AppliedRefsLive.                                                        *)

\* Entries are of what exists, and so are the files until a cleanup begins.
LiveFacts ==
  /\ \A p \in Procs : \A d \in Resources :
       destination[p][d] # 0 => <<d, destination[p][d]>> \in live
  /\ ~Cleanup \/ (\A p \in Procs : phase[p] \in {"idle", "scan"}) =>
       \A d \in Resources : files[d] # 0 => <<d, files[d]>> \in live

LiveInv == LazyInv /\ (NotReadAgain => LiveFacts)

\* What is loaded late is from a file that nothing has made stale.
LEMMA LoadedIsLive ==
  ASSUME LazyInv, NotReadAgain, LiveFacts, NEW p \in Procs, NEW r \in Resources,
         NEW d \in Resources, Loaded(p, r)[d] # 0
  PROVE  <<d, Loaded(p, r)[d]>> \in live
<1>1. CASE d \in Late(p, r) /\ IdNow(p, r, d) # 0
  <2>1. Principals # {} /\ ~Cleanup
    BY <1>1 DEF Late, NotReadAgain
  <2>2. Loaded(p, r)[d] \in {files[d], destination[p][d]}
    BY <1>1 DEF Loaded, IdNow
  <2>3. QED BY <2>1, <2>2 DEF LiveFacts
<1>2. CASE ~(d \in Late(p, r) /\ IdNow(p, r, d) # 0)
  BY <1>2 DEF Loaded, LiveFacts
<1>3. QED BY <1>1, <1>2

LEMMA LiveStep ==
  ASSUME LazyInv, NotReadAgain, LiveFacts, NEW p \in Procs, Step(p)
  PROVE  LiveFacts'
<1> USE DEF LazyInv, LiveFacts
<1>1. mode' = mode /\ Procs' = Procs /\ Cleanup' = Cleanup
  BY Fixed DEF Cleanup
<1>2. CASE Load(p)
  <2>1. /\ files' = files /\ live' = live /\ phase[p] = "idle"
        /\ destination' = [destination EXCEPT ![p] =
             [r \in Resources |-> IF r \in Mine(p) THEN files[r] ELSE 0]]
        /\ phase' = [phase EXCEPT ![p] = "scan"]
    BY <1>2 DEF Load, org
  <2>2. \A d \in Resources : files[d] # 0 => <<d, files[d]>> \in live
    BY <2>1 DEF NotReadAgain
  <2>3. \A d \in Resources : destination'[p][d] \in {0, files[d]}
    BY <2>1 DEF TypeOK
  <2>4. \A q \in Procs \ {p} : destination'[q] = destination[q]
    BY <2>1 DEF TypeOK
  <2>5. QED BY <1>1, <2>1, <2>2, <2>3, <2>4
<1>3. ASSUME NEW r \in Resources, Scan(p, r) PROVE LiveFacts'
  <2> DEFINE deps == Unresolved(p, r)
  <2>1. /\ files' = files /\ live' = live /\ phase' = phase /\ phase[p] = "scan"
        /\ destination' = [destination EXCEPT ![p] =
             [d \in Resources |->
                IF d \in Wanted(p, deps) /\ files[d] # 0 THEN files[d] ELSE @[d]]]
    BY <1>3 DEF Scan, Ensure, org
  <2>2. \A d \in Resources : files[d] # 0 => <<d, files[d]>> \in live
    BY <2>1 DEF NotReadAgain
  <2>3. \A d \in Resources : destination'[p][d] \in {files[d], destination[p][d]}
    BY <2>1 DEF TypeOK
  <2>4. \A q \in Procs \ {p} : destination'[q] = destination[q]
    BY <2>1 DEF TypeOK
  <2>5. QED BY <1>1, <2>1, <2>2, <2>3, <2>4
<1>4. CASE Scanned(p)
  <2>1. /\ UNCHANGED <<files, live, destination>>
        /\ phase[p] = "scan" /\ phase' = [phase EXCEPT ![p] = "cleanup"]
    BY <1>4 DEF Scanned, org, mem
  <2>2. ~Cleanup \/ phase'[p] \notin {"idle", "scan"}
    BY <2>1 DEF TypeOK
  <2>3. QED BY <1>1, <2>1, <2>2
<1>5. ASSUME NEW r \in Resources, Delete(p, r) PROVE LiveFacts'
  <2>1. /\ Cleanup /\ phase[p] = "cleanup" /\ phase' = phase
        /\ live' = live \ {<<r, destination[p][r]>>}
        /\ destination' = [destination EXCEPT ![p] = [destination[p] EXCEPT ![r] = 0]]
    BY <1>5 DEF Delete, Forgotten
  <2>2. \A q \in Procs : q = p
    BY <2>1 DEF NotReadAgain
  <2>3. /\ destination'[p][r] = 0
        /\ \A d \in Resources \ {r} : destination'[p][d] = destination[p][d]
    BY <2>1 DEF TypeOK
  <2>4. \A d \in Resources : destination'[p][d] # 0 => <<d, destination'[p][d]>> \in live'
    BY <2>1, <2>3
  <2>5. phase'[p] \notin {"idle", "scan"}
    BY <2>1
  <2>6. QED BY <1>1, <2>1, <2>2, <2>4, <2>5
<1>6. CASE BeginApply(p)
  <2>1. /\ UNCHANGED <<files, live>>
        /\ phase[p] = "cleanup" /\ phase' = [phase EXCEPT ![p] = "apply"]
    BY <1>6 DEF BeginApply, org
  <2>2. ~Cleanup \/ phase'[p] \notin {"idle", "scan"}
    BY <2>1 DEF TypeOK
  <2>3. CASE Refresh
    <3>1. ~Cleanup
      BY <2>3 DEF NotReadAgain
    <3>2. destination' = [destination EXCEPT ![p] =
             [r \in Resources |-> IF r \in Types(p) THEN Kept(p, r) ELSE @[r]]]
      BY <1>6, <2>3 DEF BeginApply
    <3>3. \A d \in Resources : destination'[p][d] \in {files[d], destination[p][d]}
      BY <3>2 DEF TypeOK, Kept
    <3>4. \A q \in Procs \ {p} : destination'[q] = destination[q]
      BY <3>2 DEF TypeOK
    <3>5. QED BY <1>1, <2>1, <3>1, <3>3, <3>4
  <2>4. CASE ~Refresh
    <3>1. destination' = destination
      BY <1>6, <2>4 DEF BeginApply
    <3>2. QED BY <1>1, <2>1, <2>2, <3>1
  <2>5. QED BY <2>3, <2>4
<1>7. ASSUME NEW r \in Resources, PassOver(p, r) PROVE LiveFacts'
  BY <1>1, <1>7 DEF PassOver, org, mem
<1>8. ASSUME NEW r \in Resources, Apply(p, r) PROVE LiveFacts'
  <2>1. files' = files /\ phase' = phase
    BY <1>8 DEF Apply
  <2>2. PICK dest :
          /\ destination' = [destination EXCEPT ![p] = dest]
          /\ \/ dest = Loaded(p, r) /\ live' = live
             \/ /\ Loaded(p, r)[r] = 0
                /\ \E i \in 1..MaxId : /\ dest = [Loaded(p, r) EXCEPT ![r] = i]
                                      /\ live' = live \cup {<<r, i>>}
    BY <1>8, ApplyWrites
  <2>3. destination'[p] = dest /\ \A q \in Procs \ {p} : destination'[q] = destination[q]
    BY <2>2 DEF TypeOK
  <2>4. live \subseteq live'
    BY <2>2
  <2>5. \A d \in Resources : dest[d] # 0 => <<d, dest[d]>> \in live'
    <3>1. CASE dest = Loaded(p, r)
      BY <2>4, <3>1, LoadedIsLive
    <3>2. ASSUME NEW i \in 1..MaxId, dest = [Loaded(p, r) EXCEPT ![r] = i],
                 live' = live \cup {<<r, i>>}
          PROVE  \A d \in Resources : dest[d] # 0 => <<d, dest[d]>> \in live'
      <4>1. \A d \in Resources : dest[d] = IF d = r THEN i ELSE Loaded(p, r)[d]
        BY <3>2 DEF Loaded
      <4>2. QED BY <3>2, <4>1, LoadedIsLive
    <3>3. QED BY <2>2, <3>1, <3>2
  <2>6. QED BY <1>1, <2>1, <2>3, <2>4, <2>5
<1>9. CASE Dump(p)
  <2>1. /\ UNCHANGED <<live, destination>>
        /\ phase[p] = "apply" /\ phase' = [phase EXCEPT ![p] = "ended"]
        /\ files' = [r \in Resources |->
                       IF Written(p, r) THEN destination[p][r] ELSE files[r]]
    BY <1>9 DEF Dump, mem
  <2>2. phase'[p] = "ended"
    BY <2>1 DEF TypeOK
  <2>3. \A d \in Resources : files'[d] \in {files[d], destination[p][d]}
    BY <2>1
  <2>4. QED BY <1>1, <2>1, <2>2, <2>3
<1>10. QED BY <1>2, <1>3, <1>4, <1>5, <1>6, <1>7, <1>8, <1>9 DEF Step

\* Every reference that a resource is written with exists at that moment: entries
\* are those of what exists, as long as no file is read after a cleanup.
THEOREM AppliedRefsLiveCorrect == Spec => AppliedRefsLive
<1> DEFINE kept(p, r) == \A d \in sent'[p][r] : <<d, destination'[p][d]>> \in live'
           safe == NotReadAgain /\ ~SkipFailed =>
                     \A p \in Procs : \A r \in Applies(p) : kept(p, r)
<1>1. Init => LiveInv
  <2> SUFFICES ASSUME Init PROVE LiveInv
    OBVIOUS
  <2>1. PICK synced \in SUBSET Resources :
           /\ files = [r \in Resources |-> IF r \in synced THEN 1 ELSE 0]
           /\ live = {<<r, 1>> : r \in synced}
    BY DEF Init
  <2>2. LiveFacts
    BY <2>1 DEF Init, LiveFacts
  <2>3. QED BY <2>2, InitInv DEF LiveInv
<1>2. LiveInv /\ [Next]_vars => LiveInv'
  <2> SUFFICES ASSUME LiveInv, [Next]_vars PROVE LiveInv'
    OBVIOUS
  <2>1. LazyInv'
    BY NextInv DEF LiveInv
  <2>2. ASSUME NEW p \in Procs, Step(p) PROVE LiveInv'
    <3>1. NotReadAgain' = NotReadAgain
      BY <2>2, Fixed DEF NotReadAgain, Cleanup, Refresh, Principals
    <3>2. QED BY <2>1, <2>2, <3>1, LiveStep DEF LiveInv
  <2>3. CASE UNCHANGED vars
    <3>1. /\ NotReadAgain' = NotReadAgain /\ Procs' = Procs /\ Cleanup' = Cleanup
          /\ UNCHANGED <<files, live, destination, phase>>
      BY <2>3 DEF vars, NotReadAgain, Cleanup, Refresh, Principals, Procs, Scope, org, mem
    <3>2. QED BY <2>1, <3>1 DEF LiveInv, LiveFacts
  <2>4. QED BY <2>2, <2>3 DEF Next, Ended
<1>3. ASSUME LiveInv, LiveInv', [Next]_vars, NotReadAgain, ~SkipFailed,
             NEW p \in Procs, NEW r \in Applies(p)
      PROVE  kept(p, r)
  <2>1. Apply(p, r) /\ ~Raises(p, r) /\ sent'[p][r] = Refs[r] \ Dropped(p, r)
    BY <1>3, AppliesIs DEF LiveInv
  <2>2. r \in Resources /\ TypeOK
    BY <1>3 DEF Applies, LiveInv, LazyInv, TypeOK
  <2>3. SUFFICES ASSUME NEW d \in Refs[r] \ Dropped(p, r)
                 PROVE  <<d, destination'[p][d]>> \in live'
    BY <2>1
  <2>4. d \in Resources
    BY <2>2, LazyAssumption
  <2>5. IdNow(p, r, d) # 0
    BY <1>3, <2>1 DEF Raises
  <2>6. Loaded(p, r)[d] # 0
    BY <2>4, <2>5 DEF Loaded, IdNow, Wanted
  <2>7. PICK dest :
          /\ destination' = [destination EXCEPT ![p] = dest]
          /\ \/ dest = Loaded(p, r) /\ live' = live
             \/ /\ Loaded(p, r)[r] = 0
                /\ \E i \in 1..MaxId : /\ dest = [Loaded(p, r) EXCEPT ![r] = i]
                                      /\ live' = live \cup {<<r, i>>}
    BY <2>1, <2>2, ApplyWrites
  <2>8. destination'[p] = dest
    BY <2>2, <2>7 DEF TypeOK
  <2>9. destination'[p][d] # 0
    BY <2>4, <2>6, <2>7, <2>8 DEF Loaded
  <2>10. /\ NotReadAgain' = NotReadAgain /\ Procs' = Procs
    BY <2>1 DEF Apply, NotReadAgain, Cleanup, Refresh, Principals, Procs, Scope
  <2>11. QED BY <1>3, <2>4, <2>9, <2>10 DEF LiveInv, LiveFacts
<1>4. LiveInv /\ LiveInv' /\ [Next]_vars => [safe]_vars
  BY <1>3
<1>5. QED BY <1>1, <1>2, <1>4, PTL DEF Spec, AppliedRefsLive
=============================================================================
