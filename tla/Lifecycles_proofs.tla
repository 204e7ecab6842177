------------------------- MODULE Lifecycles_proofs -------------------------
(***************************************************************************)
(* What holds over many commands: of the state files for every set of ids, *)
(* in every mode, and of a downtime for all families of versions.          *)
(***************************************************************************)
EXTENDS StateLifecycle, DowntimeSchedules, FiniteSetTheorems,
        WellFoundedInduction, TLAPS

\* The conjuncts of TypeOK, one variable each, as the provers want them.
TypeInv ==
  /\ mode \in Modes
  /\ srcOrg \subseteq Id /\ removed \subseteq Id
  /\ srcFile \subseteq Id /\ destFile \subseteq Id
  /\ matching \subseteq Id
  /\ source \subseteq Id /\ dest \subseteq Id
  /\ plan \subseteq Id /\ todo \subseteq Id
  /\ copies \in [Id -> 0..MaxCopies]
  /\ cmd \in Commands \cup {"none"}
  /\ step \in {"idle", "list", "listing", "items", "dumpImport", "pruneImport",
               "graph", "orphans", "delete", "apply", "dumping", "putDest",
               "pruneDest", "pruneSource"}
  /\ cleanup \in BOOLEAN /\ authoritative \in BOOLEAN /\ faults \in BOOLEAN

LEMMA TypeInvIsTypeOK == TypeInv => TypeOK
  BY DEF TypeInv, TypeOK

\* A mode's --filter lets subsets of the ids through.
LEMMA ModeTypes ==
  ASSUME mode \in Modes
  PROVE  Filters \subseteq SUBSET Id
<1>1. mode \in Mode
  BY LifecycleAssumption
<1>2. QED
  BY <1>1 DEF Mode, Filters

\* What is in a state file was there or is in memory.
LEMMA FileTypes ==
  ASSUME NEW file \in SUBSET Id, NEW mem \in SUBSET Id, TypeInv
  PROVE  /\ Written(file, mem) \subseteq Id
         /\ \A f \in Pruned(file) : f \subseteq file
         /\ \A f \in Torn(file, mem) : f \subseteq Id
  BY DEF Written, Pruned, Torn

\* Every variable keeps its type, the places of a run included.
THEOREM TypeInvariant == Spec => []TypeInv
<1>1. Init => TypeInv
  <2>1. 0 \in 0..MaxCopies
    BY LifecycleAssumption
  <2>2. QED
    BY <2>1 DEF Init, TypeInv
<1>2. TypeInv /\ [Next]_vars => TypeInv'
  <2> SUFFICES ASSUME TypeInv, [Next]_vars PROVE TypeInv'
    OBVIOUS
  <2> USE DEF TypeInv, orgVars, fileVars, optVars, memVars, Commands
  <2>1. CASE \E i \in Id : SourceCreates(i) \/ SourceRemoves(i)
    BY <2>1 DEF SourceCreates, SourceRemoves
  <2>2. CASE Begin
    <3>1. matching' \subseteq Id
      BY <2>2, ModeTypes DEF Begin
    <3>2. QED
      BY <2>2, <3>1 DEF Begin
  <2>3. CASE ClearSource \/ ListSource \/ BuildGraph
    BY <2>3 DEF ClearSource, ListSource, BuildGraph
  <2>4. CASE EndImport
    BY <2>4 DEF EndImport, Complete
  <2>5. CASE \E i \in Id : ImportItem(i)
    BY <2>5 DEF ImportItem
  <2>6. CASE \E i \in Id : DeleteItem(i)
    <3>1. PICK i \in Id : DeleteItem(i)
      BY <2>6
    <3>2. Left(i) \in 0..MaxCopies
      BY LifecycleAssumption DEF Left
    <3>3. copies' \in [Id -> 0..MaxCopies]
      BY <3>1, <3>2 DEF DeleteItem
    <3>4. QED
      BY <3>1, <3>3 DEF DeleteItem
  <2>7. CASE \E i \in Id : ApplyItem(i)
    <3>1. PICK i \in Id : ApplyItem(i)
      BY <2>7
    <3>2. copies' \in [Id -> 0..MaxCopies]
      <4>1. CASE UNCHANGED copies
        BY <4>1
      <4>2. CASE /\ copies[i] < MaxCopies
                 /\ copies' = [copies EXCEPT ![i] = @ + 1]
        <5>1. copies[i] + 1 \in 0..MaxCopies
          BY <4>2, LifecycleAssumption
        <5>2. QED
          BY <4>2, <5>1
      <4>3. QED
        BY <3>1, <4>1, <4>2 DEF ApplyItem
    <3>3. faults' \in BOOLEAN
      BY <3>1 DEF ApplyItem
    <3>4. dest' \subseteq Id /\ todo' \subseteq Id
      BY <3>1 DEF ApplyItem
    <3>5. UNCHANGED <<mode, srcOrg, removed, fileVars, optVars, source,
                      authoritative, step, plan>>
      BY <3>1 DEF ApplyItem
    <3>6. QED
      BY <3>2, <3>3, <3>4, <3>5
  <2>8. CASE BeginCleanup \/ EndCleanup \/ EndApply
    BY <2>8 DEF BeginCleanup, Orphans, EndCleanup, EndApply
  <2>9. CASE PutImport \/ PutSource \/ PutDest
    BY <2>9, FileTypes DEF PutImport, PutSource, PutDest, Move
  <2>10. CASE PruneImport \/ PruneDest \/ PruneSource
    <3>1. srcFile' \subseteq Id /\ destFile' \subseteq Id
      BY <2>10, FileTypes DEF PruneImport, PruneDest, PruneSource, Move
    <3>2. QED
      BY <2>10, <3>1 DEF PruneImport, PruneDest, PruneSource, Move
  <2>11. CASE Interrupt
    BY <2>11 DEF Interrupt
  <2>12. CASE Crash
    <3>1. srcFile' \subseteq Id /\ destFile' \subseteq Id
      BY <2>12, FileTypes DEF Crash
    <3>2. QED
      BY <2>12, <3>1 DEF Crash
  <2>13. CASE UNCHANGED vars
    BY <2>13 DEF vars
  <2>14. QED
    BY <2>1, <2>2, <2>3, <2>4, <2>5, <2>6, <2>7, <2>8, <2>9, <2>10, <2>11,
       <2>12, <2>13 DEF Next
<1>3. QED
  BY <1>1, <1>2, PTL DEF Spec

\* Every variable keeps its type, whatever commands follow each other.
THEOREM TypeOKCorrect == Spec => []TypeOK
  BY TypeInvariant, TypeInvIsTypeOK, PTL

-----------------------------------------------------------------------------
(* Tracked and NoDuplicates.  They hold as long as no reply  *)
(* is lost, no process crashes, and dump_state never prunes destination      *)
(* files: with a file per resource only an import marks its source           *)
(* authoritative, so only migrate and prune would.                           *)

SyncSteps == {"graph", "orphans", "delete", "apply", "dumping", "putDest",
              "pruneDest", "pruneSource"}

\* Steps at which a counterpart may be known to the memory alone.
Unsaved == {"graph", "orphans", "delete", "apply", "dumping", "putDest"}

\* The memory of the last process knows every counterpart, of which there is
\* one; so do the files, unless they are still to be written.
TrackFacts ==
  /\ \A i \in Id : copies[i] > 0 => copies[i] = 1 /\ i \in dest
  /\ step \notin Unsaved => \A i \in Id : copies[i] > 0 => i \in destFile
  /\ step \in SyncSteps => cmd \in {"sync", "migrate"}
  /\ PerFile /\ cmd = "sync" /\ ~Idle => ~authoritative
  /\ step \in {"list", "listing", "items"} => cmd # "sync"

TrackInv == TypeInv /\ (NothingForgets => TrackFacts)

\* A history unfolds in one mode.
LEMMA KeepsMode ==
  ASSUME [Next]_vars
  PROVE  mode' = mode
BY DEF Next, SourceCreates, SourceRemoves, Begin, ClearSource, ListSource,
       EndImport, ImportItem, BuildGraph, BeginCleanup, DeleteItem,
       EndCleanup, ApplyItem, EndApply, PutImport, PruneImport, PutSource,
       PutDest, PruneDest, PruneSource, Move, Interrupt, Crash, vars

LEMMA TrackStep ==
  ASSUME TrackInv, TypeInv', [Next]_vars
  PROVE  TrackInv'
<1> USE DEF TrackFacts, orgVars, fileVars, optVars, memVars, Idle, SyncSteps,
            Unsaved
<1>a. mode' = mode
  BY KeepsMode
<1>b. NothingForgets' = NothingForgets /\ PerFile' = PerFile
  BY <1>a DEF NothingForgets, PerFile, Commands, LostReplies, Stops
<1> SUFFICES ASSUME NothingForgets, TypeInv, TrackFacts, PerFile' = PerFile
             PROVE  TrackFacts'
  BY <1>b DEF TrackInv
<1>1. CASE \E i \in Id : SourceCreates(i) \/ SourceRemoves(i)
  BY <1>1 DEF SourceCreates, SourceRemoves
<1>2. CASE Begin
  BY <1>2 DEF Begin
<1>3. CASE ClearSource \/ ListSource \/ BuildGraph
  BY <1>3 DEF ClearSource, ListSource, BuildGraph
<1>4. CASE EndImport
  BY <1>4 DEF EndImport, TypeInv, NothingForgets, Commands
<1>5. CASE \E i \in Id : ImportItem(i)
  BY <1>5 DEF ImportItem
<1>6. CASE \E i \in Id : DeleteItem(i)
  BY <1>6 DEF DeleteItem, Left, TypeInv
<1>7. CASE \E i \in Id : ApplyItem(i)
  <2>1. PICK i \in Id : ApplyItem(i)
    BY <1>7
  <2>2. dest \subseteq dest' /\ step' = "apply" /\ UNCHANGED optVars
    BY <2>1 DEF ApplyItem
  <2>3. CASE UNCHANGED copies
    BY <2>1, <2>2, <2>3 DEF ApplyItem
  <2>4. CASE /\ i \notin dest /\ i \in dest'
             /\ copies' = [copies EXCEPT ![i] = @ + 1]
    <3>1. copies[i] \in Nat /\ ~(copies[i] > 0)
      BY <2>4 DEF TypeInv
    <3>2. copies'[i] = 1
      BY <2>4, <3>1 DEF TypeInv
    <3>3. \A j \in Id : j # i => copies'[j] = copies[j]
      BY <2>4 DEF TypeInv
    <3>4. \A j \in Id : copies'[j] > 0 => copies'[j] = 1 /\ j \in dest'
      BY <2>2, <2>4, <3>2, <3>3
    <3>5. QED
      BY <2>1, <2>2, <3>4 DEF ApplyItem
  <2>5. QED
    BY <2>1, <2>3, <2>4 DEF ApplyItem, NothingForgets
<1>8. CASE BeginCleanup \/ EndCleanup \/ EndApply
  BY <1>8 DEF BeginCleanup, EndCleanup, EndApply
<1>9. CASE PutImport \/ PutSource \/ PutDest
  BY <1>9 DEF PutImport, PutSource, PutDest, Move, Written
<1>10. CASE PruneImport \/ PruneDest \/ PruneSource
  BY <1>10 DEF PruneImport, PruneDest, PruneSource, Move, Pruned, MayPrune,
              TypeInv, NothingForgets, Commands
<1>11. CASE Interrupt
  BY <1>11 DEF Interrupt, DumpsOnInterrupt
<1>12. CASE Crash
  BY <1>12 DEF Crash, NothingForgets
<1>13. CASE UNCHANGED vars
  BY <1>13 DEF vars
<1>14. QED
  BY <1>1, <1>2, <1>3, <1>4, <1>5, <1>6, <1>7, <1>8, <1>9, <1>10, <1>11,
     <1>12, <1>13 DEF Next

LEMMA TrackInvariant == Spec => []TrackInv
<1>1. Init /\ TypeInv => TrackInv
  BY DEF Init, TrackInv, TrackFacts, SyncSteps, Idle
<1>2. TrackInv /\ TypeInv' /\ [Next]_vars => TrackInv'
  BY TrackStep
<1>3. QED
  BY <1>1, <1>2, TypeInvariant, PTL DEF Spec

\* Between runs, the destination state files know every counterpart that the
\* syncs created (apply_resources ends with dump_state, run_cmd dumps after an
\* interrupt).
THEOREM TrackedCorrect == Spec => []Tracked
<1>1. TrackInv => Tracked
  BY DEF TrackInv, TrackFacts, Tracked, Idle, Unsaved
<1>2. QED
  BY <1>1, TrackInvariant, PTL

\* No resource is created twice (_apply_resource_cb creates only what
\* state.destination does not know).
THEOREM NoDuplicatesCorrect == Spec => []NoDuplicates
<1>1. TrackInv => NoDuplicates
  BY DEF TrackInv, TrackFacts, TypeInv, NoDuplicates
<1>2. QED
  BY <1>1, TrackInvariant, PTL

-----------------------------------------------------------------------------
(* CleanupOnlyRemoved and SourceFilesKept, in one file per resource and    *)
(* without filters.                                                        *)

\* An id that the destination knows is in the source files or was removed,
\* and so is, of the source files, what an authoritative source does not have.
PruneFacts ==
  /\ matching = Id
  /\ srcFile \cup source \subseteq srcOrg \cup removed
  /\ destFile \cup dest \subseteq srcFile \cup removed
  /\ authoritative => srcFile \subseteq source \cup removed
  /\ step \in {"list", "listing", "items"} =>
       ~authoritative /\ cmd \in {"import", "prune"}
  /\ step = "items" =>
       /\ todo \subseteq srcOrg \cup removed
       /\ ~faults => srcFile \subseteq source \cup todo \cup removed
  /\ step \in {"list", "listing"} => todo = {}
  /\ step \in {"dumpImport", "pruneImport"} => cmd = "import"
  /\ step \in {"graph", "orphans", "delete", "apply"} => source = srcFile
  /\ step \in Unsaved => cmd = "sync"
  /\ cmd = "sync" /\ ~Idle => ~authoritative
  /\ step \in {"orphans", "delete"} => plan \subseteq srcFile
  /\ step = "delete" => todo \subseteq removed
  /\ step = "apply" => todo \subseteq srcFile

PruneInv == TypeInv /\ (NothingHidden => PruneFacts)

LEMMA PruneStep ==
  ASSUME PruneInv, TypeInv', [Next]_vars
  PROVE  PruneInv'
<1> USE DEF PruneFacts, orgVars, fileVars, optVars, memVars, Idle, Unsaved
<1>a. mode' = mode
  BY KeepsMode
<1>b. NothingHidden' = NothingHidden
  BY <1>a DEF NothingHidden, PerFile, Commands, Filters, Truncates, Stops
<1> SUFFICES ASSUME NothingHidden, TypeInv, PruneFacts
             PROVE  PruneFacts'
  BY <1>b DEF PruneInv
<1>1. CASE \E i \in Id : SourceCreates(i) \/ SourceRemoves(i)
  BY <1>1 DEF SourceCreates, SourceRemoves
<1>2. CASE Begin
  BY <1>2 DEF Begin, NothingHidden
<1>3. CASE ClearSource
  BY <1>3 DEF ClearSource
<1>4. CASE ListSource
  BY <1>4 DEF ListSource, NothingHidden
<1>5. CASE EndImport
  BY <1>5 DEF EndImport, Complete
<1>6. CASE \E i \in Id : ImportItem(i)
  BY <1>6 DEF ImportItem
<1>7. CASE BuildGraph \/ BeginCleanup \/ EndCleanup \/ EndApply
  BY <1>7 DEF BuildGraph, BeginCleanup, Orphans, EndCleanup, EndApply
<1>8. CASE \E i \in Id : DeleteItem(i)
  BY <1>8 DEF DeleteItem
<1>9. CASE \E i \in Id : ApplyItem(i)
  <2>1. PICK i \in Id : ApplyItem(i)
    BY <1>9
  <2>2. dest' \subseteq dest \cup {i} /\ i \in srcFile
    BY <2>1 DEF ApplyItem
  <2>3. QED
    BY <2>1, <2>2 DEF ApplyItem
<1>10. CASE PutImport \/ PutSource \/ PutDest
  BY <1>10 DEF PutImport, PutSource, PutDest, Move, Written, NothingHidden
<1>11. CASE PruneImport \/ PruneDest \/ PruneSource
  BY <1>11 DEF PruneImport, PruneDest, PruneSource, Move, Pruned, MayPrune
<1>12. CASE Interrupt
  BY <1>12 DEF Interrupt, DumpsOnInterrupt, TypeInv, NothingHidden
<1>13. CASE Crash
  BY <1>13 DEF Crash, NothingHidden
<1>14. CASE UNCHANGED vars
  BY <1>14 DEF vars
<1>15. QED
  BY <1>1, <1>2, <1>3, <1>4, <1>5, <1>6, <1>7, <1>8, <1>9, <1>10, <1>11,
     <1>12, <1>13, <1>14 DEF Next

LEMMA PruneInvariant == Spec => []PruneInv
<1>1. Init /\ TypeInv => PruneInv
  BY DEF Init, PruneInv, PruneFacts, Unsaved, Idle
<1>2. PruneInv /\ TypeInv' /\ [Next]_vars => PruneInv'
  BY PruneStep
<1>3. QED
  BY <1>1, <1>2, TypeInvariant, PTL DEF Spec

\* sync --cleanup deletes only what was removed from the source org, whatever
\* imports, syncs and prunes came before, failed or were interrupted.
THEOREM CleanupOnlyRemovedCorrect == Spec => CleanupOnlyRemoved
<1>1. ASSUME PruneInv, [Next]_vars
      PROVE  [NothingHidden => DeletesRemoved]_vars
  <2> SUFFICES ASSUME NothingHidden PROVE DeletesRemoved
    OBVIOUS
  <2> USE DEF PruneFacts, DeletesRemoved
  <2>1. CASE \E i \in Id : DeleteItem(i)
    BY <1>1, <2>1 DEF PruneInv, TypeInv, DeleteItem
  <2>2. CASE \E i \in Id : ApplyItem(i)
    <3>1. PICK i \in Id : ApplyItem(i)
      BY <2>2
    <3>2. copies' \in {copies, [copies EXCEPT ![i] = @ + 1]}
      BY <3>1 DEF ApplyItem
    <3>3. \A j \in Id : copies[j] \in Nat /\ copies'[j] \in {copies[j], copies[j] + 1}
      BY <1>1, <3>2 DEF PruneInv, TypeInv
    <3>4. QED
      BY <3>3
  <2>3. CASE UNCHANGED copies
    BY <1>1, <2>3 DEF PruneInv, TypeInv
  <2>4. QED
    BY <1>1, <2>1, <2>2, <2>3
    DEF Next, SourceCreates, SourceRemoves, Begin, ClearSource, ListSource,
        EndImport, ImportItem, BuildGraph, BeginCleanup, EndCleanup, EndApply,
        PutImport, PruneImport, PutSource, PutDest, PruneDest, PruneSource,
        Move, Interrupt, Crash, orgVars, vars
<1>2. QED
  BY <1>1, PruneInvariant, PTL DEF Spec, CleanupOnlyRemoved

\* A source file disappears only with its resource: dump_state prunes what an
\* authoritative import did not find, and nothing after a partial one.
THEOREM SourceFilesKeptCorrect == Spec => SourceFilesKept
<1>1. ASSUME PruneInv, [Next]_vars
      PROVE  [NothingHidden => srcFile \ srcFile' \subseteq removed]_vars
  <2> SUFFICES ASSUME NothingHidden PROVE srcFile \ srcFile' \subseteq removed
    OBVIOUS
  <2> USE DEF PruneFacts
  <2>1. CASE PutImport \/ PutSource \/ PutDest
    BY <2>1 DEF PutImport, PutSource, PutDest, Written, NothingHidden
  <2>2. CASE PruneImport \/ PruneDest \/ PruneSource
    BY <1>1, <2>2
    DEF PruneImport, PruneDest, PruneSource, Pruned, MayPrune, PruneInv
  <2>3. CASE UNCHANGED srcFile
    BY <2>3
  <2>4. QED
    BY <1>1, <2>1, <2>2, <2>3
    DEF Next, SourceCreates, SourceRemoves, Begin, ClearSource, ListSource,
        EndImport, ImportItem, BuildGraph, BeginCleanup, DeleteItem,
        EndCleanup, ApplyItem, EndApply, Interrupt, Crash, NothingHidden,
        fileVars, vars
<1>2. QED
  BY <1>1, PruneInvariant, PTL DEF Spec, SourceFilesKept

-----------------------------------------------------------------------------
(* MirrorAfterSync.                                                        *)

\* What the destination state knows exists, or it was removed from the source and
\* does not come back.
GoneFacts ==
  /\ srcOrg \cap removed = {}
  /\ ~PerFile =>
       /\ \A i \in dest : copies[i] # 0
       /\ step \notin Unsaved => \A i \in destFile : copies[i] # 0
  /\ PerFile => \A i \in dest \cup destFile : copies[i] = 0 =>
       /\ i \in removed /\ i \notin srcFile \cup source
       /\ step = "items" => i \notin todo

\* In a sync with cleanup what is not in the source state is deleted, or about to
\* be, and then what is missing is created, or about to be.
MirrorFacts ==
  /\ step = "delete" => todo \cap source = {}
  /\ step \in {"orphans", "delete", "apply"} => plan = source \cap matching
  /\ step = "apply" => todo \subseteq plan
  /\ cleanup /\ ~faults /\ matching = Id =>
       /\ step = "delete" => dest \ source \subseteq todo
       /\ step = "apply" => dest \subseteq source /\ source \ todo \subseteq dest
       /\ step = "dumping" => dest = source

LEMMA MirrorStep ==
  ASSUME TypeInv, MirrorFacts, [Next]_vars
  PROVE  MirrorFacts'
<1> USE DEF MirrorFacts, orgVars, fileVars, optVars, memVars
<1>1. CASE \E i \in Id : SourceCreates(i) \/ SourceRemoves(i)
  BY <1>1 DEF SourceCreates, SourceRemoves
<1>2. CASE Begin
  BY <1>2 DEF Begin
<1>3. CASE ClearSource \/ ListSource \/ EndImport \/ \E i \in Id : ImportItem(i)
  BY <1>3 DEF ClearSource, ListSource, EndImport, ImportItem
<1>4. CASE BuildGraph \/ BeginCleanup
  BY <1>4 DEF BuildGraph, BeginCleanup, Orphans
<1>5. CASE \E i \in Id : DeleteItem(i)
  BY <1>5 DEF DeleteItem
<1>6. CASE EndCleanup
  BY <1>6 DEF EndCleanup, TypeInv
<1>7. CASE \E i \in Id : ApplyItem(i)
  <2>1. PICK i \in Id : ApplyItem(i)
    BY <1>7
  <2>2. /\ step = "apply" /\ step' = "apply" /\ i \in todo /\ todo' = todo \ {i}
        /\ UNCHANGED <<source, plan, cleanup, matching>>
    BY <2>1 DEF ApplyItem
  <2>3. SUFFICES ASSUME cleanup, ~faults', matching = Id
                 PROVE  dest' \subseteq source /\ source \ todo' \subseteq dest'
    BY <2>2
  <2>4. ~faults /\ i \in dest' /\ (dest' = dest \/ dest' = dest \cup {i})
    <3>1. i \in dest \/ dest' = dest \cup {i} \/ faults'
      BY <2>1 DEF ApplyItem
    <3>2. dest' = dest \/ dest' = dest \cup {i}
      BY <2>1 DEF ApplyItem
    <3>3. faults => faults'
      BY <2>1 DEF ApplyItem
    <3>4. QED
      BY <2>3, <3>1, <3>2, <3>3
  <2>5. QED
    BY <2>2, <2>3, <2>4
<1>8. CASE EndApply
  BY <1>8 DEF EndApply
<1>9. CASE PutImport \/ PruneImport \/ PutSource \/ PutDest \/ PruneDest \/ PruneSource
  BY <1>9 DEF PutImport, PruneImport, PutSource, PutDest, PruneDest, PruneSource, Move
<1>10. CASE Interrupt \/ Crash
  BY <1>10 DEF Interrupt, Crash
<1>11. CASE UNCHANGED vars
  BY <1>11 DEF vars
<1>12. QED
  BY <1>1, <1>2, <1>3, <1>4, <1>5, <1>6, <1>7, <1>8, <1>9, <1>10, <1>11 DEF Next

LEMMA GoneStep ==
  ASSUME TypeInv, TrackInv, PruneInv, MirrorFacts,
         NothingForgets, NothingLeftOver, GoneFacts, [Next]_vars
  PROVE  GoneFacts'
<1> USE DEF GoneFacts, orgVars, fileVars, optVars, memVars, PerFile, Unsaved
<1>a. mode' = mode
  BY KeepsMode
<1>b. ~LostReplies /\ "crash" \notin Stops
  BY DEF NothingForgets
<1>c. PerFile => PruneFacts /\ ~Truncates
  BY DEF PruneInv, NothingLeftOver, NothingHidden
<1>d. \A i \in Id : copies[i] \in Nat
  BY LifecycleAssumption DEF TypeInv
<1>1. CASE \E i \in Id : SourceCreates(i) \/ SourceRemoves(i)
  BY <1>1 DEF SourceCreates, SourceRemoves
<1>2. CASE Begin
  BY <1>2 DEF Begin, Idle
<1>3. CASE ClearSource
  BY <1>3 DEF ClearSource
<1>4. CASE ListSource
  BY <1>4, <1>c DEF ListSource, PruneFacts
<1>5. CASE EndImport
  BY <1>5 DEF EndImport
<1>6. CASE \E i \in Id : ImportItem(i)
  BY <1>6 DEF ImportItem
<1>7. CASE BuildGraph \/ BeginCleanup \/ EndCleanup \/ EndApply
  BY <1>7 DEF BuildGraph, BeginCleanup, EndCleanup, EndApply
<1>8. CASE \E i \in Id : DeleteItem(i)
  <2>1. PICK i \in Id : DeleteItem(i)
    BY <1>8
  <2>2. /\ step = "delete" /\ step' = "delete" /\ i \in todo
        /\ UNCHANGED <<srcOrg, removed, srcFile, destFile, source>>
    BY <2>1 DEF DeleteItem
  <2>3. CASE UNCHANGED <<copies, dest>>
    BY <1>a, <2>2, <2>3
  <2>4. CASE copies' = [copies EXCEPT ![i] = Left(i)] /\ dest' = dest \ {i}
    <3>1. \A j \in Id \ {i} : copies'[j] = copies[j]
      BY <2>4 DEF TypeInv
    <3>2. dest \subseteq Id /\ destFile \subseteq Id
      BY DEF TypeInv
    <3>3. PerFile => i \in removed /\ i \notin srcFile \cup source
      BY <1>c, <2>2 DEF PruneFacts, MirrorFacts
    <3>4. QED
      BY <1>a, <2>2, <2>4, <3>1, <3>2, <3>3
  <2>5. QED
    BY <2>1, <2>3, <2>4 DEF DeleteItem
<1>9. CASE \E i \in Id : ApplyItem(i)
  <2>1. PICK i \in Id : ApplyItem(i)
    BY <1>9
  <2>2. /\ step = "apply" /\ step' = "apply"
        /\ UNCHANGED <<srcOrg, removed, srcFile, destFile, source>>
    BY <2>1 DEF ApplyItem
  <2>3. CASE UNCHANGED <<copies, dest>>
    BY <1>a, <2>2, <2>3
  <2>4. CASE copies' = [copies EXCEPT ![i] = @ + 1] /\ dest' = dest \cup {i}
    <3>1. /\ copies'[i] # 0
          /\ \A j \in Id \ {i} : copies'[j] = copies[j]
      BY <1>d, <2>4 DEF TypeInv
    <3>2. dest \subseteq Id /\ destFile \subseteq Id
      BY DEF TypeInv
    <3>3. QED
      BY <1>a, <2>2, <2>4, <3>1, <3>2
  <2>5. QED
    BY <1>b, <2>1, <2>3, <2>4 DEF ApplyItem
<1>10. CASE PutImport \/ PutSource \/ PutDest
  BY <1>a, <1>10 DEF PutImport, PutSource, PutDest, Move, Written
<1>11. CASE PruneImport \/ PruneDest \/ PruneSource
  BY <1>a, <1>11 DEF PruneImport, PruneDest, PruneSource, Move, Pruned, MayPrune
<1>12. CASE Interrupt
  BY <1>12 DEF Interrupt, DumpsOnInterrupt, TrackInv, TrackFacts, SyncSteps
<1>13. CASE Crash
  BY <1>13, <1>b DEF Crash
<1>14. CASE UNCHANGED vars
  BY <1>14 DEF vars
<1>15. QED
  BY <1>1, <1>2, <1>3, <1>4, <1>5, <1>6, <1>7, <1>8, <1>9, <1>10, <1>11, <1>12,
     <1>13, <1>14 DEF Next

MirrorInv == MirrorFacts /\ (NothingForgets /\ NothingLeftOver => GoneFacts)

\* After a sync with cleanup and without filter that met no failure the
\* destination organization has exactly what the source state has
\* (apply_resources: get_resources_to_cleanup, then every key of the graph).
THEOREM MirrorAfterSyncCorrect == Spec => []MirrorAfterSync
<1>1. Init => MirrorInv
  BY DEF Init, MirrorInv, MirrorFacts, GoneFacts, Unsaved
<1>2. TypeInv /\ TrackInv /\ PruneInv /\ MirrorInv /\ [Next]_vars => MirrorInv'
  <2> SUFFICES ASSUME TypeInv, TrackInv, PruneInv, MirrorInv, [Next]_vars PROVE MirrorInv'
    OBVIOUS
  <2>1. mode' = mode
    BY KeepsMode
  <2>2. NothingForgets' = NothingForgets /\ NothingLeftOver' = NothingLeftOver
    BY <2>1 DEF NothingForgets, NothingLeftOver, NothingHidden, PerFile, Commands,
                Filters, Truncates, LostReplies, Stops
  <2>3. QED
    BY <2>2, MirrorStep, GoneStep DEF MirrorInv
<1>3. TypeInv /\ TrackInv /\ MirrorInv => MirrorAfterSync
  <2> SUFFICES ASSUME TypeInv, TrackInv, MirrorInv, NothingForgets, NothingLeftOver,
                      step = "dumping", cleanup, ~faults, matching = Id
               PROVE  {i \in Id : copies[i] > 0} = source /\ dest = source
    BY DEF MirrorAfterSync
  <2>1. dest = source
    BY DEF MirrorInv, MirrorFacts
  <2>2. \A i \in Id : copies[i] \in Nat /\ (copies[i] > 0 => i \in dest)
    BY LifecycleAssumption DEF TypeInv, TrackInv, TrackFacts
  <2>3. \A i \in source : i \in Id /\ copies[i] # 0
    BY <2>1 DEF MirrorInv, GoneFacts, TypeInv
  <2>4. QED
    BY <2>1, <2>2, <2>3
<1>4. QED
  BY <1>1, <1>2, <1>3, TypeInvariant, PruneInvariant, TrackInvariant, PTL DEF Spec

-----------------------------------------------------------------------------
(* OneTornFile: with imports and syncs alone, crashes and lost replies      *)
(* included, only a sync writes destination files, and it prunes none.     *)

ImportsAndSyncs == PerFile /\ Commands \subseteq {"import", "sync"}

WriterFacts ==
  /\ step \in {"list", "listing", "items", "dumpImport", "pruneImport"} => cmd = "import"
  /\ step \in SyncSteps => cmd = "sync" /\ ~authoritative

WriterInv == ImportsAndSyncs => WriterFacts

LEMMA WriterStep ==
  ASSUME TypeInv, WriterInv, [Next]_vars
  PROVE  WriterInv'
<1> USE DEF WriterFacts, orgVars, fileVars, optVars, memVars, Idle, SyncSteps
<1>1. mode' = mode
  BY KeepsMode
<1> SUFFICES ASSUME ImportsAndSyncs, WriterFacts PROVE WriterFacts'
  BY <1>1 DEF WriterInv, ImportsAndSyncs, PerFile, Commands
<1>0. CASE UNCHANGED <<step, cmd, authoritative>>
  BY <1>0
<1>2. CASE \/ \E i \in Id : \/ SourceCreates(i) \/ SourceRemoves(i) \/ ImportItem(i)
                           \/ DeleteItem(i) \/ ApplyItem(i)
           \/ UNCHANGED vars
  <2>1. UNCHANGED <<step, cmd, authoritative>>
    BY <1>2 DEF SourceCreates, SourceRemoves, ImportItem, DeleteItem, ApplyItem, vars
  <2>2. QED
    BY <1>0, <2>1
<1>3. CASE Begin
  BY <1>3 DEF Begin, ImportsAndSyncs
<1>4. CASE \/ ClearSource \/ ListSource \/ EndImport
           \/ BuildGraph \/ BeginCleanup \/ EndCleanup \/ EndApply
  BY <1>4 DEF ClearSource, ListSource, EndImport, BuildGraph, BeginCleanup, EndCleanup, EndApply
<1>5. CASE \/ PutImport \/ PruneImport \/ PutSource \/ PutDest \/ PruneDest \/ PruneSource
  BY <1>5 DEF PutImport, PruneImport, PutSource, PutDest, PruneDest, PruneSource, Move
<1>6. CASE Interrupt
  <2>1. step \in {"list", "listing", "items", "dumpImport", "pruneImport"} \cup SyncSteps
    BY <1>6 DEF Interrupt, TypeInv
  <2>2. cmd = "import" \/ (cmd = "sync" /\ ~authoritative)
    BY <2>1
  <2>3. QED
    BY <1>6, <2>2 DEF Interrupt, DumpsOnInterrupt
<1>7. CASE Crash
  BY <1>7 DEF Crash
<1>8. QED
  BY <1>2, <1>3, <1>4, <1>5, <1>6, <1>7 DEF Next

\* A write that is cut short loses no more than the file under the pen.
LEMMA TornLoses ==
  ASSUME NEW file, NEW mem, PerFile, NEW left \in Torn(file, mem)
  PROVE  \E pen \in {{}} \cup {{i} : i \in mem} : file \ left \subseteq pen
<1>1. \E some \in SUBSET mem, pen \in {{}} \cup {{i} : i \in mem} :
        left = (file \cup some) \ pen
  BY DEF Torn
<1>2. QED
  BY <1>1

\* With one file per resource, a step of an import or a sync, a crash while the
\* files are written included, loses at most one destination file.
THEOREM OneTornFileCorrect == Spec => OneTornFile
<1> DEFINE Lost == {i \in destFile \ destFile' : copies'[i] > 0}
<1>1. Init => WriterInv
  BY DEF Init, WriterInv, WriterFacts, SyncSteps
<1>2. TypeInv /\ WriterInv /\ [Next]_vars => WriterInv'
  BY WriterStep
<1>3. WriterInv /\ [Next]_vars => [ImportsAndSyncs => Cardinality(Lost) <= 1]_vars
  <2> SUFFICES ASSUME WriterFacts, [Next]_vars, ImportsAndSyncs
               PROVE  Cardinality(Lost) <= 1
    BY DEF WriterInv
  <2>1. \E pen \in {{}} \cup {{i} : i \in Id \cup dest} : Lost \subseteq pen
    <3>1. CASE destFile \subseteq destFile'
      BY <3>1
    <3>2. CASE PutDest
      BY <3>1, <3>2 DEF PutDest, Move, Written, ImportsAndSyncs
    <3>3. CASE PruneDest
      BY <3>1, <3>3 DEF PruneDest, Move, Pruned, MayPrune, WriterFacts, SyncSteps
    <3>4. CASE Crash
      <4>1. \/ UNCHANGED destFile
            \/ destFile' \in Torn(destFile, dest)
        BY <3>4 DEF Crash, fileVars
      <4>2. CASE destFile' \in Torn(destFile, dest)
        <5>1. PerFile
          BY DEF ImportsAndSyncs
        <5>2. PICK pen \in {{}} \cup {{i} : i \in dest} : destFile \ destFile' \subseteq pen
          BY <4>2, <5>1, TornLoses
        <5>3. QED
          BY <5>2
      <4>3. QED
        BY <3>1, <4>1, <4>2
    <3>5. CASE \/ \E i \in Id : \/ SourceCreates(i) \/ SourceRemoves(i) \/ ImportItem(i)
                                \/ DeleteItem(i) \/ ApplyItem(i)
               \/ UNCHANGED vars
      BY <3>1, <3>5 DEF SourceCreates, SourceRemoves, ImportItem, DeleteItem, ApplyItem, vars, fileVars
    <3>6. CASE \/ Begin \/ ClearSource \/ ListSource \/ EndImport
               \/ BuildGraph \/ BeginCleanup \/ EndCleanup \/ EndApply
      BY <3>1, <3>6 DEF Begin, ClearSource, ListSource, EndImport, BuildGraph,
            BeginCleanup, EndCleanup, EndApply, fileVars
    <3>7. CASE \/ PutImport \/ PruneImport \/ PutSource \/ PruneSource \/ Interrupt
      BY <3>1, <3>7 DEF PutImport, PruneImport, PutSource, PruneSource, Interrupt, Move, fileVars
    <3>8. QED
      BY <3>2, <3>3, <3>4, <3>5, <3>6, <3>7 DEF Next
  <2>2. PICK pen \in {{}} \cup {{i} : i \in Id \cup dest} : Lost \subseteq pen
    BY <2>1
  <2>3. IsFiniteSet(pen) /\ Cardinality(pen) \in Nat /\ Cardinality(pen) <= 1
    <3>1. CASE pen = {}
      BY <3>1, FS_EmptySet
    <3>2. ASSUME NEW i, pen = {i}
          PROVE  IsFiniteSet(pen) /\ Cardinality(pen) = 1
      BY <3>2, FS_Singleton
    <3>3. QED
      BY <3>1, <3>2
  <2>4. Cardinality(Lost) \in Nat /\ Cardinality(Lost) <= Cardinality(pen)
    BY <2>2, <2>3, FS_Subset, FS_CardinalityType
  <2>5. QED
    BY <2>3, <2>4
<1>4. QED
  BY <1>1, <1>2, <1>3, TypeInvariant, PTL DEF Spec, OneTornFile, ImportsAndSyncs

-----------------------------------------------------------------------------
(* Downtimes: times and rules.                                             *)

\* A set of naturals has a least member.
LEMMA NatMin ==
  ASSUME NEW T \in SUBSET Nat, T # {}
  PROVE  \E x \in T : \A y \in T : x <= y
<1> DEFINE R == OpToRel(<, Nat)
<1>1. IsWellFoundedOn(R, Nat)
  BY NatLessThanWellFounded
<1>2. \A x, y \in Nat : <<x, y>> \in R <=> x < y
  BY DEF OpToRel
<1> HIDE DEF R
<1>3. \E x \in T : \A y \in T : ~(<<y, x>> \in R)
  BY <1>1, WFMin
<1>4. PICK x \in T : \A y \in T : ~(<<y, x>> \in R)
  BY <1>3
<1>5. ASSUME NEW y \in T PROVE x <= y
  <2>1. x \in Nat /\ y \in Nat
    OBVIOUS
  <2>2. ~(y < x)
    BY <1>2, <1>4, <2>1, Zenon
  <2>3. QED BY <2>1, <2>2
<1>6. QED BY <1>5

\* The first of some times.
LEMMA MinIs ==
  ASSUME NEW T \in SUBSET Nat, T # {}
  PROVE  Min(T) \in T /\ \A y \in T : Min(T) <= y
BY NatMin DEF Min

LEMMA EndIs == End \in Nat /\ Horizon <= End
BY DowntimeAssumption DEF End

\* A rule has finitely many times up to the end.
LEMMA ExistingIs ==
  ASSUME NEW r \in Rule
  PROVE  /\ Existing(r) \subseteq r.start..End /\ Existing(r) \subseteq Nat
         /\ IsFiniteSet(Existing(r))
         /\ Occurrences(r) \subseteq Existing(r)
<1>1. r.start \in Nat /\ End \in Nat
  BY EndIs DEF Rule
<1>2. Existing(r) \subseteq r.start..End /\ Existing(r) \subseteq Nat
  BY <1>1 DEF Existing
<1>3. IsFiniteSet(Existing(r))
  <2>1. IsFiniteSet(r.start..End)
    <3>1. r.start \in Int /\ End \in Int
      BY <1>1
    <3>2. QED BY <3>1, FS_Interval
  <2>2. QED BY <1>2, <2>1, FS_Subset
<1>4. QED
  BY <1>2, <1>3 DEF Occurrences

\* How many of the times of a rule there are up to one of them.
Upto(r, t) == {u \in Existing(r) : u <= t}

LEMMA UptoIs ==
  ASSUME NEW r \in Rule, NEW t \in Nat
  PROVE  IsFiniteSet(Upto(r, t)) /\ Cardinality(Upto(r, t)) \in Nat
<1>1. IsFiniteSet(Upto(r, t))
  BY ExistingIs, FS_Subset DEF Upto
<1>2. QED BY <1>1, FS_CardinalityType

\* A time whose number COUNT admits admits the times before it.
LEMMA CountedBefore ==
  ASSUME NEW r \in Rule, NEW t \in Occurrences(r), NEW u \in Existing(r), u <= t
  PROVE  u \in Occurrences(r)
<1>1. t \in Nat /\ u \in Nat /\ t \in Existing(r)
  BY ExistingIs
<1>2. Upto(r, u) \subseteq Upto(r, t)
  BY <1>1, ExistingIs DEF Upto
<1>3. Cardinality(Upto(r, u)) <= Cardinality(Upto(r, t))
  BY <1>1, <1>2, UptoIs, FS_Subset
<1>4. CASE r.count = None
  BY <1>4 DEF Occurrences
<1>5. CASE r.count # None
  <2>1. r.count \in Nat
    BY <1>5 DEF Rule, Time
  <2>2. Cardinality(Upto(r, t)) <= r.count
    BY <1>5 DEF Occurrences, Upto
  <2>3. Cardinality(Upto(r, u)) <= r.count
    BY <1>1, <1>3, <2>1, <2>2, UptoIs
  <2>4. QED BY <2>3 DEF Occurrences, Upto
<1>6. QED BY <1>4, <1>5

\* Times that are a multiple of the period apart have the same distance to any
\* later time, up to a multiple.
LEMMA Quotient ==
  ASSUME NEW n \in Nat, NEW d \in Nat, d > 0
  PROVE  /\ n \div d \in Nat /\ n % d \in 0..(d - 1)
         /\ n = d * (n \div d) + (n % d)
<1>1. n \div d \in Nat
  OBVIOUS
<1>2. n % d \in 0..(d - 1)
  OBVIOUS
<1>3. n % d = n - d * (n \div d)
  OBVIOUS
<1>4. d * (n \div d) \in Nat /\ n % d \in Nat
  BY <1>1, <1>2
<1>5. n = d * (n \div d) + (n % d)
  <2> DEFINE p == d * (n \div d)
             r == n % d
  <2>1. p \in Nat /\ r \in Nat /\ r = n - p
    BY <1>3, <1>4
  <2> HIDE DEF p, r
  <2>2. n = p + r
    BY <2>1
  <2>3. QED BY <2>2 DEF p, r
<1>6. QED BY <1>1, <1>2, <1>5

LEMMA Remainder ==
  ASSUME NEW d \in Nat, d > 0, NEW q \in Nat, NEW r \in 0..(d - 1)
  PROVE  (d * q + r) % d = r
OBVIOUS

LEMMA SameRemainder ==
  ASSUME NEW x \in Nat, NEW y \in Nat, NEW d \in Nat, d > 0, x % d = 0
  PROVE  (x + y) % d = y % d
<1> DEFINE k == x \div d
           q == y \div d
           r == y % d
<1>1. k \in Nat /\ x = d * k
  <2>1. k \in Nat /\ x = d * k + (x % d) /\ d * k \in Nat
    BY Quotient
  <2>2. QED BY <2>1
<1>2. q \in Nat /\ r \in 0..(d - 1) /\ y = d * q + r
  BY Quotient
<1> HIDE DEF k, q, r
<1>3. d * (q + k) = d * q + d * k /\ q + k \in Nat
  BY <1>1, <1>2
<1>4. d * q \in Nat /\ d * k \in Nat
  BY <1>1, <1>2
<1>5. x + y = d * (q + k) + r
  BY <1>1, <1>2, <1>3, <1>4
<1>6. (d * (q + k) + r) % d = r
  BY <1>2, <1>3, Remainder
<1>7. (x + y) % d = r
  BY <1>5, <1>6
<1>8. QED BY <1>7 DEF r

\* A multiple of the period after the start.
OnBeat(start, every, t) == (t - start) % every = 0

LEMMA BeatKept ==
  ASSUME NEW s \in Nat, NEW f \in Nat, NEW t \in Nat, NEW d \in Nat, d > 0,
         s <= f, f <= t, OnBeat(s, d, f)
  PROVE  OnBeat(f, d, t) <=> OnBeat(s, d, t)
<1> DEFINE x == f - s
           y == t - f
<1>1. x \in Nat /\ y \in Nat /\ t - s = x + y
  OBVIOUS
<1>2. x % d = 0
  BY DEF OnBeat
<1> HIDE DEF x, y
<1>3. (x + y) % d = y % d
  BY <1>1, <1>2, SameRemainder
<1>4. (t - s) % d = (t - f) % d
  BY <1>1, <1>3 DEF y
<1>5. QED BY <1>4 DEF OnBeat

LEMMA ExistingAre ==
  ASSUME NEW r \in Rule, NEW t
  PROVE  t \in Existing(r) <=>
           t \in r.start..End /\ OnBeat(r.start, r.every, t) /\ t \notin Gap
BY DEF Existing, OnBeat

\* A rule that starts at one of its later occurrences has the later ones.
LEMMA RebasedIs ==
  ASSUME NEW r \in Rule, NEW cutoff \in Nat, NEW n \in Rebased(r, cutoff)
  PROVE  /\ n \in Rule /\ n.lasts = r.lasts
         /\ Occurrences(n) = Later(r, cutoff)
<1> DEFINE later == Later(r, cutoff)
           over == Occurrences(r) \ later
           first == Min(later)
<1>0. /\ r.start \in Nat /\ r.every \in Nat \ {0} /\ r.lasts \in 1..Horizon
      /\ r.count \in Time /\ End \in Nat
  BY EndIs DEF Rule
<1>1. /\ later # {} /\ later \subseteq Occurrences(r)
      /\ later \subseteq Existing(r) /\ later \subseteq Nat
  BY ExistingIs DEF Rebased, Later
<1>2. first \in later /\ \A t \in later : first <= t
  BY <1>1, MinIs
<1>3. /\ first \in Nat /\ first \in Existing(r) /\ first \in Occurrences(r)
      /\ r.start <= first /\ first > cutoff /\ first <= End
  BY <1>0, <1>1, <1>2, ExistingIs DEF Later
<1>4. n = [r EXCEPT !.start = first,
                    !.count = IF @ = None THEN None ELSE @ - Cardinality(over)]
  BY <1>1 DEF Rebased
<1>5. /\ n.start = first /\ n.every = r.every /\ n.lasts = r.lasts
      /\ n.count = IF r.count = None THEN None ELSE r.count - Cardinality(over)
      /\ n = [start |-> n.start, every |-> n.every, lasts |-> n.lasts,
              count |-> n.count]
  BY <1>4 DEF Rule
<1> HIDE DEF first, later
<1>6. Existing(n) = {t \in Existing(r) : first <= t}
  <2>1. OnBeat(r.start, r.every, first)
    BY <1>3, ExistingAre
  <2>2. ASSUME NEW t \in Nat, first <= t
        PROVE  OnBeat(first, r.every, t) <=> OnBeat(r.start, r.every, t)
    <3>1. r.every \in Nat /\ r.every > 0
      BY <1>0
    <3>2. QED BY <1>0, <1>3, <2>1, <2>2, <3>1, BeatKept
  <2>4. ASSUME NEW t
        PROVE  t \in Existing(n) <=>
                 t \in first..End /\ OnBeat(first, r.every, t) /\ t \notin Gap
    BY <1>5 DEF Existing, OnBeat
  <2>5. ASSUME NEW t
        PROVE  t \in first..End <=> t \in r.start..End /\ first <= t
    BY <1>0, <1>3
  <2>6. ASSUME NEW t \in first..End
        PROVE  OnBeat(first, r.every, t) <=> OnBeat(r.start, r.every, t)
    BY <1>3, <2>2
  <2>7. \A t : t \in Existing(n) <=> t \in Existing(r) /\ first <= t
    BY <2>4, <2>5, <2>6, ExistingAre
  <2>8. QED BY <2>7
<1>7. ASSUME NEW t \in Occurrences(r) PROVE t \in later <=> first <= t
  <2>1. t \in Nat
    BY ExistingIs
  <2>2. CASE first <= t
    BY <1>3, <2>1, <2>2 DEF later, Later
  <2>3. CASE ~(first <= t)
    BY <1>2, <2>3
  <2>4. QED BY <2>2, <2>3
<1>8. over = {u \in Existing(r) : u < first}
  <2>1. ASSUME NEW u \in over PROVE u \in Existing(r) /\ u < first
    <3>1. u \in Existing(r) /\ u \in Nat /\ ~(first <= u)
      BY <1>7, ExistingIs
    <3>2. QED BY <1>3, <3>1
  <2>2. ASSUME NEW u \in Existing(r), u < first PROVE u \in over
    <3>1. u \in Nat /\ u <= first /\ ~(first <= u)
      BY <1>3, <2>2, ExistingIs
    <3>2. u \in Occurrences(r)
      BY <1>3, <3>1, CountedBefore
    <3>3. QED BY <1>7, <3>1, <3>2
  <2>3. QED BY <2>1, <2>2
<1>9. ASSUME NEW t \in Existing(r), first <= t
      PROVE  /\ Upto(n, t) = Upto(r, t) \ over
             /\ IsFiniteSet(over) /\ Cardinality(over) \in Nat
             /\ Cardinality(Upto(r, t)) = Cardinality(over) + Cardinality(Upto(n, t))
             /\ Cardinality(Upto(n, t)) \in Nat /\ Cardinality(Upto(r, t)) \in Nat
  <2>0. t \in Nat
    BY ExistingIs
  <2>1. over \subseteq Upto(r, t)
    <3>1. ASSUME NEW u \in over PROVE u \in Existing(r) /\ u <= t
      <4>1. u \in Existing(r) /\ u \in Nat /\ u < first
        BY <1>8, ExistingIs
      <4>2. QED BY <1>3, <1>9, <2>0, <4>1
    <3>2. QED BY <3>1 DEF Upto
  <2>2. Upto(n, t) = Upto(r, t) \ over
    <3>1. ASSUME NEW u \in Existing(r) PROVE first <= u <=> ~(u < first)
      <4>1. u \in Nat
        BY ExistingIs
      <4>2. QED BY <1>3, <4>1
    <3>2. QED BY <1>6, <1>8, <3>1 DEF Upto
  <2>3. IsFiniteSet(Upto(r, t)) /\ Cardinality(Upto(r, t)) \in Nat
    BY <2>0, UptoIs
  <2>4. IsFiniteSet(over) /\ Cardinality(over) \in Nat
    BY <2>1, <2>3, FS_Subset, FS_CardinalityType
  <2>5. IsFiniteSet(Upto(n, t)) /\ Cardinality(Upto(n, t)) \in Nat
    <3>1. Upto(n, t) \subseteq Upto(r, t)
      BY <2>2
    <3>2. QED BY <2>3, <3>1, FS_Subset, FS_CardinalityType
  <2>6. Cardinality(Upto(r, t)) = Cardinality(over) + Cardinality(Upto(n, t))
    <3>1. over \cap Upto(n, t) = {} /\ over \cup Upto(n, t) = Upto(r, t)
      BY <2>1, <2>2
    <3>2. Cardinality(over \cup Upto(n, t)) =
            Cardinality(over) + Cardinality(Upto(n, t))
            - Cardinality(over \cap Upto(n, t))
      BY <2>4, <2>5, FS_Union
    <3>3. Cardinality({}) = 0
      BY FS_EmptySet
    <3>4. Cardinality(Upto(r, t)) =
            Cardinality(over) + Cardinality(Upto(n, t)) - 0
      BY <3>1, <3>2, <3>3, Zenon
    <3>5. QED BY <2>4, <2>5, <3>4
  <2>7. QED BY <2>2, <2>3, <2>4, <2>5, <2>6
<1> HIDE DEF over
<1>10. r.count # None =>
         /\ r.count \in Nat /\ n.count \in Nat /\ n.count # None
         /\ n.count = r.count - Cardinality(over)
  <2> SUFFICES ASSUME r.count # None
               PROVE  /\ r.count \in Nat /\ n.count \in Nat /\ n.count # None
                      /\ n.count = r.count - Cardinality(over)
    OBVIOUS
  <2>1. r.count \in Nat
    BY <1>0 DEF Time
  <2>2. n.count = r.count - Cardinality(over)
    BY <1>5
  <2>3. first <= first
    BY <1>3
  <2>4. Cardinality(Upto(r, first)) <= r.count
    BY <1>3 DEF Occurrences, Upto
  <2>5. r.count - Cardinality(over) \in Nat
    BY <1>3, <1>9, <2>1, <2>3, <2>4
  <2>6. None \notin Nat
    BY DowntimeAssumption
  <2>7. QED BY <2>1, <2>2, <2>5, <2>6
<1>11. n \in Rule
  <2>1. n.count \in Time
    BY <1>5, <1>10 DEF Time
  <2>2. QED BY <1>0, <1>3, <1>5, <2>1 DEF Rule
<1>12. ASSUME NEW t \in Existing(r), first <= t
       PROVE  t \in Occurrences(n) <=> t \in Occurrences(r)
  <2>1. t \in Existing(n)
    BY <1>6, <1>12
  <2>2. CASE r.count = None
    <3>1. n.count = None
      BY <1>5, <2>2
    <3>2. QED BY <2>1, <2>2, <3>1 DEF Occurrences
  <2>3. CASE r.count # None
    <3>1. /\ t \in Occurrences(n) <=> Cardinality(Upto(n, t)) <= n.count
          /\ t \in Occurrences(r) <=> Cardinality(Upto(r, t)) <= r.count
      BY <1>10, <1>12, <2>1, <2>3 DEF Occurrences, Upto
    <3>2. QED BY <1>9, <1>10, <1>12, <2>3, <3>1
  <2>4. QED BY <2>2, <2>3
<1>13. Occurrences(n) = later
  <2>1. Occurrences(n) \subseteq Existing(n)
    BY DEF Occurrences
  <2>2. QED BY <1>1, <1>6, <1>7, <1>12, <2>1
<1>14. QED BY <1>5, <1>11, <1>13 DEF later

\* Windows of rules, one by one.
LEMMA RuleWindowsAre ==
  ASSUME NEW R, NEW w
  PROVE  w \in RuleWindows(R) <=>
           \E r \in R : \E t \in Occurrences(r) : w = Window(t, t + r.lasts)
BY DEF RuleWindows

LEMMA WindowIs ==
  ASSUME NEW a, NEW b
  PROVE  Window(a, b).start = a /\ Window(a, b).end = b
BY DEF Window

\* Windows of rules are not empty and no longer than the model.
LEMMA RuleWindowIs ==
  ASSUME NEW R \in SUBSET Rule, NEW w \in RuleWindows(R)
  PROVE  /\ w \in Span /\ w.start \in Nat /\ w.end \in Nat
         /\ w.start < w.end /\ w.end <= w.start + Horizon /\ w.start <= End
<1>1. PICK r \in R : \E t \in Occurrences(r) : w = Window(t, t + r.lasts)
  BY RuleWindowsAre
<1>2. PICK t \in Occurrences(r) : w = Window(t, t + r.lasts)
  BY <1>1
<1>3. /\ r \in Rule /\ r.lasts \in Nat /\ 1 <= r.lasts /\ r.lasts <= Horizon
      /\ Horizon \in Nat /\ End \in Nat /\ r.start \in Nat
  BY EndIs, DowntimeAssumption DEF Rule
<1>4. t \in Nat /\ t <= End
  BY <1>3, ExistingIs
<1>5. w.start = t /\ w.end = t + r.lasts
  BY <1>2, WindowIs
<1>6. w \in Span
  BY <1>2, <1>3, <1>4 DEF Span, Window
<1>7. QED BY <1>3, <1>4, <1>5, <1>6

\* Rules that are rebased keep the windows after the cutoff.
LEMMA FutureIs ==
  ASSUME NEW d, d.recs \in SUBSET Rule, NEW cutoff \in Nat
  PROVE  /\ Future(d, cutoff) \in SUBSET Rule
         /\ RuleWindows(Future(d, cutoff)) =
              {w \in RuleWindows(d.recs) : w.start > cutoff}
<1>1. ASSUME NEW n \in Future(d, cutoff)
      PROVE  \E r \in d.recs : r \in Rule /\ n \in Rebased(r, cutoff)
  BY <1>1 DEF Future
<1>2. Future(d, cutoff) \in SUBSET Rule
  BY <1>1, RebasedIs
<1>3. ASSUME NEW w \in RuleWindows(Future(d, cutoff))
      PROVE  w \in RuleWindows(d.recs) /\ w.start > cutoff
  <2>1. PICK n \in Future(d, cutoff) :
               \E t \in Occurrences(n) : w = Window(t, t + n.lasts)
    BY <1>3, RuleWindowsAre
  <2>2. PICK t \in Occurrences(n) : w = Window(t, t + n.lasts)
    BY <2>1
  <2>3. PICK r \in d.recs : r \in Rule /\ n \in Rebased(r, cutoff)
    BY <1>1
  <2>4. n.lasts = r.lasts /\ t \in Occurrences(r) /\ t > cutoff
    BY <2>3, RebasedIs DEF Later
  <2>5. w.start = t
    BY <2>2, WindowIs
  <2>6. w = Window(t, t + r.lasts)
    BY <2>2, <2>4
  <2>7. QED BY <2>4, <2>5, <2>6, RuleWindowsAre
<1>4. ASSUME NEW w \in RuleWindows(d.recs), w.start > cutoff
      PROVE  w \in RuleWindows(Future(d, cutoff))
  <2>1. PICK r \in d.recs : \E t \in Occurrences(r) : w = Window(t, t + r.lasts)
    BY <1>4, RuleWindowsAre
  <2>2. PICK t \in Occurrences(r) : w = Window(t, t + r.lasts)
    BY <2>1
  <2>3. t \in Later(r, cutoff)
    BY <1>4, <2>2, WindowIs DEF Later
  <2>4. PICK n : n \in Rebased(r, cutoff)
    BY <2>3 DEF Rebased
  <2>5. n \in Future(d, cutoff)
    BY <2>4 DEF Future
  <2>6. n.lasts = r.lasts /\ t \in Occurrences(n)
    BY <2>3, <2>4, RebasedIs
  <2>7. w = Window(t, t + n.lasts)
    BY <2>2, <2>6
  <2>8. QED BY <2>5, <2>6, <2>7, RuleWindowsAre
<1>5. QED BY <1>2, <1>3, <1>4

\* A rule with one occurrence has one window.
LEMMA OnceIs ==
  ASSUME NEW r \in Rule, r.count = 1, r.start <= End, r.start \notin Gap
  PROVE  Occurrences(r) = {r.start}
<1>1. r.start \in Nat /\ r.every \in Nat /\ r.every > 0 /\ End \in Nat
  BY EndIs DEF Rule
<1>2. r.start \in Existing(r)
  <2>1. OnBeat(r.start, r.every, r.start)
    <3>1. r.start - r.start = 0 /\ 0 % r.every = 0
      BY <1>1
    <3>2. QED BY <3>1 DEF OnBeat
  <2>2. QED BY <1>1, <2>1, ExistingAre
<1>3. ASSUME NEW u \in Existing(r) PROVE u \in Nat /\ r.start <= u
  BY <1>1, ExistingIs
<1>4. 1 # None
  BY DowntimeAssumption
<1>5. ASSUME NEW u \in Existing(r)
      PROVE  u \in Occurrences(r) <=> Cardinality(Upto(r, u)) <= 1
  BY <1>4 DEF Occurrences, Upto
<1>6. r.start \in Occurrences(r)
  <2>1. Upto(r, r.start) = {r.start}
    BY <1>1, <1>2, <1>3 DEF Upto
  <2>2. Cardinality({r.start}) = 1
    BY FS_Singleton
  <2>3. QED BY <1>2, <1>5, <2>1, <2>2
<1>7. ASSUME NEW u \in Existing(r), u # r.start PROVE u \notin Occurrences(r)
  <2>1. {r.start, u} \subseteq Upto(r, u)
    BY <1>1, <1>2, <1>3, <1>7 DEF Upto
  <2>2. IsFiniteSet(Upto(r, u)) /\ Cardinality(Upto(r, u)) \in Nat
    BY <1>3, UptoIs
  <2>3. IsFiniteSet({r.start}) /\ Cardinality({r.start}) = 1
    BY FS_Singleton
  <2>4. Cardinality({r.start} \cup {u}) = 2
    <3>1. Cardinality({r.start} \cup {u}) = Cardinality({r.start}) + 1
      BY <1>7, <2>3, FS_AddElement
    <3>2. QED BY <2>3, <3>1
  <2>5. Cardinality({r.start, u}) = 2
    <3>1. {r.start} \cup {u} = {r.start, u}
      OBVIOUS
    <3>2. QED BY <2>4, <3>1
  <2>6. 2 <= Cardinality(Upto(r, u))
    <3>1. Cardinality({r.start, u}) <= Cardinality(Upto(r, u))
      BY <2>1, <2>2, FS_Subset
    <3>2. QED BY <2>5, <3>1
  <2>7. QED BY <1>5, <2>2, <2>6
<1>8. Occurrences(r) \subseteq Existing(r)
  BY ExistingIs
<1>9. QED BY <1>6, <1>7, <1>8

-----------------------------------------------------------------------------
(* Downtimes: windows and bridges.                                         *)

\* Whole periods.
LEMMA Floor ==
  ASSUME NEW n \in Nat, NEW d \in Nat, d > 0, d <= n
  PROVE  /\ (n \div d) * d \in Nat /\ (n \div d) * d = n - (n % d)
         /\ 0 < (n \div d) * d /\ (n \div d) * d <= n
<1> DEFINE q == n \div d
           r == n % d
<1>1. q \in Nat /\ r \in 0..(d - 1) /\ n = d * q + r
  BY Quotient
<1>2. n = q * d + r /\ q * d \in Nat
  BY <1>1
<1>3. q * d = n - r /\ q * d <= n /\ 0 < q * d
  BY <1>1, <1>2
<1>4. QED BY <1>2, <1>3

MinuteIs == Minute \in Nat /\ Minute > 0

\* The bridge of an active window is one window from now to the last whole minute.
BridgeEnd(w, t) == w.end - ((w.end - t) % Minute)

LEMMA EffectiveIs ==
  ASSUME NEW p, NEW t
  PROVE  /\ Effective(p, t) = None \/ Effective(p, t) = p.active
         /\ Effective(p, t) # None => p.active # None /\ ~(p.active.end - t < Minute)
         /\ Effective(p, t) = None /\ p.active # None => p.active.end - t < Minute
BY DEF Effective

LEMMA BridgeIs ==
  ASSUME NEW p, NEW t \in 0..Horizon, Effective(p, t) # None,
         p.active \in Span, Within(p.active, t),
         p.active.end <= p.active.start + Horizon
  PROVE  /\ Bridge(p, t) \in SUBSET Rule /\ Bridge(p, t) # {}
         /\ RuleWindows(Bridge(p, t)) = {Window(t, BridgeEnd(p.active, t))}
         /\ BridgeEnd(p.active, t) \in Nat /\ t < BridgeEnd(p.active, t)
         /\ BridgeEnd(p.active, t) <= p.active.end
         /\ p.active.end - t >= Minute
<1> DEFINE w == p.active
           n == w.end - t
           whole == (n \div Minute) * Minute
           b == [start |-> t, every |-> Daily, count |-> 1, lasts |-> whole]
<1>1. /\ Horizon \in Nat /\ Minute \in Nat /\ Minute > 0 /\ Daily \in Nat \ {0}
      /\ t \in Nat /\ t <= Horizon /\ End \in Nat /\ Horizon <= End
  BY EndIs, DowntimeAssumption
<1>2. w.start \in Nat /\ w.end \in Nat /\ w.start <= t /\ t < w.end
  BY DEF Span, Within
<1>3. n \in Nat /\ Minute <= n /\ n <= Horizon
  BY <1>1, <1>2, EffectiveIs
<1>4. /\ whole \in Nat /\ whole = n - (n % Minute)
      /\ 0 < whole /\ whole <= n /\ n % Minute \in Nat
  <2> HIDE DEF n
  <2>1. n % Minute \in Nat
    BY <1>1, <1>3, Quotient
  <2>2. QED BY <1>1, <1>3, <2>1, Floor
<1>5. Effective(p, t) = w
  BY EffectiveIs
<1>6. Bridge(p, t) = {b}
  BY <1>5 DEF Bridge
<1> HIDE DEF whole
<1>7. b \in Rule
  <2>1. 1 \in Time
    BY DEF Time
  <2>2. whole \in 1..Horizon
    BY <1>1, <1>3, <1>4
  <2>3. QED BY <1>1, <2>1, <2>2 DEF Rule
<1>8. b.start = t /\ b.lasts = whole /\ b.count = 1
  OBVIOUS
<1> HIDE DEF b
<1>9. t + whole = BridgeEnd(w, t)
  <2>1. BridgeEnd(w, t) = w.end - (n % Minute)
    BY DEF BridgeEnd
  <2>2. w.end = n + t
    BY <1>1, <1>2
  <2> HIDE DEF n
  <2>3. QED BY <1>1, <1>3, <1>4, <2>1, <2>2
<1>10. Occurrences(b) = {t}
  <2>1. t \notin Gap
    BY <1>1, DowntimeAssumption
  <2>2. QED BY <1>1, <1>7, <1>8, <2>1, OnceIs
<1>11. RuleWindows(Bridge(p, t)) = {Window(t, BridgeEnd(w, t))}
  <2>1. \A v : v \in RuleWindows({b}) <=> v = Window(t, t + whole)
    BY <1>8, <1>10, RuleWindowsAre
  <2>2. \A v : v \in RuleWindows(Bridge(p, t)) <=> v = Window(t, BridgeEnd(w, t))
    BY <1>6, <1>9, <2>1
  <2>3. QED BY <2>2
<1>12. BridgeEnd(w, t) \in Nat /\ t < BridgeEnd(w, t) /\ BridgeEnd(w, t) <= w.end
  BY <1>1, <1>2, <1>3, <1>4, <1>9
<1>13. QED BY <1>3, <1>6, <1>7, <1>11, <1>12

LEMMA NoBridge ==
  ASSUME NEW p, NEW t, Effective(p, t) = None
  PROVE  Bridge(p, t) = {}
BY DEF Bridge

LEMMA RuleWindowsUnion ==
  ASSUME NEW A, NEW B, NEW w
  PROVE  w \in RuleWindows(A \cup B) <=> w \in RuleWindows(A) \/ w \in RuleWindows(B)
BY DEF RuleWindows

\* The kinds of schedules and their windows.
LEMMA KindsIs ==
  /\ \A d \in Single : d.recs = {}
  /\ \A d \in Recurring : d.recs # {} /\ d.recs \in SUBSET Rule
  /\ \A d \in Downtime : /\ d.recs \in SUBSET Rule
                         /\ d \in Single <=> d.recs = {}
                         /\ d \in Recurring <=> d.recs # {}
<1>1. \A d \in Single : d.recs = {}
  BY DEF Single
<1>2. ASSUME NEW d \in Recurring PROVE d.recs # {} /\ d.recs \in SUBSET Rule
  <2>1. d.recs \in (SUBSET Rule) \ {{}}
    BY DEF Recurring
  <2>2. QED BY <2>1
<1>3. QED BY <1>1, <1>2 DEF Downtime

LEMMA WindowsOfRecurring ==
  ASSUME NEW d, d.recs # {}
  PROVE  Windows(d) = RuleWindows(d.recs)
BY DEF Windows

LEMMA WindowsOfSingle ==
  ASSUME NEW d \in Single
  PROVE  /\ Windows(d) = {Window(d.start, IF d.end = None THEN End ELSE d.end)}
         /\ Windows(d) \in SUBSET Span
<1>1. Windows(d) = {Window(d.start, IF d.end = None THEN End ELSE d.end)}
  BY DEF Windows, Single
<1>2. d.start \in Nat /\ (IF d.end = None THEN End ELSE d.end) \in Nat
  BY EndIs DEF Single, Time
<1>3. QED BY <1>1, <1>2 DEF Span, Window

LEMMA WindowsIn ==
  ASSUME NEW d \in Downtime
  PROVE  Windows(d) \in SUBSET Span
<1>1. CASE d \in Single
  BY <1>1, WindowsOfSingle
<1>2. CASE d \in Recurring
  BY <1>2, KindsIs, WindowsOfRecurring, RuleWindowIs
<1>3. QED BY <1>1, <1>2 DEF Downtime

-----------------------------------------------------------------------------
(* Downtimes: the current window, and what a schedule is to follow.        *)

\* How long a pass may take from its import on.
Lead == Lag + 2 * Latency

ApartWindows(W) ==
  \A v, w \in W : v # w => v.end + Lead < w.start \/ w.end + Lead < v.start

LEMMA LeadIs == Lead \in Nat /\ Lag \in Nat /\ Latency \in Nat
BY DowntimeAssumption DEF Lead

LEMMA FamilyApart ==
  ASSUME NEW f \in Families, NEW d \in f
  PROVE  ApartWindows(Windows(d))
<1>1. ASSUME NEW v \in Windows(d), NEW w \in Windows(d), v # w
      PROVE  v.end + Lag + 2 * Latency < w.start \/ w.end + Lag + 2 * Latency < v.start
  BY <1>1, WindowsApart
<1>2. f \in SUBSET Downtime
  BY DowntimeAssumption DEF Downtime
<1>3. ASSUME NEW v \in Windows(d) PROVE v.end + Lag + 2 * Latency = v.end + Lead
  <2>1. v.end \in Nat
    BY <1>2, WindowsIn DEF Span
  <2>2. QED BY <2>1, LeadIs DEF Lead
<1>4. QED BY <1>1, <1>3 DEF ApartWindows

LEMMA SingleApart ==
  ASSUME NEW d \in Single
  PROVE  ApartWindows(Windows(d))
BY WindowsOfSingle DEF ApartWindows

\* A window that is about to end leaves the time after it free.
LEMMA FreeAfter ==
  ASSUME NEW W \in SUBSET Span, ApartWindows(W), NEW w \in W, w.start < w.end,
         NEW v \in W
  PROVE  ~Within(v, w.end)
<1>1. /\ v.start \in Nat /\ v.end \in Nat /\ w.start \in Nat /\ w.end \in Nat
  BY DEF Span
<1>2. v # w => v.end + Lead < w.start \/ w.end + Lead < v.start
  BY DEF ApartWindows
<1>3. QED BY <1>1, <1>2, LeadIs DEF Within

\* What the API tells as current is the active window, or else the next one.
LEMMA CurrentIs ==
  ASSUME NEW d \in Downtime, NEW t \in Nat, NEW c \in Current(d, t)
  PROVE  /\ c \in Windows(d) \cup {None}
         /\ \/ c # None /\ Within(c, t)
            \/ /\ \A w \in Windows(d) : ~Within(w, t)
               /\ \/ c = None /\ \A w \in Windows(d) : ~(w.start > t)
                  \/ /\ c # None /\ c.start > t
                     /\ \A w \in Windows(d) : w.start > t => c.start <= w.start
<1> DEFINE active == {w \in Windows(d) : Within(w, t)}
           upcoming == {w \in Windows(d) : w.start > t}
           first == CHOOSE w \in upcoming : \A v \in upcoming : w.start <= v.start
<1>0. Windows(d) \in SUBSET Span /\ None \notin Span
  BY WindowsIn, DowntimeAssumption
<1>1. ASSUME upcoming # {}
      PROVE  \E w \in upcoming : \A v \in upcoming : w.start <= v.start
  <2> DEFINE starts == {w.start : w \in upcoming}
  <2>2. starts \in SUBSET Nat /\ starts # {}
    BY <1>0, <1>1 DEF Span
  <2>3. PICK x \in starts : \A y \in starts : x <= y
    BY <2>2, NatMin
  <2>4. PICK w \in upcoming : x = w.start
    BY <2>3
  <2>5. \A v \in upcoming : v.start \in starts
    OBVIOUS
  <2>6. QED BY <2>3, <2>4, <2>5
<1>2. upcoming # {} => /\ first \in upcoming
                       /\ \A v \in upcoming : first.start <= v.start
  BY <1>1
<1>3. Current(d, t) = IF active # {} THEN active
                      ELSE IF upcoming # {} THEN {first} ELSE {None}
  BY DEF Current
<1> HIDE DEF first
<1>4. CASE active # {}
  <2>1. c \in active
    BY <1>3, <1>4
  <2>2. QED BY <1>0, <2>1
<1>5. CASE active = {} /\ upcoming # {}
  <2>1. c = first /\ c \in upcoming
    BY <1>2, <1>3, <1>5
  <2>2. \A v \in upcoming : c.start <= v.start
    BY <1>2, <1>5, <2>1
  <2>3. \A w \in Windows(d) : ~Within(w, t)
    BY <1>5
  <2>4. QED BY <1>0, <2>1, <2>2, <2>3
<1>6. CASE active = {} /\ upcoming = {}
  <2>1. c = None
    BY <1>3, <1>6
  <2>2. QED BY <1>6, <2>1
<1>7. QED BY <1>4, <1>5, <1>6

\* It is still true of the active window as long as a pass may take.
LEMMA CurrentLater ==
  ASSUME NEW d \in Recurring, ApartWindows(Windows(d)),
         NEW t \in Nat, NEW c \in Current(d, t),
         NEW u \in Nat, t <= u, u <= t + Lead,
         NEW w \in Windows(d), Within(w, u)
  PROVE  c = w
<1>1. d \in Downtime /\ Windows(d) \in SUBSET Span
  BY WindowsIn DEF Downtime
<1>2. /\ w.start \in Nat /\ w.end \in Nat /\ w.start <= u /\ u < w.end
      /\ Lead \in Nat
  BY <1>1, LeadIs DEF Span, Within
<1>3. w.start <= t => Within(w, t)
  BY <1>2 DEF Within
<1>4. SUFFICES ASSUME c # w PROVE FALSE
  OBVIOUS
<1>5. CASE c # None /\ Within(c, t)
  <2>1. c \in Windows(d)
    BY <1>1, <1>5, CurrentIs
  <2>2. c.start \in Nat /\ c.end \in Nat /\ c.start <= t /\ t < c.end
    BY <1>1, <1>5, <2>1 DEF Span, Within
  <2>3. c.end + Lead < w.start \/ w.end + Lead < c.start
    BY <1>4, <2>1 DEF ApartWindows
  <2>4. QED BY <1>2, <2>2, <2>3
<1>6. CASE c = None /\ \A v \in Windows(d) : ~Within(v, t) /\ ~(v.start > t)
  BY <1>2, <1>3, <1>6
<1>7. CASE /\ c # None /\ c.start > t
           /\ \A v \in Windows(d) : ~Within(v, t)
           /\ \A v \in Windows(d) : v.start > t => c.start <= v.start
  <2>1. c \in Windows(d)
    BY <1>1, <1>7, CurrentIs
  <2>2. c.start \in Nat /\ c.end \in Nat /\ c.start < c.end
    BY <2>1, KindsIs, WindowsOfRecurring, RuleWindowIs
  <2>3. c.end + Lead < w.start \/ w.end + Lead < c.start
    BY <1>4, <2>1 DEF ApartWindows
  <2>4. c.start <= w.start
    BY <1>2, <1>3, <1>7
  <2>5. QED BY <1>2, <1>7, <2>2, <2>3, <2>4
<1>8. QED BY <1>1, <1>5, <1>6, <1>7, CurrentIs

\* Excused, of a version that was written as planned at p with cutoff c.
ExcusedBy(S, p, c, t) ==
  \/ S.recs = {} /\ t < p + Minute
  \/ \E w \in Windows(S) :
       /\ Within(w, t)
       /\ \/ p < w.start /\ w.start <= c
          \/ S.recs # {} /\ w.start <= p /\ t >= BridgeEnd(w, p)

\* What is written, o, follows the version S of the source.
Follows(o, S, p, c) ==
  /\ o.note = S.note
  /\ \A t \in p..End : Mutes(o, t) => Mutes(S, t)
  /\ \A t \in p..End : Mutes(S, t) => Mutes(o, t) \/ ExcusedBy(S, p, c, t)
  /\ Starting(o, c) = Starting(S, c)

\* It consists of the windows after the cutoff, and before them of a bridge if
\* there is an active window of at least a minute.
Parts(o, S, p, c, B) ==
  /\ Windows(o) = Starting(S, c) \cup B
  /\ \/ /\ B = {}
        /\ \A w \in Windows(S) : Within(w, p) => w.end - p < Minute
     \/ \E a \in Windows(S) :
          /\ Within(a, p) /\ \A w \in Windows(S) : Within(w, p) => w = a
          /\ B = {Window(p, BridgeEnd(a, p))}
          /\ BridgeEnd(a, p) \in Nat
          /\ p < BridgeEnd(a, p) /\ BridgeEnd(a, p) <= a.end

LEMMA WithinIs ==
  ASSUME NEW w \in Span, NEW t
  PROVE  Within(w, t) <=> w.start <= t /\ t < w.end
BY DEF Within

\* A window of less than a minute has no whole minute.
LEMMA ShortRest ==
  ASSUME NEW w \in Span, NEW p \in Nat, Within(w, p), w.end - p < Minute
  PROVE  BridgeEnd(w, p) = p
<1> DEFINE n == w.end - p
<1>1. w.end \in Nat /\ n \in Nat /\ n < Minute /\ Minute \in Nat /\ Minute > 0
  BY DowntimeAssumption DEF Span, Within
<1>2. n % Minute = n
  <2> HIDE DEF n
  <2>1. (Minute * 0 + n) % Minute = n
    BY <1>1, Remainder
  <2>2. Minute * 0 + n = n
    BY <1>1
  <2>3. QED BY <2>1, <2>2
<1>3. BridgeEnd(w, p) = w.end - n
  BY <1>2 DEF BridgeEnd
<1>4. QED BY <1>1, <1>3

LEMMA PartsApart ==
  ASSUME NEW o \in Recurring, NEW S \in Recurring, ApartWindows(Windows(S)),
         NEW p \in Nat, NEW c \in Nat, p <= c, NEW B, Parts(o, S, p, c, B)
  PROVE  ApartWindows(Windows(o))
<1>1. Windows(S) \in SUBSET Span /\ Windows(o) \in SUBSET Span
  BY WindowsIn DEF Downtime
<1>2. ASSUME NEW v \in Starting(S, c) PROVE v \in Windows(S) /\ v.start > c
  BY DEF Starting
<1>3. Windows(o) = Starting(S, c) \cup B
  BY DEF Parts
<1>4. CASE B = {}
  BY <1>2, <1>3, <1>4 DEF ApartWindows
<1>5. CASE \E a \in Windows(S) :
             /\ Within(a, p) /\ B = {Window(p, BridgeEnd(a, p))}
             /\ BridgeEnd(a, p) \in Nat /\ BridgeEnd(a, p) <= a.end
  <2>1. PICK a \in Windows(S) :
             /\ Within(a, p) /\ B = {Window(p, BridgeEnd(a, p))}
             /\ BridgeEnd(a, p) \in Nat /\ BridgeEnd(a, p) <= a.end
    BY <1>5
  <2> DEFINE b == Window(p, BridgeEnd(a, p))
  <2>2. b.start = p /\ b.end = BridgeEnd(a, p) /\ B = {b}
    BY <2>1, WindowIs
  <2> HIDE DEF b
  <2>3. a.start \in Nat /\ a.end \in Nat /\ a.start <= p /\ Lead \in Nat
    BY <1>1, <2>1, LeadIs DEF Span, Within
  <2>4. ASSUME NEW v \in Starting(S, c) PROVE b.end + Lead < v.start
    <3>1. v.start \in Nat /\ v.end \in Nat /\ v.start > c /\ v.start < v.end
      BY <1>2, KindsIs, WindowsOfRecurring, RuleWindowIs
    <3>2. v # a
      BY <2>3, <3>1
    <3>3. v.end + Lead < a.start \/ a.end + Lead < v.start
      BY <1>2, <3>2 DEF ApartWindows
    <3>4. QED BY <2>1, <2>2, <2>3, <3>1, <3>3
  <2>5. QED BY <1>2, <1>3, <2>2, <2>4 DEF ApartWindows
<1>6. QED BY <1>4, <1>5 DEF Parts

LEMMA PartsFollow ==
  ASSUME NEW o \in Recurring, NEW S \in Recurring, o.note = S.note,
         NEW p \in Nat, NEW c \in Nat, p <= c, NEW B, Parts(o, S, p, c, B)
  PROVE  Follows(o, S, p, c)
<1>1. Windows(S) \in SUBSET Span /\ Windows(o) \in SUBSET Span /\ S.recs # {}
  BY WindowsIn, KindsIs DEF Downtime
<1>2. ASSUME NEW v \in Starting(S, c)
      PROVE  v \in Windows(S) /\ v \in Windows(o) /\ v.start > c
  BY DEF Starting, Parts
<1>3. Windows(o) = Starting(S, c) \cup B
  BY DEF Parts
<1>4. ASSUME NEW b \in B
      PROVE  \E a \in Windows(S) :
               /\ Within(a, p) /\ \A w \in Windows(S) : Within(w, p) => w = a
               /\ b = Window(p, BridgeEnd(a, p)) /\ BridgeEnd(a, p) \in Nat
               /\ BridgeEnd(a, p) <= a.end
  BY <1>4 DEF Parts
<1>5. ASSUME NEW t \in p..End, Mutes(o, t) PROVE Mutes(S, t)
  <2>1. PICK v \in Windows(o) : Within(v, t)
    BY <1>5 DEF Mutes
  <2>2. CASE v \in Starting(S, c)
    BY <1>2, <2>1, <2>2 DEF Mutes
  <2>3. CASE v \in B
    <3>1. PICK a \in Windows(S) :
               /\ Within(a, p) /\ v = Window(p, BridgeEnd(a, p))
               /\ BridgeEnd(a, p) \in Nat /\ BridgeEnd(a, p) <= a.end
      BY <1>4, <2>3
    <3>2. t < BridgeEnd(a, p)
      BY <2>1, <3>1, WindowIs DEF Within
    <3>3. a.start \in Nat /\ a.end \in Nat /\ a.start <= p /\ t \in Nat /\ p <= t
      BY <1>1, <3>1, EndIs DEF Span, Within
    <3>4. Within(a, t)
      BY <3>1, <3>2, <3>3 DEF Within
    <3>5. QED BY <3>4 DEF Mutes
  <2>4. QED BY <1>3, <2>2, <2>3
<1>6. ASSUME NEW t \in p..End, Mutes(S, t)
      PROVE  Mutes(o, t) \/ ExcusedBy(S, p, c, t)
  <2>1. PICK w \in Windows(S) : Within(w, t)
    BY <1>6 DEF Mutes
  <2>2. /\ w.start \in Nat /\ w.end \in Nat /\ w.start <= t /\ t < w.end
        /\ t \in Nat /\ p <= t
    BY <1>1, <2>1, EndIs DEF Span, Within
  <2>3. CASE w.start > c
    <3>1. w \in Windows(o)
      BY <1>3, <2>3 DEF Starting
    <3>2. QED BY <2>1, <3>1 DEF Mutes
  <2>4. CASE p < w.start /\ w.start <= c
    BY <2>1, <2>4 DEF ExcusedBy
  <2>5. CASE w.start <= p
    <3>1. Within(w, p)
      BY <2>2, <2>5 DEF Within
    <3>2. CASE t >= BridgeEnd(w, p)
      BY <1>1, <2>1, <2>5, <3>2 DEF ExcusedBy
    <3>3. CASE ~(t >= BridgeEnd(w, p))
      <4>1. ~(w.end - p < Minute)
        <5>1. w \in Span
          BY <1>1
        <5>2. w.end - p < Minute => BridgeEnd(w, p) = p
          BY <3>1, <5>1, ShortRest
        <5>3. QED BY <2>2, <3>3, <5>2
      <4>2. PICK a \in Windows(S) :
              /\ Within(a, p) /\ \A x \in Windows(S) : Within(x, p) => x = a
              /\ B = {Window(p, BridgeEnd(a, p))}
              /\ BridgeEnd(a, p) \in Nat
        BY <3>1, <4>1 DEF Parts
      <4>3. a = w
        BY <3>1, <4>2
      <4>4. Within(Window(p, BridgeEnd(w, p)), t)
        <5>1. t < BridgeEnd(w, p)
          BY <2>2, <3>3, <4>2, <4>3
        <5>2. QED BY <2>2, <5>1, WindowIs DEF Within
      <4>5. Window(p, BridgeEnd(w, p)) \in Windows(o)
        BY <1>3, <4>2, <4>3
      <4>6. QED BY <4>4, <4>5 DEF Mutes
    <3>4. QED BY <3>2, <3>3
  <2>6. QED BY <2>2, <2>3, <2>4, <2>5
<1>7. Starting(o, c) = Starting(S, c)
  <2>1. ASSUME NEW b \in B PROVE ~(b.start > c)
    BY <1>4, WindowIs
  <2>2. QED BY <1>2, <1>3, <2>1 DEF Starting
<1>8. QED BY <1>5, <1>6, <1>7 DEF Follows

\* An exact copy follows.
LEMMA CopyFollows ==
  ASSUME NEW S, NEW p, NEW c
  PROVE  Follows(S, S, p, c)
BY DEF Follows

-----------------------------------------------------------------------------
(* Downtimes: plans, forms and decisions.                                  *)

\* A recurring schedule, and what was said of it to be current, which may be old.
Dated(S, cur, t) ==
  /\ S \in Recurring /\ ApartWindows(Windows(S))
  /\ t \in 0..Horizon /\ cur \in Windows(S) \cup {None}

\* What was said is not too old to tell the active window.
Recent(S, cur, t) ==
  Dated(S, cur, t) /\ \A w \in Windows(S) : Within(w, t) => cur = w

LEMMA CutoffIs ==
  ASSUME NEW t \in Nat
  PROVE  t + Minute \in Nat /\ t < t + Minute /\ Minute \in Nat /\ Minute > 0
BY DowntimeAssumption

LEMMA PlanIs ==
  ASSUME NEW S, NEW cur, NEW t, Dated(S, cur, t)
  PROVE  LET p == Plan(S, cur, t)
         IN  /\ p.active \in Windows(S) \cup {None}
             /\ p.active = None \/ p.active = cur
             /\ p.active # None =>
                  /\ p.active \in Span /\ Within(p.active, t)
                  /\ p.active.start < p.active.end
                  /\ p.active.end <= p.active.start + Horizon
                  /\ p.active.end \in t..End
             /\ p.active = None => cur = None \/ ~Within(cur, t)
             /\ p.future = Future(S, t + Minute)
             /\ p.future \in SUBSET Rule
             /\ RuleWindows(p.future) = Starting(S, t + Minute)
<1> DEFINE p == Plan(S, cur, t)
<1>1. /\ S \in Recurring /\ S.recs \in SUBSET Rule /\ S.recs # {}
      /\ t \in Nat /\ t <= Horizon /\ cur \in Windows(S) \cup {None}
      /\ Horizon \in Nat
  BY KindsIs, DowntimeAssumption DEF Dated
<1>2. p.active = IF cur # None /\ Within(cur, t) THEN cur ELSE None
  BY DEF Plan
<1>3. p.future = Future(S, t + Minute)
  BY DEF Plan
<1> HIDE DEF p
<1>4. Windows(S) = RuleWindows(S.recs)
  BY <1>1, WindowsOfRecurring
<1>5. p.active \in Windows(S) \cup {None} /\ (p.active = None \/ p.active = cur)
  BY <1>1, <1>2
<1>6. p.active # None =>
        /\ p.active \in Span /\ Within(p.active, t)
        /\ p.active.start < p.active.end
        /\ p.active.end <= p.active.start + Horizon
        /\ p.active.end \in t..End
  <2> SUFFICES ASSUME p.active # None
               PROVE  /\ p.active \in Span /\ Within(p.active, t)
                      /\ p.active.start < p.active.end
                      /\ p.active.end <= p.active.start + Horizon
                      /\ p.active.end \in t..End
    OBVIOUS
  <2>1. p.active \in RuleWindows(S.recs) /\ Within(p.active, t)
    BY <1>2, <1>4, <1>5
  <2>2. /\ p.active \in Span /\ p.active.start \in Nat /\ p.active.end \in Nat
        /\ p.active.start < p.active.end
        /\ p.active.end <= p.active.start + Horizon
    BY <1>1, <2>1, RuleWindowIs
  <2>3. p.active.end \in t..End
    BY <1>1, <2>1, <2>2 DEF Within, End
  <2>4. QED BY <2>1, <2>2, <2>3
<1>7. p.active = None => cur = None \/ ~Within(cur, t)
  BY <1>2
<1>8. p.future \in SUBSET Rule /\ RuleWindows(p.future) = Starting(S, t + Minute)
  BY <1>1, <1>3, <1>4, CutoffIs, FutureIs DEF Starting
<1>9. QED BY <1>3, <1>5, <1>6, <1>7, <1>8 DEF p

\* The recurrences that are sent for a plan make the parts that follow.
LEMMA MaterializedIs ==
  ASSUME NEW S, NEW cur, NEW t, Recent(S, cur, t),
         NEW o, o.recs = Materialized(Plan(S, cur, t), t), o.recs # {}
  PROVE  /\ o.recs \in SUBSET Rule
         /\ \E B : Parts(o, S, t, t + Minute, B)
<1> DEFINE p == Plan(S, cur, t)
           c == t + Minute
<1>1. Dated(S, cur, t) /\ \A w \in Windows(S) : Within(w, t) => cur = w
  BY DEF Recent
<1>2. /\ p.active \in Windows(S) \cup {None}
      /\ p.active = None \/ p.active = cur
      /\ p.active # None =>
           /\ p.active \in Span /\ Within(p.active, t)
           /\ p.active.end <= p.active.start + Horizon
      /\ p.active = None => cur = None \/ ~Within(cur, t)
      /\ p.future \in SUBSET Rule /\ RuleWindows(p.future) = Starting(S, c)
  BY <1>1, PlanIs
<1> HIDE DEF p
<1>3. t \in 0..Horizon /\ Windows(S) \in SUBSET Span /\ None \notin Span
  BY <1>1, WindowsIn, DowntimeAssumption DEF Dated, Downtime
<1>4. o.recs = Bridge(p, t) \cup p.future
  BY DEF Materialized, p
<1>5. \A w : w \in Windows(o) <=>
               w \in RuleWindows(Bridge(p, t)) \/ w \in Starting(S, c)
  BY <1>2, <1>4, WindowsOfRecurring, RuleWindowsUnion
<1>6. \A w \in Windows(S) : Within(w, t) => p.active = w
  BY <1>1, <1>2, <1>3
<1>7. CASE Effective(p, t) = None
  <2>1. Bridge(p, t) = {}
    BY <1>7, NoBridge
  <2>2. \A w : w \notin RuleWindows(Bridge(p, t))
    BY <2>1 DEF RuleWindows
  <2>3. Windows(o) = Starting(S, c) \cup {}
    BY <1>5, <2>2
  <2>4. \A w \in Windows(S) : Within(w, t) => w.end - t < Minute
    BY <1>3, <1>6, <1>7, EffectiveIs
  <2>5. Parts(o, S, t, c, {})
    BY <2>3, <2>4 DEF Parts
  <2>6. QED BY <1>2, <1>4, <2>1, <2>5
<1>8. CASE Effective(p, t) # None
  <2>1. p.active # None
    BY <1>8, EffectiveIs
  <2>2. /\ Bridge(p, t) \in SUBSET Rule
        /\ RuleWindows(Bridge(p, t)) = {Window(t, BridgeEnd(p.active, t))}
        /\ BridgeEnd(p.active, t) \in Nat /\ t < BridgeEnd(p.active, t)
        /\ BridgeEnd(p.active, t) <= p.active.end
    BY <1>2, <1>3, <1>8, <2>1, BridgeIs
  <2> DEFINE B == {Window(t, BridgeEnd(p.active, t))}
  <2>3. Windows(o) = Starting(S, c) \cup B
    BY <1>5, <2>2
  <2>4. \A w \in Windows(S) : Within(w, t) => w = p.active
    BY <1>6
  <2>5. p.active \in Windows(S) /\ Within(p.active, t)
    BY <1>2, <2>1
  <2>6. Parts(o, S, t, c, B)
    BY <2>2, <2>3, <2>4, <2>5 DEF Parts
  <2>7. QED BY <1>2, <1>4, <2>2, <2>6
<1>9. QED BY <1>7, <1>8

\* A version with other recurrences.
LEMMA WithRecs ==
  ASSUME NEW S \in Downtime, NEW R
  PROVE  LET o == [S EXCEPT !.recs = R]
         IN  /\ o.recs = R /\ o.note = S.note
             /\ S \in Recurring /\ R \in SUBSET Rule /\ R # {} => o \in Recurring
             /\ R \in SUBSET Rule => o \in Schedule
<1> DEFINE o == [S EXCEPT !.recs = R]
<1>1. S = [note |-> S.note, start |-> S.start, end |-> S.end, recs |-> S.recs]
      /\ S.note \in STRING /\ S.start \in Time /\ S.end \in Time
  BY DEF Downtime, Single, Recurring, Time
<1>2. o = [note |-> S.note, start |-> S.start, end |-> S.end, recs |-> R]
  BY <1>1
<1>3. ASSUME S \in Recurring, R \in SUBSET Rule, R # {} PROVE o \in Recurring
  <2>1. S.start = None /\ S.end = None
    BY <1>3 DEF Recurring
  <2>2. R \in (SUBSET Rule) \ {{}}
    BY <1>3
  <2>3. QED BY <1>1, <1>2, <2>1, <2>2 DEF Recurring
<1>4. R \in SUBSET Rule => o \in Schedule
  BY <1>1, <1>2 DEF Schedule
<1>5. QED BY <1>2, <1>3, <1>4

\* What is sent for a plan follows its version.
LEMMA MaterializedFollows ==
  ASSUME NEW S, NEW cur, NEW t, Recent(S, cur, t),
         NEW R, R = Materialized(Plan(S, cur, t), t), R # {}
  PROVE  LET o == [S EXCEPT !.recs = R]
         IN  /\ o \in Recurring /\ ApartWindows(Windows(o))
             /\ Follows(o, S, t, t + Minute)
<1> DEFINE o == [S EXCEPT !.recs = R]
<1>1. /\ S \in Recurring /\ S \in Downtime /\ ApartWindows(Windows(S))
      /\ t \in Nat /\ t + Minute \in Nat /\ t <= t + Minute
  BY CutoffIs DEF Recent, Dated, Downtime
<1>2. o.recs = R /\ o.note = S.note /\ (R \in SUBSET Rule => o \in Recurring)
  BY <1>1, WithRecs
<1> HIDE DEF o
<1>3. R \in SUBSET Rule /\ \E B : Parts(o, S, t, t + Minute, B)
  BY <1>2, MaterializedIs
<1>4. o \in Recurring
  BY <1>2, <1>3
<1>5. PICK B : Parts(o, S, t, t + Minute, B)
  BY <1>3
<1>6. ApartWindows(Windows(o)) /\ Follows(o, S, t, t + Minute)
  BY <1>1, <1>2, <1>4, <1>5, PartsApart, PartsFollow
<1>7. QED BY <1>4, <1>6 DEF o

\* When the cadence alone is sent, the rest of an active window is too short, or
\* none is active.
LEMMA CadenceFollows ==
  ASSUME NEW S \in Recurring, ApartWindows(Windows(S)), NEW t \in Nat, NEW c \in Nat,
         t <= c, \A w \in Windows(S) : Within(w, t) => w.end - t < Minute,
         NEW R \in SUBSET Rule, R # {}, RuleWindows(R) = Starting(S, c)
  PROVE  LET o == [S EXCEPT !.recs = R]
         IN  /\ o \in Recurring /\ ApartWindows(Windows(o))
             /\ Follows(o, S, t, c)
<1> DEFINE o == [S EXCEPT !.recs = R]
<1>1. o.recs = R /\ o.note = S.note /\ o \in Recurring
  BY WithRecs DEF Downtime
<1> HIDE DEF o
<1>2. Windows(o) = Starting(S, c) \cup {}
  BY <1>1, WindowsOfRecurring
<1>3. Parts(o, S, t, c, {})
  BY <1>2 DEF Parts
<1>4. ApartWindows(Windows(o)) /\ Follows(o, S, t, c)
  BY <1>1, <1>3, PartsApart, PartsFollow
<1>5. QED BY <1>1, <1>4 DEF o

\* A one-time downtime that is created late starts after the lead of the write.
LEMMA LateFollows ==
  ASSUME NEW S \in Single, NEW t \in Nat, S.start <= t
  PROVE  LET o == [S EXCEPT !.start = t + Minute]
         IN  o \in Single /\ Follows(o, S, t, t + Minute)
<1> DEFINE o == [S EXCEPT !.start = t + Minute]
           c == t + Minute
           e == IF S.end = None THEN End ELSE S.end
<1>1. c \in Nat /\ t < c
  BY CutoffIs
<1>2. /\ o.start = c /\ o.end = S.end /\ o.note = S.note /\ o.recs = {}
      /\ o \in Single /\ S.start \in Nat /\ S.recs = {}
  BY <1>1 DEF Single
<1> HIDE DEF o, c
<1>3. Windows(S) = {Window(S.start, e)} /\ Windows(o) = {Window(c, e)}
  BY <1>2, WindowsOfSingle
<1>4. e \in Nat
  BY EndIs DEF Single, Time
<1> HIDE DEF e
<1>5. /\ \A u : Mutes(S, u) <=> S.start <= u /\ u < e
      /\ \A u : Mutes(o, u) <=> c <= u /\ u < e
  BY <1>3, WindowIs DEF Mutes, Within
<1>6. ASSUME NEW u \in t..End
      PROVE  /\ Mutes(o, u) => Mutes(S, u)
             /\ Mutes(S, u) => Mutes(o, u) \/ ExcusedBy(S, t, c, u)
  <2>1. u \in Nat /\ t <= u
    BY EndIs
  <2>2. u < t + Minute => ExcusedBy(S, t, c, u)
    BY <1>2 DEF ExcusedBy
  <2>3. u < c => ExcusedBy(S, t, c, u)
    BY <2>2 DEF c
  <2>4. QED BY <1>1, <1>2, <1>4, <1>5, <2>1, <2>3
<1>7. Starting(o, c) = {} /\ Starting(S, c) = {}
  BY <1>1, <1>2, <1>3, WindowIs DEF Starting
<1>8. Follows(o, S, t, c)
  BY <1>2, <1>6, <1>7 DEF Follows
<1>9. QED BY <1>2, <1>8 DEF o, c

\* What is created follows what was imported.
LEMMA CreateFollows ==
  ASSUME NEW S \in Downtime, NEW cur, NEW t \in Nat, NEW o \in CreateForm(S, cur, t),
         S \in Recurring => Recent(S, cur, t)
  PROVE  /\ o \in Downtime /\ (o \in Single <=> S \in Single)
         /\ ApartWindows(Windows(o)) /\ Follows(o, S, t, t + Minute)
<1>1. CASE S \in Single
  <2>1. S.recs = {}
    BY <1>1, KindsIs
  <2>2. o = S \/ (S.start <= t /\ o = [S EXCEPT !.start = t + Minute])
    BY <2>1 DEF CreateForm
  <2>3. CASE o = S
    BY <1>1, <2>3, SingleApart, CopyFollows
  <2>4. CASE S.start <= t /\ o = [S EXCEPT !.start = t + Minute]
    <3>1. o \in Single /\ Follows(o, S, t, t + Minute)
      BY <1>1, <2>4, LateFollows
    <3>2. QED BY <1>1, <3>1, SingleApart DEF Downtime
  <2>5. QED BY <2>2, <2>3, <2>4
<1>2. CASE S \in Recurring
  <2>1. S.recs # {} /\ Recent(S, cur, t)
    BY <1>2, KindsIs
  <2> DEFINE R == Materialized(Plan(S, cur, t), t)
  <2>2. R # {} /\ o = [S EXCEPT !.recs = R]
    BY <2>1 DEF CreateForm
  <2>3. /\ o \in Recurring /\ ApartWindows(Windows(o))
        /\ Follows(o, S, t, t + Minute)
    BY <2>1, <2>2, MaterializedFollows
  <2>4. QED BY <1>2, <2>3, KindsIs DEF Downtime
<1>3. QED BY <1>1, <1>2 DEF Downtime

\* The decision, case by case.
LEMMA DecisionCases ==
  ASSUME NEW res, NEW s, NEW d, NEW t, NEW theirs
  PROVE  LET x  == Decision(res, s, d, t, theirs)
             E  == Equivalent(s, d, t)
             sA == Effective(s, t)
             W  == SameWindow(s, d, t)
             M  == Materialized(s, t)
         IN  /\ x.action \in {"omit", "normalize", "patch", "recreate", "cancel"}
             /\ x.action = "normalize" => E /\ s.active = None /\ x.recs = theirs
             /\ x.action = "omit" =>
                  /\ x.recs = theirs
                  /\ \/ E
                     \/ d.active # None
                     \/ s.future = {} /\ d.future = {}
             /\ x.action = "recreate" =>
                  /\ x.recs = M /\ d.active # None /\ s.active # None /\ ~W
                  /\ sA = None => s.future # {}
             /\ x.action = "patch" =>
                  \/ x.recs = M /\ sA # None
                  \/ x.recs = res.recs
                  \/ x.recs = s.future /\ s.future # {} /\ sA = None
             /\ x.action = "cancel" =>
                  /\ x.recs = {}
                  /\ \/ s.active # None /\ d.active # None /\ ~W
                     \/ s.active = None /\ d.active # None
                     \/ sA = None /\ d.active = None /\ s.future = {} /\ d.future # {}
<1> DEFINE E  == Equivalent(s, d, t)
           sA == Effective(s, t)
           W  == SameWindow(s, d, t)
           M  == Materialized(s, t)
           x  == Decision(res, s, d, t, theirs)
<1> DEFINE Verdict ==
    /\ x.action \in {"omit", "normalize", "patch", "recreate", "cancel"}
    /\ x.action = "normalize" => E /\ s.active = None /\ x.recs = theirs
    /\ x.action = "omit" =>
         /\ x.recs = theirs
         /\ \/ E
            \/ d.active # None
            \/ s.future = {} /\ d.future = {}
    /\ x.action = "recreate" =>
         /\ x.recs = M /\ d.active # None /\ s.active # None /\ ~W
         /\ sA = None => s.future # {}
    /\ x.action = "patch" =>
         \/ x.recs = M /\ sA # None
         \/ x.recs = res.recs
         \/ x.recs = s.future /\ s.future # {} /\ sA = None
    /\ x.action = "cancel" =>
         /\ x.recs = {}
         /\ \/ s.active # None /\ d.active # None /\ ~W
            \/ s.active = None /\ d.active # None
            \/ sA = None /\ d.active = None /\ s.future = {} /\ d.future # {}
<1>1. ASSUME E PROVE Verdict
  <2>1. x = IF s.active = None /\ d.active = None /\ s.future # {}
            THEN Decide("normalize", theirs) ELSE Decide("omit", theirs)
    BY <1>1 DEF Decision
  <2> HIDE DEF x, W, M, sA, E
  <2>2. QED BY <1>1, <2>1 DEF Decide
<1>2. ASSUME ~E, s.active # None, sA = None, d.active # None PROVE Verdict
  <2>1. x = IF W THEN Decide("omit", theirs)
            ELSE IF s.future # {} THEN Decide("recreate", M) ELSE Decide("cancel", {})
    BY <1>2 DEF Decision
  <2> HIDE DEF x, E, W, M, sA
  <2>2. QED BY <1>2, <2>1 DEF Decide
<1>3. ASSUME ~E, sA # None PROVE Verdict
  <2>1. x = IF d.active = None THEN Decide("patch", M)
            ELSE IF sA.start = d.active.start THEN Decide("patch", res.recs)
            ELSE IF W THEN Decide("omit", theirs) ELSE Decide("recreate", M)
    BY <1>3 DEF Decision
  <2>2. s.active # None
    BY <1>3, EffectiveIs
  <2> HIDE DEF x, E, W, M, sA
  <2>3. QED BY <1>3, <2>1, <2>2 DEF Decide
<1>4. ASSUME ~E, sA = None, s.active = None \/ d.active = None PROVE Verdict
  <2>1. x = IF s.future # {} THEN Decide("patch", s.future)
            ELSE IF d.active # None \/ d.future # {} THEN Decide("cancel", {})
            ELSE Decide("omit", theirs)
    BY <1>4 DEF Decision
  <2> HIDE DEF x, E, W, M, sA
  <2>2. QED BY <1>4, <2>1 DEF Decide
<1>5. Verdict
  <2> HIDE DEF Verdict, x, E, W, M, sA
  <2>1. QED BY <1>1, <1>2, <1>3, <1>4
<1>6. QED BY <1>5

\* The object is left with another cadence only while it mutes.
LeftAlone(D, S, p, c) == (D.recs # {} /\ Mutes(D, p)) \/ Starting(D, c) = Starting(S, c)

\* From p on the one mutes at some time and the other does not.
Differ(D, S, p) ==
  \E t \in p..End : \/ Mutes(D, t) /\ ~Mutes(S, t)
                    \/ ~Mutes(D, t) /\ Mutes(S, t)

\* Two active windows that end differently.
LEMMA EndsDiffer ==
  ASSUME NEW S \in Recurring, ApartWindows(Windows(S)),
         NEW D \in Recurring, ApartWindows(Windows(D)),
         NEW t \in Nat, NEW a \in Windows(S), NEW b \in Windows(D),
         Within(a, t), Within(b, t), a.end \in t..End, b.end \in t..End,
         a.end < b.end \/ b.end < a.end
  PROVE  Differ(D, S, t)
<1>1. Windows(S) \in SUBSET Span /\ Windows(D) \in SUBSET Span
  BY WindowsIn DEF Downtime
<1>2. /\ a.start \in Nat /\ a.end \in Nat /\ b.start \in Nat /\ b.end \in Nat
      /\ a.start <= t /\ t < a.end /\ b.start <= t /\ t < b.end
  BY <1>1 DEF Span, Within
<1>3. CASE a.end < b.end
  <2>1. Within(b, a.end)
    BY <1>2, <1>3 DEF Within
  <2>2. \A v \in Windows(S) : ~Within(v, a.end)
    BY <1>1, <1>2, FreeAfter
  <2>3. Mutes(D, a.end) /\ ~Mutes(S, a.end)
    BY <2>1, <2>2 DEF Mutes
  <2>4. QED BY <2>3 DEF Differ
<1>4. CASE b.end < a.end
  <2>1. Within(a, b.end)
    BY <1>2, <1>4 DEF Within
  <2>2. \A v \in Windows(D) : ~Within(v, b.end)
    BY <1>1, <1>2, FreeAfter
  <2>3. Mutes(S, b.end) /\ ~Mutes(D, b.end)
    BY <2>1, <2>2 DEF Mutes
  <2>4. QED BY <2>3 DEF Differ
<1>5. QED BY <1>3, <1>4

\* A cadence that goes on has windows.
LEMMA FutureHasWindows ==
  ASSUME NEW d, d.recs \in SUBSET Rule, NEW cutoff \in Nat, Future(d, cutoff) # {}
  PROVE  \E v \in RuleWindows(d.recs) : v.start > cutoff
<1>1. PICK r \in d.recs : \E n : n \in Rebased(r, cutoff)
  BY DEF Future
<1>2. Later(r, cutoff) # {}
  BY <1>1 DEF Rebased
<1>3. PICK t \in Occurrences(r) : t > cutoff
  BY <1>2 DEF Later
<1>4. Window(t, t + r.lasts) \in RuleWindows(d.recs)
  BY <1>3, RuleWindowsAre
<1>5. Window(t, t + r.lasts).start > cutoff
  BY <1>3, WindowIs
<1>6. QED BY <1>4, <1>5

\* A source that is exhausted, and a copy that is not.
LEMMA ExhaustedDiffer ==
  ASSUME NEW S \in Recurring, NEW D \in Recurring, ApartWindows(Windows(D)),
         NEW t \in Nat, NEW c \in Nat, t <= c,
         \A w \in Windows(S) : Within(w, t) => w.end <= c,
         Starting(S, c) = {}, NEW v \in Windows(D), v.start > c
  PROVE  Differ(D, S, t)
<1>1. Windows(S) \in SUBSET Span /\ Windows(D) \in SUBSET Span
  BY WindowsIn DEF Downtime
<1>2. /\ v.start \in Nat /\ v.end \in Nat /\ v.start < v.end
      /\ v.start <= End /\ End \in Nat /\ Lead \in Nat
  BY KindsIs, WindowsOfRecurring, RuleWindowIs, EndIs, LeadIs
<1> DEFINE u == v.start
<1>3. Within(v, u) /\ u \in t..End
  BY <1>2 DEF Within
<1>4. Mutes(D, u)
  BY <1>3 DEF Mutes
<1>5. CASE ~Mutes(S, u)
  BY <1>3, <1>4, <1>5 DEF Differ
<1>6. CASE Mutes(S, u)
  <2>1. PICK w \in Windows(S) : Within(w, u)
    BY <1>6 DEF Mutes
  <2>2. /\ w.start \in Nat /\ w.end \in Nat /\ w.start <= u /\ u < w.end
    BY <1>1, <2>1 DEF Span, Within
  <2>3. w.start <= c
    <3>1. ~(w.start > c)
      BY DEF Starting
    <3>2. QED BY <2>2, <3>1
  <2>4. u - 1 \in t..End /\ w.start <= u - 1 /\ u - 1 < w.end
    BY <1>2, <2>2, <2>3
  <2>5. Mutes(S, u - 1)
    BY <2>4 DEF Mutes, Within
  <2>6. ASSUME NEW y \in Windows(D), Within(y, u - 1) PROVE FALSE
    <3>1. y.start \in Nat /\ y.end \in Nat /\ y.start <= u - 1 /\ u - 1 < y.end
      BY <1>1, <2>6 DEF Span, Within
    <3>2. y # v
      BY <1>2, <3>1
    <3>3. y.end + Lead < v.start \/ v.end + Lead < y.start
      BY <3>2 DEF ApartWindows
    <3>4. QED BY <1>2, <3>1, <3>3
  <2>7. ~Mutes(D, u - 1)
    BY <2>6 DEF Mutes
  <2>8. QED BY <2>4, <2>5, <2>7 DEF Differ
<1>7. QED BY <1>5, <1>6

\* What the decision on a recurring downtime comes to, D being the copy.
LEMMA DecisionIs ==
  ASSUME NEW S, NEW scur, NEW D, NEW dcur, NEW t,
         Recent(S, scur, t), Dated(D, dcur, t),
         NEW x, x = Decision(S, Plan(S, scur, t), Plan(D, dcur, t), t, D.recs)
  PROVE  LET o == [S EXCEPT !.recs = x.recs]
             c == t + Minute
         IN  /\ x.action \in {"omit", "normalize", "patch", "recreate", "cancel"}
             /\ x.action \in {"patch", "recreate"} =>
                  o \in Recurring /\ ApartWindows(Windows(o)) /\ Follows(o, S, t, c)
             /\ x.action \in {"omit", "normalize"} => x.recs = D.recs
             /\ x.action = "omit" => LeftAlone(D, S, t, c)
             /\ x.action = "normalize" =>
                  /\ Starting(D, c) = Starting(S, c)
                  /\ \A w \in Windows(S) : ~Within(w, t)
             /\ x.action = "cancel" => x.recs = {}
             /\ x.action \in {"recreate", "cancel"} => Differ(D, S, t)
<1> DEFINE s == Plan(S, scur, t)
           d == Plan(D, dcur, t)
           c == t + Minute
           o == [S EXCEPT !.recs = x.recs]
           sA == Effective(s, t)
           M == Materialized(s, t)
           W == SameWindow(s, d, t)
           E == Equivalent(s, d, t)
<1>1. /\ Dated(S, scur, t) /\ S \in Recurring /\ D \in Recurring
      /\ S \in Downtime /\ D \in Downtime
      /\ ApartWindows(Windows(S)) /\ ApartWindows(Windows(D))
      /\ t \in 0..Horizon /\ t \in Nat /\ c \in Nat /\ t <= c
      /\ \A w \in Windows(S) : Within(w, t) => scur = w
      /\ Windows(S) \in SUBSET Span /\ Windows(D) \in SUBSET Span
      /\ None \notin Span /\ Minute \in Nat
  BY CutoffIs, WindowsIn, DowntimeAssumption DEF Recent, Dated, Downtime
<1>2. /\ s.active \in Windows(S) \cup {None}
      /\ s.active = None \/ s.active = scur
      /\ s.active # None =>
           /\ s.active \in Span /\ Within(s.active, t)
           /\ s.active.end <= s.active.start + Horizon
           /\ s.active.end \in t..End
      /\ s.active = None => scur = None \/ ~Within(scur, t)
      /\ s.future \in SUBSET Rule /\ RuleWindows(s.future) = Starting(S, c)
  BY <1>1, PlanIs
<1>3. /\ d.active \in Windows(D) \cup {None}
      /\ d.active # None => /\ Within(d.active, t)
                            /\ d.active.end \in t..End
      /\ d.future = Future(D, c)
      /\ d.future \in SUBSET Rule /\ RuleWindows(d.future) = Starting(D, c)
  BY <1>1, PlanIs
<1>4. /\ x.action \in {"omit", "normalize", "patch", "recreate", "cancel"}
      /\ x.action = "normalize" => E /\ s.active = None /\ x.recs = D.recs
      /\ x.action = "omit" =>
           /\ x.recs = D.recs
           /\ \/ E
              \/ d.active # None
              \/ s.future = {} /\ d.future = {}
      /\ x.action = "recreate" =>
           /\ x.recs = M /\ d.active # None /\ s.active # None /\ ~W
           /\ sA = None => s.future # {}
      /\ x.action = "patch" =>
           \/ x.recs = M /\ sA # None
           \/ x.recs = S.recs
           \/ x.recs = s.future /\ s.future # {} /\ sA = None
      /\ x.action = "cancel" =>
           /\ x.recs = {}
           /\ \/ s.active # None /\ d.active # None /\ ~W
              \/ s.active = None /\ d.active # None
              \/ sA = None /\ d.active = None /\ s.future = {} /\ d.future # {}
  BY DecisionCases
<1>5. E => s.future = d.future
  BY DEF Equivalent
<1>6. sA # None => M # {}
  <2> SUFFICES ASSUME sA # None PROVE M # {}
    OBVIOUS
  <2>1. s.active # None /\ t \in 0..Horizon
    BY <1>1, EffectiveIs
  <2> HIDE DEF s
  <2>2. Bridge(s, t) # {}
    BY <1>2, <2>1, BridgeIs
  <2>3. QED BY <2>2 DEF Materialized
<1>7. s.future # {} => M # {}
  BY DEF Materialized
<1>8. ASSUME M # {}, x.recs = M
      PROVE  o \in Recurring /\ ApartWindows(Windows(o)) /\ Follows(o, S, t, c)
  BY <1>8, MaterializedFollows
<1>9. \A w \in Windows(S) : Within(w, t) => s.active = w
  BY <1>1, <1>2
<1>10. ~W /\ s.active # None /\ d.active # None => Differ(D, S, t)
  <2> SUFFICES ASSUME ~W, s.active # None, d.active # None PROVE Differ(D, S, t)
    OBVIOUS
  <2>1. ~(d.active.end <= s.active.end /\ s.active.end < d.active.end + Minute)
    BY DEF SameWindow
  <2> HIDE DEF s, d
  <2>2. s.active.end \in t..End /\ d.active.end \in t..End
    BY <1>2, <1>3
  <2>3. s.active.end < d.active.end \/ d.active.end < s.active.end
    <3>1. s.active.end \in Nat /\ d.active.end \in Nat /\ Minute > 0
      BY <1>1, <2>2, EndIs, DowntimeAssumption
    <3>2. QED BY <1>1, <2>1, <3>1
  <2>4. /\ s.active \in Windows(S) /\ d.active \in Windows(D)
        /\ Within(s.active, t) /\ Within(d.active, t)
    BY <1>2, <1>3
  <2>5. QED BY <1>1, <2>2, <2>3, <2>4, EndsDiffer
<1>11. s.active = None /\ d.active # None => Differ(D, S, t)
  <2> SUFFICES ASSUME s.active = None, d.active # None PROVE Differ(D, S, t)
    OBVIOUS
  <2> HIDE DEF s, d
  <2>1. \A w \in Windows(S) : ~Within(w, t)
    BY <1>1, <1>9
  <2>2. Mutes(D, t) /\ ~Mutes(S, t)
    BY <1>3, <2>1 DEF Mutes
  <2>3. t \in t..End
    BY <1>1, EndIs, DowntimeAssumption
  <2>4. QED BY <2>2, <2>3 DEF Differ
<1>12. sA = None /\ s.future = {} /\ d.future # {} => Differ(D, S, t)
  <2> SUFFICES ASSUME sA = None, s.future = {}, d.future # {} PROVE Differ(D, S, t)
    OBVIOUS
  <2>1. \A w \in Windows(S) : Within(w, t) => w.end <= c
    <3>1. ASSUME NEW w \in Windows(S), Within(w, t) PROVE w.end <= c
      <4>1. s.active = w /\ w.end \in Nat
        BY <1>1, <1>9, <3>1 DEF Span
      <4>2. w.end - t < Minute
        BY <1>1, <4>1, EffectiveIs
      <4>3. QED BY <1>1, <4>1, <4>2
    <3>2. QED BY <3>1
  <2>2. Starting(S, c) = {}
    BY <1>2 DEF RuleWindows
  <2>3. D.recs \in SUBSET Rule /\ D.recs # {}
    BY <1>1, KindsIs
  <2>4. PICK v \in Windows(D) : v.start > c
    <3>1. \E v \in RuleWindows(D.recs) : v.start > c
      BY <1>1, <1>3, <2>3, FutureHasWindows
    <3>2. QED BY <2>3, <3>1, WindowsOfRecurring
  <2> HIDE DEF s, d, c
  <2>5. QED BY <1>1, <2>1, <2>2, <2>4, ExhaustedDiffer
<1>13. s.future # {} /\ sA = None /\ x.recs = s.future =>
         o \in Recurring /\ ApartWindows(Windows(o)) /\ Follows(o, S, t, c)
  <2> SUFFICES ASSUME s.future # {}, sA = None, x.recs = s.future
               PROVE  /\ o \in Recurring /\ ApartWindows(Windows(o))
                      /\ Follows(o, S, t, c)
    OBVIOUS
  <2>1. \A w \in Windows(S) : Within(w, t) => w.end - t < Minute
    BY <1>1, <1>9, EffectiveIs
  <2> HIDE DEF s
  <2>2. QED BY <1>1, <1>2, <2>1, CadenceFollows
<1>14. x.recs = S.recs =>
         o \in Recurring /\ ApartWindows(Windows(o)) /\ Follows(o, S, t, c)
  <2>1. x.recs = S.recs => o = S
    BY <1>1 DEF Downtime, Single, Recurring
  <2>2. QED BY <1>1, <2>1, CopyFollows
<1>15. d.active # None => LeftAlone(D, S, t, c)
  <2>1. D.recs # {}
    BY <1>1, KindsIs
  <2> HIDE DEF d
  <2>2. QED BY <1>3, <2>1 DEF LeftAlone, Mutes
<1>16. s.future = d.future => Starting(D, c) = Starting(S, c) /\ LeftAlone(D, S, t, c)
  BY <1>2, <1>3 DEF LeftAlone
<1>17. s.active = None => \A w \in Windows(S) : ~Within(w, t)
  BY <1>1, <1>9
<1> HIDE DEF s, d, c, o, sA, M, W, E
<1>18. x.action \in {"patch", "recreate"} =>
         o \in Recurring /\ ApartWindows(Windows(o)) /\ Follows(o, S, t, c)
  BY <1>4, <1>6, <1>7, <1>8, <1>13, <1>14
<1>19. x.action = "omit" => LeftAlone(D, S, t, c)
  BY <1>4, <1>5, <1>15, <1>16
<1>20. x.action \in {"recreate", "cancel"} => Differ(D, S, t)
  BY <1>4, <1>10, <1>11, <1>12
<1>21. x.action = "normalize" =>
         Starting(D, c) = Starting(S, c) /\ \A w \in Windows(S) : ~Within(w, t)
  BY <1>4, <1>5, <1>16, <1>17
<1>22. QED BY <1>4, <1>18, <1>19, <1>20, <1>21 DEF c, o

-----------------------------------------------------------------------------
(* Downtimes: the invariant.                                               *)

\* A schedule of the kind that the family has, whose windows are apart.
Whole(d, f) ==
  /\ d \in Downtime /\ (d \in Single <=> f \subseteq Single)
  /\ ApartWindows(Windows(d))

\* A pass that is past its hook, and works on what it imported.
Busy == \/ pc \in {"update", "create", "patch"}
        \/ pc = "delete" /\ job.action # "cleanup"

ReadOK ==
  snap # None => /\ snap.res \in family /\ snap.at <= now
                 /\ snap.current \in Current(snap.res, snap.at)

EntryOK ==
  mapped # None => /\ mapped.id <= spent.made /\ Whole(mapped.res, family)
                   /\ mapped.current \in Windows(mapped.res) \cup {None}
                   /\ ~doubt => live[mapped.id] = mapped.res

ObjectsOK ==
  \A i \in Ids : live[i] # None => i <= spent.made /\ Whole(live[i], family)

PlaceOK ==
  /\ pc = "hook" \/ Busy => snap # None
  /\ pc \in {"update", "patch", "delete"} => mapped # None

TimeOK ==
  /\ pc = "hook" => now <= snap.at + Lag
  /\ Busy => /\ snap.at <= job.planned /\ job.planned <= job.cut
             /\ job.planned <= now /\ now <= job.planned + Latency
             /\ job.planned <= snap.at + Lag + Latency
  /\ Busy /\ pc # "create" => job.planned <= snap.at + Lag
  /\ pc = "update" => job.cut <= now + Minute

\* What is created is the version that was imported, unless an earlier start or
\* end of a one-time downtime gave way.
KeptOK ==
  /\ Busy => /\ Whole(job.create, family)
             /\ job.kept => snap.res \in Single
             /\ ~job.kept => job.create = snap.res
             /\ mapped # None => (job.kept <=> Kept(snap.res, mapped.res) # snap.res)
  /\ pc = "create" /\ mapped = None => ~job.kept

Good(o) == /\ Whole(o, family)
           /\ ~job.kept => Follows(o, snap.res, job.planned, job.cut)

WriteOK ==
  /\ pc = "create" => Good(job.res)
  /\ pc = "update" =>
       /\ job.action \in {"omit", "normalize", "patch", "recreate", "cancel"}
       /\ job.action \in {"patch", "recreate"} => Good(job.res)
       /\ job.action = "normalize" =>
            /\ snap.res \in Recurring
            /\ job.res = [snap.res EXCEPT !.recs = mapped.res.recs]
            /\ Starting(mapped.res, job.cut) = Starting(snap.res, job.cut)
            /\ \A w \in Windows(snap.res) : ~Within(w, job.planned)
  /\ pc = "patch" => /\ job.action \in {"omit", "normalize", "patch"}
                     /\ job.action # "omit" => Good(job.res)
  /\ pc \in {"update", "patch"} /\ job.action = "omit" =>
       /\ job.res.note = snap.res.note
       /\ LeftAlone(mapped.res, snap.res, job.planned, job.cut)
  /\ pc = "delete" => job.action \in {"cleanup", "recreate", "cancel"}
  /\ pc \in {"update", "delete"} /\ job.action \in {"recreate", "cancel"} =>
       /\ snap.res \in Recurring
       /\ Differ(mapped.res, snap.res, job.planned)

\* As long as no answer to a create was lost, the objects are the one in the
\* entry, and there is none when one is to be created.
Kin ==
  ~lost => /\ \A i \in Ids : live[i] # None => mapped # None /\ mapped.id = i
           /\ pc = "create" => \A i \in Ids : live[i] = None

DowntimeInv ==
  /\ DowntimeTypeOK /\ ReadOK /\ EntryOK /\ ObjectsOK /\ PlaceOK /\ TimeOK
  /\ KeptOK /\ WriteOK /\ Kin

LEMMA FamilyWhole ==
  ASSUME NEW f \in Families, NEW d \in f
  PROVE  Whole(d, f)
<1>1. f \subseteq Single \/ f \subseteq Recurring
  BY DowntimeAssumption
<1>2. d \in Downtime /\ \A e \in Downtime : ~(e \in Single /\ e \in Recurring)
  BY <1>1, KindsIs DEF Downtime
<1>3. d \in Single <=> f \subseteq Single
  BY <1>1, <1>2 DEF Downtime
<1>4. QED BY <1>2, <1>3, FamilyApart DEF Whole

LEMMA WholeKind ==
  ASSUME NEW f, NEW d, Whole(d, f)
  PROVE  /\ d \in Downtime /\ ApartWindows(Windows(d)) /\ d # None
         /\ d.recs \in SUBSET Rule
         /\ f \subseteq Single => d \in Single /\ d.recs = {}
         /\ ~(f \subseteq Single) => d \in Recurring /\ d.recs # {}
BY KindsIs, DowntimeAssumption DEF Whole, Downtime

\* The end of a pass leaves no job behind.
LEMMA JobTypes == NoJob \in Job
BY DEF NoJob, Job

LEMMA DowntimeInitInv == DowntimeInit => DowntimeInv
<1> SUFFICES ASSUME DowntimeInit PROVE DowntimeInv
  OBVIOUS
<1>1. DowntimeTypeOK
  <2>1. spent \in [DOMAIN Limits -> Nat] /\ \A k \in DOMAIN Limits : spent[k] <= Limits[k]
    BY DowntimeAssumption DEF DowntimeInit
  <2>2. 0 \in 0..Horizon
    BY DowntimeAssumption
  <2>3. live \in [Ids -> Downtime \cup {None}]
    BY DEF DowntimeInit
  <2>4. QED BY <2>1, <2>2, <2>3, JobTypes DEF DowntimeInit, DowntimeTypeOK
<1>2. ReadOK /\ EntryOK /\ PlaceOK /\ TimeOK /\ KeptOK /\ WriteOK
  BY DEF DowntimeInit, ReadOK, EntryOK, PlaceOK, TimeOK, KeptOK, WriteOK, Busy
<1>3. ObjectsOK /\ Kin
  BY DEF DowntimeInit, ObjectsOK, Kin
<1>4. QED BY <1>1, <1>2, <1>3 DEF DowntimeInv

\* A step that ends a pass.
LEMMA EndPassIs ==
  ASSUME NEW r \in {"none", "same", "ok", "skipped", "failed"}, EndPass(r)
  PROVE  /\ ReadOK' /\ PlaceOK' /\ TimeOK' /\ KeptOK' /\ WriteOK'
         /\ snap' \in Snapshot \cup {None} /\ job' \in Job
         /\ pc' = "idle" /\ outcome' = r
BY JobTypes DEF EndPass, ReadOK, PlaceOK, TimeOK, KeptOK, WriteOK, Busy

\* What is read is recent enough at the hook, and whenever a write is prepared.
LEMMA RecentIs ==
  ASSUME DowntimeTypeOK, ReadOK, snap # None, NEW t \in 0..Horizon,
         snap.at <= t, t <= snap.at + Lag + Latency, snap.res \in Recurring
  PROVE  Recent(snap.res, snap.current, t)
<1>1. /\ snap \in Snapshot /\ snap.res \in Downtime /\ snap.at \in Nat
      /\ snap.current \in Current(snap.res, snap.at)
      /\ snap.res \in family /\ family \in Families
  BY DEF DowntimeTypeOK, ReadOK, Snapshot
<1>2. ApartWindows(Windows(snap.res))
  BY <1>1, FamilyApart
<1>3. snap.current \in Windows(snap.res) \cup {None}
  BY <1>1, CurrentIs
<1>4. t \in Nat /\ t <= snap.at + Lead
  BY <1>1, DowntimeAssumption DEF Lead
<1>5. \A w \in Windows(snap.res) : Within(w, t) => snap.current = w
  BY <1>1, <1>2, <1>4, CurrentLater
<1>6. QED BY <1>2, <1>3, <1>5 DEF Recent, Dated

\* Only the start and the end of a one-time downtime give way.
LEMMA KeptIs ==
  ASSUME NEW f, NEW S, NEW D, Whole(S, f), Whole(D, f)
  PROVE  /\ Whole(Kept(S, D), f) /\ Kept(S, D).recs = S.recs
         /\ Kept(S, D).note = S.note /\ S.note \in STRING
         /\ Kept(S, D) # S => S \in Single
<1>1. CASE S \in Recurring
  <2>1. S.start = None /\ S.end = None /\ S.note \in STRING
    BY <1>1 DEF Recurring
  <2>2. Kept(S, D) = S
    BY <1>1, <2>1 DEF Kept, Recurring
  <2>3. QED BY <2>1, <2>2
<1>2. CASE S \in Single
  <2>1. D \in Single
    BY <1>2 DEF Whole
  <2>2. /\ S.start \in Nat /\ S.end \in Time /\ S.recs = {} /\ S.note \in STRING
        /\ D.start \in Nat /\ D.end \in Time
    BY <1>2, <2>1 DEF Single
  <2>3. /\ Kept(S, D) \in Single /\ Kept(S, D).recs = S.recs
        /\ Kept(S, D).note = S.note
    BY <1>2, <2>2 DEF Kept, Single
  <2>4. Whole(Kept(S, D), f)
    BY <1>2, <2>3, SingleApart DEF Whole, Downtime
  <2>5. QED BY <1>2, <2>2, <2>3, <2>4
<1>3. QED BY <1>1, <1>2 DEF Whole, Downtime

-----------------------------------------------------------------------------
(* Downtimes: steps that leave the schedules alone.                        *)

LEMMA DowntimesAreSchedules == Downtime \subseteq Schedule
<1>1. ASSUME NEW d \in Single PROVE d \in Schedule
  BY DEF Single, Schedule, Time
<1>2. ASSUME NEW d \in Recurring PROVE d \in Schedule
  <2>1. d.recs \in SUBSET Rule
    BY KindsIs
  <2>2. QED BY <2>1 DEF Recurring, Schedule, Time
<1>3. QED BY <1>1, <1>2 DEF Downtime

LEMMA TickKeeps ==
  ASSUME DowntimeInv, Tick
  PROVE  DowntimeInv'
<1> USE DEF DowntimeInv
<1>1. /\ now \in Nat /\ Horizon \in Nat /\ now < Horizon /\ now' = now + 1
      /\ UNCHANGED <<family, version, snap, mapped, live, pc, job, outcome, doubt,
                     spent, lost>>
      /\ pc = "hook" => now < snap.at + Lag
      /\ pc \in {"update", "create", "patch", "delete"} => now < job.planned + Latency
  BY DowntimeAssumption DEF Tick, boundVars, DowntimeTypeOK
<1>2. DowntimeTypeOK'
  BY <1>1 DEF DowntimeTypeOK
<1>3. ReadOK'
  <2>1. snap # None => snap.at \in Nat
    BY DEF DowntimeTypeOK, Snapshot
  <2>2. QED BY <1>1, <2>1 DEF ReadOK
<1>4. EntryOK' /\ ObjectsOK' /\ PlaceOK' /\ KeptOK' /\ WriteOK' /\ Kin'
  BY <1>1 DEF EntryOK, ObjectsOK, PlaceOK, KeptOK, WriteOK, Kin, Busy, Good
<1>5. TimeOK'
  <2>1. /\ job.planned \in Nat /\ job.cut \in Nat
        /\ Latency \in Nat /\ Lag \in Nat /\ Minute \in Nat
    BY DowntimeAssumption DEF DowntimeTypeOK, Job
  <2>2. snap # None => snap.at \in Nat
    BY DEF DowntimeTypeOK, Snapshot
  <2>3. QED BY <1>1, <2>1, <2>2 DEF TimeOK, PlaceOK, Busy
<1>6. QED BY <1>2, <1>3, <1>4, <1>5

LEMMA OutsideDeleteKeeps ==
  ASSUME DowntimeInv, NEW i \in Ids, OutsideDelete(i)
  PROVE  DowntimeInv'
<1> USE DEF DowntimeInv
<1>1. /\ live' = [live EXCEPT ![i] = None] /\ doubt'
      /\ UNCHANGED <<now, family, version, snap, mapped, pc, job, outcome, lost>>
      /\ spent' = [spent EXCEPT !["faults"] = @ + 1]
      /\ spent["faults"] < Limits["faults"]
  BY DEF OutsideDelete, Spend
<1>2. /\ spent \in [DOMAIN Limits -> Nat] /\ live \in [Ids -> Downtime \cup {None}]
  BY DEF DowntimeTypeOK
<1>3. DowntimeTypeOK'
  <2>0. "faults" \in DOMAIN Limits /\ spent["faults"] + 1 \in Nat
    BY <1>2, DowntimeAssumption
  <2>1. spent' \in [DOMAIN Limits -> Nat]
    BY <1>1, <1>2, <2>0
  <2>2. \A k \in DOMAIN Limits : spent'[k] <= Limits[k]
    <3>1. Limits["faults"] \in Nat /\ spent["faults"] \in Nat
      BY <1>2, DowntimeAssumption
    <3>2. QED BY <1>1, <1>2, <3>1 DEF DowntimeTypeOK
  <2>3. live' \in [Ids -> Downtime \cup {None}] /\ doubt' \in BOOLEAN
    BY <1>1, <1>2 DEF OutsideDelete
  <2>4. QED BY <1>1, <2>1, <2>2, <2>3 DEF DowntimeTypeOK
<1>4. spent'.made = spent.made
  BY <1>1, <1>2
<1>5. ReadOK' /\ PlaceOK' /\ TimeOK' /\ KeptOK' /\ WriteOK'
  BY <1>1 DEF ReadOK, PlaceOK, TimeOK, KeptOK, WriteOK, Busy, Good
<1>6. \A j \in Ids : live'[j] # None => live[j] # None /\ live'[j] = live[j]
  BY <1>1, <1>2
<1>7. EntryOK' /\ ObjectsOK' /\ Kin'
  BY <1>1, <1>4, <1>6 DEF EntryOK, ObjectsOK, Kin
<1>8. QED BY <1>3, <1>5, <1>7

LEMMA ImportKeeps ==
  ASSUME DowntimeInv, Import
  PROVE  DowntimeInv'
<1> USE DEF DowntimeInv
<1>1. /\ pc = "idle" /\ version' \in Edited
      /\ spent.passes < Limits.passes
      /\ spent' = [spent EXCEPT !.passes = @ + 1,
                                !.edits = IF version' = version THEN @ ELSE @ + 1]
      /\ UNCHANGED <<now, family, mapped, live, doubt, lost>>
  BY DEF Import
<1>2. /\ spent \in [DOMAIN Limits -> Nat] /\ now \in 0..Horizon /\ now \in Nat
      /\ family \in Families /\ version \in family \cup {None} /\ None \notin family
      /\ family \subseteq Downtime
  BY DowntimeAssumption DEF DowntimeTypeOK, Downtime
<1>3. version' \in family \cup {None}
  BY <1>1, <1>2 DEF Edited
<1>4. /\ spent' \in [DOMAIN Limits -> Nat] /\ spent'.made = spent.made
      /\ \A k \in DOMAIN Limits : spent'[k] <= Limits[k]
  <2>1. version' # version => spent.edits < Limits.edits
    BY <1>1, <1>2 DEF Edited
  <2>2. /\ Limits.edits \in Nat /\ Limits.passes \in Nat
        /\ spent.edits \in Nat /\ spent.passes \in Nat
        /\ DOMAIN Limits = {"edits", "passes", "made", "faults"}
    BY <1>2, DowntimeAssumption
  <2> DEFINE p == spent.passes + 1
             e == IF version' = version THEN spent.edits ELSE spent.edits + 1
  <2>9. p \in Nat /\ e \in Nat /\ spent' = [spent EXCEPT !.passes = p, !.edits = e]
    BY <1>1, <1>2, <2>2
  <2>3. spent' \in [DOMAIN Limits -> Nat] /\ spent'.made = spent.made
    <3> HIDE DEF p, e
    <3>1. QED BY <1>2, <2>2, <2>9
  <2>4. \A k \in DOMAIN Limits : spent[k] <= Limits[k]
    BY DEF DowntimeTypeOK
  <2>5. spent'.passes <= Limits.passes /\ spent'.edits <= Limits.edits
    BY <1>1, <1>2, <2>1, <2>2, <2>4
  <2>6. spent'.faults = spent.faults
    BY <1>1, <1>2, <2>2
  <2>7. QED BY <2>2, <2>3, <2>4, <2>5, <2>6
<1>5. EntryOK' /\ ObjectsOK'
  BY <1>1, <1>4 DEF EntryOK, ObjectsOK
<1>6. CASE version' # None
  <2>1. PICK c \in Current(version', now) :
             snap' = [res |-> version', current |-> c, at |-> now]
    BY <1>6 DEF Import
  <2>2. pc' = "hook" /\ outcome' = "none" /\ job' = job
    BY <1>6 DEF Import
  <2>3. version' \in family /\ version' \in Downtime
    BY <1>2, <1>3, <1>6
  <2>4. c \in Span \cup {None}
    <3>1. c \in Windows(version') \cup {None} /\ Windows(version') \in SUBSET Span
      BY <1>2, <2>3, CurrentIs, WindowsIn
    <3>2. QED BY <3>1
  <2>5. snap' \in Snapshot
    BY <1>2, <2>1, <2>3, <2>4 DEF Snapshot
  <2>6. snap' # None
    BY <2>5, DowntimeAssumption
  <2>7. DowntimeTypeOK'
    BY <1>1, <1>2, <1>3, <1>4, <2>2, <2>5 DEF DowntimeTypeOK
  <2>8. ReadOK'
    BY <1>1, <1>2, <2>1, <2>3 DEF ReadOK
  <2>9. PlaceOK' /\ KeptOK' /\ WriteOK' /\ Kin'
    BY <1>1, <2>2, <2>6 DEF PlaceOK, KeptOK, WriteOK, Kin, Busy
  <2>10. TimeOK'
    BY <1>1, <1>2, <2>1, <2>2, DowntimeAssumption DEF TimeOK, Busy
  <2>11. QED BY <1>5, <2>7, <2>8, <2>9, <2>10
<1>7. CASE version' = None /\ mapped = None
  <2>1. EndPass("skipped")
    BY <1>7 DEF Import
  <2>2. /\ ReadOK' /\ PlaceOK' /\ TimeOK' /\ KeptOK' /\ WriteOK'
        /\ snap' \in Snapshot \cup {None} /\ job' \in Job
        /\ pc' = "idle" /\ outcome' = "skipped"
    BY <2>1, EndPassIs
  <2>3. DowntimeTypeOK'
    BY <1>1, <1>2, <1>3, <1>4, <2>2 DEF DowntimeTypeOK
  <2>4. Kin'
    BY <1>1, <2>2 DEF Kin
  <2>5. QED BY <1>5, <2>2, <2>3, <2>4
<1>8. CASE version' = None /\ mapped # None
  <2>1. /\ snap' = None /\ Prepare("cleanup", None, None, now, FALSE)
        /\ pc' = "delete" /\ outcome' = "none"
    BY <1>8 DEF Import
  <2>2. job'.action = "cleanup" /\ job' \in Job
    BY <1>2, <2>1 DEF Prepare, Job
  <2>3. DowntimeTypeOK'
    BY <1>1, <1>2, <1>3, <1>4, <2>1, <2>2 DEF DowntimeTypeOK
  <2>4. /\ ReadOK' /\ PlaceOK' /\ TimeOK' /\ KeptOK' /\ WriteOK' /\ Kin'
    BY <1>1, <1>8, <2>1, <2>2
       DEF ReadOK, PlaceOK, TimeOK, KeptOK, WriteOK, Kin, Busy
  <2>5. QED BY <1>5, <2>3, <2>4
<1>9. QED BY <1>6, <1>7, <1>8

LEMMA RefusedKeeps ==
  ASSUME DowntimeInv, Refused
  PROVE  DowntimeInv'
<1> USE DEF DowntimeInv
<1>1. /\ EndPass("failed") /\ mapped' = mapped
      /\ UNCHANGED <<now, family, version, live, doubt, spent, lost>>
  BY DEF Refused, Forgotten, boundVars
<1>2. /\ ReadOK' /\ PlaceOK' /\ TimeOK' /\ KeptOK' /\ WriteOK'
      /\ snap' \in Snapshot \cup {None} /\ job' \in Job
      /\ pc' = "idle" /\ outcome' = "failed"
  BY <1>1, EndPassIs
<1>3. DowntimeTypeOK'
  BY <1>1, <1>2 DEF DowntimeTypeOK
<1>4. EntryOK' /\ ObjectsOK' /\ Kin'
  BY <1>1, <1>2 DEF EntryOK, ObjectsOK, Kin
<1>5. QED BY <1>2, <1>3, <1>4

-----------------------------------------------------------------------------
(* Downtimes: the hooks.                                                   *)

\* What a state with an import tells.
LEMMA ReadIs ==
  ASSUME DowntimeInv, snap # None
  PROVE  /\ snap \in Snapshot /\ snap.res \in family /\ family \in Families
         /\ snap.at \in Nat /\ snap.at <= now /\ Whole(snap.res, family)
         /\ snap.res \in Downtime /\ now \in 0..Horizon /\ now \in Nat
         /\ Lag \in Nat /\ Latency \in Nat /\ Minute \in Nat /\ Minute > 0
BY FamilyWhole, DowntimeAssumption
   DEF DowntimeInv, DowntimeTypeOK, ReadOK, Snapshot, Whole

LEMMA HookCreateKeeps ==
  ASSUME DowntimeInv, HookCreate
  PROVE  DowntimeInv'
<1> USE DEF DowntimeInv
<1> DEFINE form == CreateForm(snap.res, snap.current, now)
<1>1. /\ pc = "hook" /\ mapped = None
      /\ UNCHANGED <<now, family, version, mapped, live, doubt, spent, lost>>
  BY DEF HookCreate, boundVars
<1>2. EntryOK' /\ ObjectsOK'
  BY <1>1 DEF EntryOK, ObjectsOK
<1>3. snap # None /\ now <= snap.at + Lag
  BY <1>1 DEF PlaceOK, TimeOK
<1>4. CASE form = {}
  <2>1. EndPass("skipped")
    BY <1>4 DEF HookCreate
  <2>2. /\ ReadOK' /\ PlaceOK' /\ TimeOK' /\ KeptOK' /\ WriteOK'
        /\ snap' \in Snapshot \cup {None} /\ job' \in Job
        /\ pc' = "idle" /\ outcome' = "skipped"
    BY <2>1, EndPassIs
  <2>3. DowntimeTypeOK'
    BY <1>1, <2>2 DEF DowntimeTypeOK
  <2>4. Kin'
    BY <1>1, <2>2 DEF Kin
  <2>5. QED BY <1>2, <2>2, <2>3, <2>4
<1>5. CASE form # {}
  <2>1. PICK o \in form : Prepare("create", o, snap.res, now + Minute, FALSE)
    BY <1>5 DEF HookCreate
  <2>2. pc' = "create" /\ UNCHANGED <<outcome, snap>>
    BY <1>5 DEF HookCreate
  <2> HIDE DEF form
  <2>3. /\ snap \in Snapshot /\ snap.res \in family /\ family \in Families
        /\ snap.at \in Nat /\ snap.at <= now /\ Whole(snap.res, family)
        /\ snap.res \in Downtime /\ now \in 0..Horizon /\ now \in Nat
        /\ Lag \in Nat /\ Latency \in Nat /\ Minute \in Nat
    BY <1>3, ReadIs
  <2>4. now <= snap.at + Lag + Latency
    BY <1>3, <2>3
  <2>5. snap.res \in Recurring => Recent(snap.res, snap.current, now)
    BY <1>3, <2>3, <2>4, RecentIs
  <2>6. /\ o \in Downtime /\ (o \in Single <=> snap.res \in Single)
        /\ ApartWindows(Windows(o)) /\ Follows(o, snap.res, now, now + Minute)
    BY <2>3, <2>5, CreateFollows DEF form
  <2>7. Whole(o, family)
    BY <2>3, <2>6 DEF Whole
  <2>8. /\ job'.action = "create" /\ job'.res = o /\ job'.create = snap.res
        /\ job'.planned = now /\ job'.cut = now + Minute /\ job'.kept = FALSE
    BY <2>1 DEF Prepare
  <2>9. job' \in Job
    <3>1. o \in Schedule /\ snap.res \in Schedule /\ now + Minute \in Nat
      BY <2>3, <2>6, DowntimesAreSchedules
    <3>2. QED BY <2>1, <2>3, <3>1 DEF Prepare, Job
  <2>10. DowntimeTypeOK'
    BY <1>1, <2>2, <2>9 DEF DowntimeTypeOK
  <2>11. ReadOK'
    BY <1>1, <2>2 DEF ReadOK
  <2>12. PlaceOK' /\ TimeOK'
    BY <1>1, <1>3, <2>2, <2>3, <2>4, <2>8 DEF PlaceOK, TimeOK, Busy
  <2>13. KeptOK'
    BY <1>1, <2>2, <2>3, <2>8 DEF KeptOK, Busy
  <2>14. WriteOK'
    BY <1>1, <2>2, <2>6, <2>7, <2>8 DEF WriteOK, Good
  <2>15. Kin'
    BY <1>1, <2>2 DEF Kin
  <2>16. QED BY <1>2, <2>10, <2>11, <2>12, <2>13, <2>14, <2>15
<1>6. QED BY <1>4, <1>5

\* What the hook of an update prepares.
Prepared(x, new, res) ==
  /\ x.action \in {"omit", "normalize", "patch", "recreate", "cancel"}
  /\ new \in Schedule /\ Whole(res, family)
  /\ res # snap.res => snap.res \in Single
  /\ x.action \in {"patch", "recreate"} =>
       /\ Whole(new, family)
       /\ res = snap.res => Follows(new, snap.res, now, now + Minute)
  /\ x.action # "patch" => /\ snap.res \in Recurring /\ res = snap.res
                           /\ new.note = snap.res.note
  /\ x.action \in {"omit", "normalize"} =>
       new = [snap.res EXCEPT !.recs = mapped.res.recs]
  /\ x.action = "omit" => LeftAlone(mapped.res, snap.res, now, now + Minute)
  /\ x.action = "normalize" =>
       /\ Starting(mapped.res, now + Minute) = Starting(snap.res, now + Minute)
       /\ \A w \in Windows(snap.res) : ~Within(w, now)
  /\ x.action \in {"recreate", "cancel"} => Differ(mapped.res, snap.res, now)

\* The locals of the hook.
HookRes == Kept(snap.res, mapped.res)
HookPlan == Plan(HookRes, snap.current, now)
HookTheirs == Plan(mapped.res, mapped.current, now)
HookDecision ==
  IF HookRes.recs = {} THEN Decide("patch", {})
  ELSE Decision(HookRes, HookPlan, HookTheirs, now, mapped.res.recs)
HookNew == [HookRes EXCEPT !.recs = HookDecision.recs]

LEMMA PreparedIs ==
  ASSUME DowntimeInv, pc = "hook", mapped # None
  PROVE  Prepared(HookDecision, HookNew, HookRes)
<1> DEFINE S == snap.res
           D == mapped.res
           x == HookDecision
<1>1. snap # None /\ now <= snap.at + Lag
  BY DEF DowntimeInv, PlaceOK, TimeOK
<1>2. /\ snap \in Snapshot /\ S \in family /\ family \in Families
      /\ snap.at \in Nat /\ snap.at <= now /\ Whole(S, family)
      /\ S \in Downtime /\ now \in 0..Horizon /\ now \in Nat
      /\ Lag \in Nat /\ Latency \in Nat /\ Minute \in Nat
  BY <1>1, ReadIs
<1>3. Whole(D, family) /\ mapped.current \in Windows(D) \cup {None}
  BY DEF DowntimeInv, EntryOK
<1>4. /\ Whole(HookRes, family) /\ HookRes.recs = S.recs /\ HookRes.note = S.note
      /\ HookRes # S => S \in Single
  BY <1>2, <1>3, KeptIs DEF HookRes
<1>5. CASE S \in Single
  <2>1. HookRes.recs = {} /\ HookRes \in Downtime
    BY <1>4, <1>5, KindsIs DEF Whole
  <2>2. x.action = "patch" /\ x.recs = {}
    BY <2>1 DEF HookDecision, Decide
  <2>3. HookNew = HookRes
    BY <2>1, <2>2 DEF HookNew, Downtime, Single, Recurring
  <2>4. HookRes \in Schedule
    BY <2>1, DowntimesAreSchedules
  <2>5. HookRes = S => Follows(HookNew, S, now, now + Minute)
    BY <2>3, CopyFollows
  <2>6. QED BY <1>4, <2>2, <2>3, <2>4, <2>5 DEF Prepared
<1>6. CASE S \in Recurring
  <2>1. /\ S.recs # {} /\ ~(S \in Single) /\ ~(family \subseteq Single)
        /\ HookRes = S
    BY <1>2, <1>4, <1>6, KindsIs DEF Whole
  <2>2. D \in Recurring /\ ApartWindows(Windows(D)) /\ D.recs \in SUBSET Rule
    BY <1>3, <2>1, WholeKind
  <2>3. now <= snap.at + Lag + Latency
    BY <1>1, <1>2
  <2>4. Recent(S, snap.current, now)
    BY <1>1, <1>2, <1>6, <2>3, RecentIs DEF DowntimeInv
  <2>5. Dated(D, mapped.current, now)
    BY <1>2, <1>3, <2>2 DEF Dated
  <2>6. x = Decision(S, Plan(S, snap.current, now), Plan(D, mapped.current, now),
                     now, D.recs)
    BY <2>1 DEF HookDecision, HookPlan, HookTheirs
  <2>7. HookNew = [S EXCEPT !.recs = x.recs]
    BY <2>1 DEF HookNew
  <2> HIDE DEF x, S, D
  <2>8. /\ x.action \in {"omit", "normalize", "patch", "recreate", "cancel"}
        /\ x.action \in {"patch", "recreate"} =>
             /\ HookNew \in Recurring /\ ApartWindows(Windows(HookNew))
             /\ Follows(HookNew, S, now, now + Minute)
        /\ x.action \in {"omit", "normalize"} => x.recs = D.recs
        /\ x.action = "omit" => LeftAlone(D, S, now, now + Minute)
        /\ x.action = "normalize" =>
             /\ Starting(D, now + Minute) = Starting(S, now + Minute)
             /\ \A w \in Windows(S) : ~Within(w, now)
        /\ x.action = "cancel" => x.recs = {}
        /\ x.action \in {"recreate", "cancel"} => Differ(D, S, now)
    BY <2>4, <2>5, <2>6, <2>7, DecisionIs
  <2>9. /\ HookNew.note = S.note
        /\ x.recs \in SUBSET Rule => HookNew \in Schedule
    BY <1>2, <2>7, WithRecs
  <2>10. x.action \in {"patch", "recreate"} => Whole(HookNew, family)
    BY <2>1, <2>8, KindsIs DEF Whole, Downtime
  <2>11. HookNew \in Schedule
    <3>1. CASE x.action \in {"patch", "recreate"}
      BY <2>8, <3>1, DowntimesAreSchedules DEF Downtime
    <3>2. CASE ~(x.action \in {"patch", "recreate"})
      <4>1. x.recs = D.recs \/ x.recs = {}
        BY <2>8, <3>2
      <4>2. x.recs \in SUBSET Rule
        BY <2>2, <4>1
      <4>3. QED BY <2>9, <4>2
    <3>3. QED BY <3>1, <3>2
  <2>12. x.action \in {"omit", "normalize"} => HookNew = [S EXCEPT !.recs = D.recs]
    BY <2>7, <2>8
  <2>13. Prepared(x, HookNew, HookRes)
    BY <1>4, <1>6, <2>1, <2>8, <2>9, <2>10, <2>11, <2>12 DEF Prepared, S, D
  <2>14. QED BY <2>13 DEF x
<1>7. QED BY <1>2, <1>5, <1>6 DEF Downtime

\* The hook of an update, with its locals named.
LEMMA HookUpdateIs ==
  ASSUME HookUpdate
  PROVE  /\ pc = "hook" /\ mapped # None
         /\ UNCHANGED <<now, family, version, mapped, live, doubt, spent, lost>>
         /\ \/ EndPass("skipped")
            \/ ~Differs(HookDecision.action, HookNew) /\ EndPass("same")
            \/ /\ Prepare(HookDecision.action, HookNew, HookRes, now + Minute,
                          HookRes # snap.res)
               /\ pc' = "update" /\ UNCHANGED <<outcome, snap>>
BY Zenon DEF HookUpdate, boundVars, HookDecision, HookNew, HookRes, HookPlan, HookTheirs

LEMMA HookUpdateKeeps ==
  ASSUME DowntimeInv, HookUpdate
  PROVE  DowntimeInv'
<1> USE DEF DowntimeInv
<1>1. /\ pc = "hook" /\ mapped # None
      /\ UNCHANGED <<now, family, version, mapped, live, doubt, spent, lost>>
  BY HookUpdateIs
<1>2. EntryOK' /\ ObjectsOK'
  BY <1>1 DEF EntryOK, ObjectsOK
<1>3. snap # None /\ now <= snap.at + Lag
  BY <1>1 DEF PlaceOK, TimeOK
<1>4. CASE EndPass("skipped") \/ EndPass("same")
  <2>1. PICK r \in {"skipped", "same"} : EndPass(r)
    BY <1>4
  <2>2. /\ ReadOK' /\ PlaceOK' /\ TimeOK' /\ KeptOK' /\ WriteOK'
        /\ snap' \in Snapshot \cup {None} /\ job' \in Job
        /\ pc' = "idle" /\ outcome' = r
    BY <2>1, EndPassIs
  <2>3. DowntimeTypeOK'
    BY <1>1, <2>1, <2>2 DEF DowntimeTypeOK
  <2>4. Kin'
    BY <1>1, <2>2 DEF Kin
  <2>5. QED BY <1>2, <2>2, <2>3, <2>4
<1>5. CASE /\ Prepare(HookDecision.action, HookNew, HookRes, now + Minute,
                      HookRes # snap.res)
           /\ pc' = "update" /\ UNCHANGED <<outcome, snap>>
  <2>1. Prepared(HookDecision, HookNew, HookRes)
    BY <1>1, PreparedIs
  <2>2. /\ snap \in Snapshot /\ snap.res \in family
        /\ snap.at \in Nat /\ snap.at <= now /\ now \in Nat
        /\ Lag \in Nat /\ Latency \in Nat /\ Minute \in Nat
    BY <1>3, ReadIs
  <2> DEFINE a == HookDecision.action
             kept == HookRes # snap.res
  <2>3. kept \in BOOLEAN
    OBVIOUS
  <2>4. /\ job'.action = a /\ job'.res = HookNew /\ job'.create = HookRes
        /\ job'.planned = now /\ job'.cut = now + Minute /\ job'.kept = kept
    BY <1>5 DEF Prepare
  <2>5. a \in {"omit", "normalize", "patch", "recreate", "cancel"}
    BY <2>1 DEF Prepared
  <2>6. HookRes \in Schedule /\ HookNew \in Schedule /\ now + Minute \in Nat
    BY <2>1, <2>2, DowntimesAreSchedules DEF Prepared, Whole
  <2>7. job' \in Job
    <3> HIDE DEF kept, a
    <3>1. job' = [action |-> a, res |-> HookNew, create |-> HookRes,
                  planned |-> now, cut |-> now + Minute, kept |-> kept]
      BY <1>5 DEF Prepare, kept, a
    <3>2. QED BY <2>2, <2>3, <2>5, <2>6, <3>1 DEF Job
  <2>8. DowntimeTypeOK'
    BY <1>1, <1>5, <2>7 DEF DowntimeTypeOK
  <2>9. ReadOK'
    BY <1>1, <1>5 DEF ReadOK
  <2>10. PlaceOK' /\ TimeOK'
    BY <1>1, <1>3, <1>5, <2>2, <2>4 DEF PlaceOK, TimeOK, Busy
  <2>11. job'.kept <=> HookRes # snap.res
    BY <2>4
  <2>12. KeptOK'
    <3>1. Whole(HookRes, family) /\ (HookRes # snap.res => snap.res \in Single)
      BY <2>1 DEF Prepared
    <3>2. QED BY <1>1, <1>5, <2>4, <2>11, <3>1 DEF KeptOK, Busy, HookRes
  <2>13. WriteOK'
    <3>1. a \in {"patch", "recreate"} => Good(job.res)'
      <4>1. ~job'.kept => HookRes = snap.res
        BY <2>11
      <4>2. a \in {"patch", "recreate"} =>
              /\ Whole(HookNew, family)
              /\ HookRes = snap.res => Follows(HookNew, snap.res, now, now + Minute)
        BY <2>1 DEF Prepared
      <4>3. QED BY <1>1, <1>5, <2>4, <4>1, <4>2 DEF Good
    <3>2. a = "normalize" =>
            /\ snap'.res \in Recurring
            /\ job'.res = [snap'.res EXCEPT !.recs = mapped'.res.recs]
            /\ Starting(mapped'.res, job'.cut) = Starting(snap'.res, job'.cut)
            /\ \A w \in Windows(snap'.res) : ~Within(w, job'.planned)
      BY <1>1, <1>5, <2>1, <2>4 DEF Prepared
    <3>3. a = "omit" =>
            /\ job'.res.note = snap'.res.note
            /\ LeftAlone(mapped'.res, snap'.res, job'.planned, job'.cut)
      BY <1>1, <1>5, <2>1, <2>4 DEF Prepared
    <3>4. a \in {"recreate", "cancel"} =>
            /\ snap'.res \in Recurring
            /\ Differ(mapped'.res, snap'.res, job'.planned)
      BY <1>1, <1>5, <2>1, <2>4 DEF Prepared
    <3> HIDE DEF a
    <3>5. job'.action = a /\ pc' = "update"
      BY <1>5, <2>4
    <3>6. QED BY <2>5, <3>1, <3>2, <3>3, <3>4, <3>5 DEF WriteOK
  <2>14. Kin'
    BY <1>1, <1>5 DEF Kin
  <2>15. QED BY <1>2, <2>8, <2>9, <2>10, <2>12, <2>13, <2>14
<1>6. QED BY <1>4, <1>5, HookUpdateIs

\* The job that StartUpdate leaves.
LEMMA StartUpdateIs ==
  ASSUME DowntimeInv, StartUpdate
  PROVE  /\ pc = "update" /\ job \in Job
         /\ pc' = IF job.action \in {"cancel", "recreate"} THEN "delete" ELSE "patch"
         /\ UNCHANGED <<now, family, version, snap, mapped, live, outcome, doubt,
                        spent, lost>>
         /\ job'.planned = job.planned /\ job'.create = job.create
         /\ job'.kept = job.kept
         /\ job.action # "normalize" => job' = job
         /\ job.action = "normalize" =>
              /\ job'.cut = now + Minute
              /\ job'.res = [job.res EXCEPT !.recs = Future(job.res, now + Minute)]
              /\ job'.action = IF Future(job.res, now + Minute) = {} THEN "omit"
                               ELSE "normalize"
<1>1. job \in Job
  BY DEF DowntimeInv, DowntimeTypeOK
<1> DEFINE f == Future(job.res, now + Minute)
           r == [job.res EXCEPT !.recs = f]
           a == IF f = {} THEN "omit" ELSE job.action
           k == now + Minute
<1>2. job.action = "normalize" => job' = [job EXCEPT !.cut = k, !.res = r, !.action = a]
  BY DEF StartUpdate
<1> HIDE DEF r, a, k
<1>3. job.action = "normalize" =>
        /\ job'.planned = job.planned /\ job'.create = job.create
        /\ job'.kept = job.kept
        /\ job'.cut = k /\ job'.res = r /\ job'.action = a
  BY <1>1, <1>2 DEF Job
<1>4. QED BY <1>1, <1>3 DEF StartUpdate, boundVars, r, a, k

LEMMA WithinNone ==
  ASSUME NEW S, NEW p, \A w \in Windows(S) : ~Within(w, p)
  PROVE  \A w \in Windows(S) : Within(w, p) => w.end - p < Minute
OBVIOUS

\* A cadence that was the same after one cutoff is so after a later one.
LEMMA StartingLater ==
  ASSUME NEW S \in Downtime, NEW D \in Downtime, NEW c \in Nat, NEW e \in Nat, c <= e,
         Starting(D, c) = Starting(S, c)
  PROVE  Starting(D, e) = Starting(S, e)
<1>1. ASSUME NEW d \in Downtime
      PROVE  Starting(d, e) = {w \in Starting(d, c) : w.start > e}
  <2>1. \A w \in Windows(d) : w.start \in Nat
    BY WindowsIn DEF Span
  <2>2. QED BY <2>1 DEF Starting
<1>2. QED BY <1>1

\* The recurrences that a normalization sends, and the schedule with them.
LEMMA NormalizedIs ==
  ASSUME DowntimeInv, pc = "update", job.action = "normalize",
         NEW k, k = now + Minute, NEW f, f = Future(job.res, k),
         NEW o, o = [job.res EXCEPT !.recs = f]
  PROVE  /\ snap.res \in Recurring /\ ~job.kept /\ snap # None /\ mapped # None
         /\ k \in Nat /\ job.cut <= k /\ job.planned <= k
         /\ job.planned \in Nat /\ job.cut \in Nat
         /\ f \in SUBSET Rule /\ o \in Schedule /\ o.note = snap.res.note
         /\ Starting(mapped.res, k) = Starting(snap.res, k)
         /\ f # {} => Whole(o, family) /\ Follows(o, snap.res, job.planned, k)
<1> DEFINE S == snap.res
           D == mapped.res
<1> USE DEF DowntimeInv
<1>1. /\ S \in Recurring /\ job.res = [S EXCEPT !.recs = D.recs]
      /\ Starting(D, job.cut) = Starting(S, job.cut)
      /\ \A w \in Windows(S) : ~Within(w, job.planned)
  BY DEF WriteOK
<1>2. snap # None /\ mapped # None /\ Busy
  BY DEF PlaceOK, Busy
<1>3. /\ S \in family /\ family \in Families /\ Whole(S, family) /\ S \in Downtime
      /\ now \in Nat /\ Minute \in Nat
  BY <1>2, ReadIs
<1>4. /\ job \in Job /\ job.planned \in Nat /\ job.cut \in Nat
      /\ job.planned <= now
  BY <1>2 DEF DowntimeTypeOK, Job, TimeOK
<1>5. ~(S \in Single)
  BY <1>1, KindsIs
<1>6. ~job.kept
  BY <1>2, <1>5 DEF KeptOK
<1>7. Whole(D, family) /\ D \in Recurring /\ D \in Downtime /\ D.recs \in SUBSET Rule
      /\ D.recs # {}
  <2>1. Whole(D, family)
    BY <1>2 DEF EntryOK
  <2>2. ~(family \subseteq Single)
    BY <1>3, <1>5 DEF Whole
  <2>3. QED BY <2>1, <2>2, WholeKind
<1>8. job.cut <= k /\ job.planned <= k /\ k \in Nat
  <2>1. job.cut <= now + Minute
    BY <1>2 DEF TimeOK
  <2>2. QED BY <1>3, <1>4, <2>1
<1>9. Starting(D, k) = Starting(S, k)
  BY <1>1, <1>3, <1>4, <1>7, <1>8, StartingLater
<1>10. job.res.recs = D.recs /\ job.res.note = S.note
  BY <1>1, <1>3, WithRecs
<1>11. f \in SUBSET Rule /\ RuleWindows(f) = Starting(S, k)
  <2>1. job.res.recs \in SUBSET Rule
    BY <1>7, <1>10
  <2>2. /\ f \in SUBSET Rule
        /\ RuleWindows(f) = {w \in RuleWindows(job.res.recs) : w.start > k}
    BY <1>8, <2>1, FutureIs
  <2>3. RuleWindows(job.res.recs) = Windows(D)
    BY <1>7, <1>10, WindowsOfRecurring
  <2>4. QED BY <1>9, <2>2, <2>3 DEF Starting
<1>12. o = [S EXCEPT !.recs = f]
  BY <1>1, <1>3 DEF Downtime, Single, Recurring
<1>13. o \in Schedule /\ o.note = S.note
  <2> HIDE DEF S, D
  <2> DEFINE n == [S EXCEPT !.recs = f]
  <2>1. n.note = S.note /\ n \in Schedule
    BY <1>3, <1>11, WithRecs
  <2>2. QED BY <1>12, <2>1
<1>14. ASSUME f # {} PROVE Whole(o, family) /\ Follows(o, S, job.planned, k)
  <2>1. ApartWindows(Windows(S))
    BY <1>3 DEF Whole
  <2>2. \A w \in Windows(S) : Within(w, job.planned) => w.end - job.planned < Minute
    BY <1>1
  <2> HIDE DEF S
  <2> DEFINE n == [S EXCEPT !.recs = f]
  <2>6. /\ n \in Recurring /\ ApartWindows(Windows(n))
        /\ Follows(n, S, job.planned, k)
    BY <1>1, <1>4, <1>8, <1>11, <1>14, <2>1, <2>2, CadenceFollows
  <2>3. /\ o \in Recurring /\ ApartWindows(Windows(o))
        /\ Follows(o, S, job.planned, k)
    BY <1>12, <2>6
  <2>4. ~(family \subseteq Single)
    BY <1>3, <1>5 DEF Whole
  <2>5. QED BY <2>3, <2>4, KindsIs DEF Whole, Downtime
<1>15. QED BY <1>1, <1>2, <1>4, <1>6, <1>8, <1>9, <1>11, <1>13, <1>14

-----------------------------------------------------------------------------
(* Downtimes: requests.                                                    *)

LEMMA StartUpdateKeeps ==
  ASSUME DowntimeInv, StartUpdate
  PROVE  DowntimeInv'
<1> USE DEF DowntimeInv
<1>1. /\ pc = "update" /\ job \in Job
      /\ pc' = IF job.action \in {"cancel", "recreate"} THEN "delete" ELSE "patch"
      /\ UNCHANGED <<now, family, version, snap, mapped, live, outcome, doubt,
                     spent, lost>>
      /\ job'.planned = job.planned /\ job'.create = job.create
      /\ job'.kept = job.kept
  BY StartUpdateIs
<1>2. EntryOK' /\ ObjectsOK' /\ ReadOK'
  BY <1>1 DEF EntryOK, ObjectsOK, ReadOK
<1>3. Busy /\ Busy' /\ pc' # "create" /\ pc' # "update" /\ pc' # "hook"
  <2>1. pc' = "delete" => job'.action # "cleanup"
    <3>1. ASSUME pc' = "delete" PROVE job'.action = job.action
      BY <1>1, <3>1, StartUpdateIs
    <3>2. QED BY <1>1, <3>1
  <2>2. pc' \in {"patch", "delete"}
    BY <1>1
  <2>3. QED BY <1>1, <2>1, <2>2 DEF Busy
<1>4. PlaceOK'
  BY <1>1, <1>3 DEF PlaceOK
<1>5. KeptOK'
  BY <1>1, <1>3 DEF KeptOK
<1>6. Kin'
  BY <1>1, <1>3 DEF Kin
<1>7. CASE job.action # "normalize"
  <2>1. job' = job
    BY <1>7, StartUpdateIs
  <2>2. TimeOK'
    BY <1>1, <1>3, <2>1 DEF TimeOK
  <2>3. WriteOK'
    BY <1>1, <1>7, <2>1 DEF WriteOK, Good
  <2>4. DowntimeTypeOK'
    BY <1>1, <2>1 DEF DowntimeTypeOK
  <2>5. QED BY <1>2, <1>4, <1>5, <1>6, <2>2, <2>3, <2>4
<1>8. CASE job.action = "normalize"
  <2> DEFINE k == now + Minute
             f == Future(job.res, k)
             o == [job.res EXCEPT !.recs = f]
  <2>1. /\ job'.cut = k /\ job'.res = o
        /\ job'.action = IF f = {} THEN "omit" ELSE "normalize"
    BY <1>8, StartUpdateIs
  <2>2. /\ snap.res \in Recurring /\ ~job.kept /\ snap # None /\ mapped # None
        /\ k \in Nat /\ job.cut <= k /\ job.planned <= k
        /\ job.planned \in Nat /\ job.cut \in Nat
        /\ f \in SUBSET Rule /\ o \in Schedule /\ o.note = snap.res.note
        /\ Starting(mapped.res, k) = Starting(snap.res, k)
        /\ f # {} => Whole(o, family) /\ Follows(o, snap.res, job.planned, k)
    BY <1>1, <1>8, NormalizedIs
  <2> HIDE DEF k, f, o
  <2>3. pc' = "patch"
    BY <1>1, <1>8
  <2>4. TimeOK'
    BY <1>1, <1>3, <2>1, <2>2 DEF TimeOK
  <2>5. WriteOK'
    <3>1. f # {} => Good(job.res)'
      BY <1>1, <2>1, <2>2 DEF Good
    <3>2. /\ job'.res.note = snap'.res.note
          /\ LeftAlone(mapped'.res, snap'.res, job'.planned, job'.cut)
      BY <1>1, <2>1, <2>2 DEF LeftAlone
    <3>3. job'.action \in {"omit", "normalize"} /\ (job'.action # "omit" => f # {})
      BY <2>1
    <3>4. QED BY <2>3, <3>1, <3>2, <3>3 DEF WriteOK
  <2>6. job' \in Job
    <3> DEFINE a == IF f = {} THEN "omit" ELSE job.action
    <3>1. job' = [job EXCEPT !.cut = k, !.res = o, !.action = a]
      BY <1>8 DEF StartUpdate, k, o, f
    <3>2. a \in {"omit", "normalize"}
      BY <1>8
    <3> HIDE DEF a
    <3>3. QED BY <1>1, <2>2, <3>1, <3>2 DEF Job
  <2>7. DowntimeTypeOK'
    BY <1>1, <2>3, <2>6 DEF DowntimeTypeOK
  <2>8. QED BY <1>2, <1>4, <1>5, <1>6, <2>4, <2>5, <2>7
<1>9. QED BY <1>7, <1>8

\* What an entry records of an object.
LEMMA EntryIs ==
  ASSUME NEW i \in Nat, NEW r \in Downtime, now \in Nat, Entry(i, r)
  PROVE  /\ mapped' \in Copy /\ mapped' # None
         /\ mapped'.id = i /\ mapped'.res = r
         /\ mapped'.current \in Windows(r) \cup {None}
<1>1. PICK c \in Current(r, now) : mapped' = [id |-> i, res |-> r, current |-> c]
  BY DEF Entry
<1>2. c \in Windows(r) \cup {None} /\ Windows(r) \in SUBSET Span
  BY CurrentIs, WindowsIn
<1>3. mapped' \in Copy
  BY <1>1, <1>2 DEF Copy
<1>4. QED BY <1>1, <1>2, <1>3, DowntimeAssumption

LEMMA MadeIs ==
  ASSUME DowntimeTypeOK
  PROVE  /\ spent \in [DOMAIN Limits -> Nat] /\ spent.made \in Nat
         /\ spent.faults \in Nat /\ Limits.made \in Nat /\ Limits.faults \in Nat
         /\ DOMAIN Limits = {"edits", "passes", "made", "faults"}
         /\ Ids = 1..Limits.made /\ now \in Nat
         /\ \A k \in DOMAIN Limits : spent[k] <= Limits[k]
BY DowntimeAssumption DEF DowntimeTypeOK, Ids

LEMMA PostCreatedKeeps ==
  ASSUME DowntimeInv, PostCreated
  PROVE  DowntimeInv'
<1> USE DEF DowntimeInv
<1> DEFINE i == spent.made + 1
<1>1. /\ pc = "create" /\ spent.made < Limits.made
      /\ live' = [live EXCEPT ![i] = job.res]
      /\ UNCHANGED <<now, family, version>>
      /\ \/ /\ Entry(i, job.res) /\ doubt' = FALSE /\ EndPass("ok")
            /\ spent' = [spent EXCEPT !.made = i] /\ UNCHANGED lost
         \/ /\ spent.faults < Limits.faults
            /\ spent' = [spent EXCEPT !.made = i, !.faults = @ + 1]
            /\ lost' = TRUE /\ EndPass("failed") /\ UNCHANGED <<mapped, doubt>>
  BY DEF PostCreated
<1>2. /\ spent \in [DOMAIN Limits -> Nat] /\ spent.made \in Nat
      /\ spent.faults \in Nat /\ Limits.made \in Nat /\ Limits.faults \in Nat
      /\ DOMAIN Limits = {"edits", "passes", "made", "faults"}
      /\ Ids = 1..Limits.made /\ now \in Nat
      /\ \A k \in DOMAIN Limits : spent[k] <= Limits[k]
  BY MadeIs
<1>3. i \in Ids /\ i \in Nat /\ spent.made < i /\ i <= Limits.made
  BY <1>1, <1>2
<1> HIDE DEF i
<1>4. Whole(job.res, family) /\ job.res \in Downtime /\ job.res # None
  BY <1>1, WholeKind DEF WriteOK, Good
<1>5. live \in [Ids -> Downtime \cup {None}]
  BY DEF DowntimeTypeOK
<1>6. live' \in [Ids -> Downtime \cup {None}]
  BY <1>1, <1>4, <1>5
<1>7. live'[i] = job.res /\ \A j \in Ids : j # i => live'[j] = live[j]
  BY <1>1, <1>3, <1>5
<1>8. \E r \in {"ok", "failed"} :
        /\ ReadOK' /\ PlaceOK' /\ TimeOK' /\ KeptOK' /\ WriteOK'
        /\ snap' \in Snapshot \cup {None} /\ job' \in Job
        /\ pc' = "idle" /\ outcome' = r
  BY <1>1, EndPassIs
<1>9. /\ spent' \in [DOMAIN Limits -> Nat] /\ spent'.made = i
      /\ \A k \in DOMAIN Limits : spent'[k] <= Limits[k]
  <2>1. CASE spent' = [spent EXCEPT !.made = i]
    BY <1>2, <1>3, <2>1
  <2>2. CASE /\ spent.faults < Limits.faults
             /\ spent' = [spent EXCEPT !.made = i, !.faults = @ + 1]
    <3> DEFINE e == spent.faults + 1
    <3>1. e \in Nat /\ e <= Limits.faults
      BY <1>2, <2>2
    <3>2. spent' = [spent EXCEPT !.made = i, !.faults = e]
      BY <1>2, <2>2
    <3> HIDE DEF e
    <3>3. spent' \in [DOMAIN Limits -> Nat] /\ spent'.made = i /\ spent'.faults = e
      BY <1>2, <1>3, <3>1, <3>2
    <3>4. \A k \in DOMAIN Limits : k \notin {"made", "faults"} => spent'[k] = spent[k]
      BY <1>2, <3>2
    <3>5. QED BY <1>2, <1>3, <3>1, <3>3, <3>4
  <2>3. QED BY <1>1, <2>1, <2>2
<1>10. ObjectsOK'
  <2>1. ASSUME NEW j \in Ids, live'[j] # None
        PROVE  j <= i /\ Whole(live'[j], family)
    <3>1. CASE j = i
      BY <1>3, <1>4, <1>7, <3>1
    <3>2. CASE j # i
      <4>1. live[j] # None /\ live'[j] = live[j]
        BY <1>7, <2>1, <3>2
      <4>2. j <= spent.made /\ Whole(live[j], family)
        BY <4>1 DEF ObjectsOK
      <4>3. QED BY <1>2, <1>3, <4>1, <4>2
    <3>3. QED BY <3>1, <3>2
  <2>2. QED BY <1>1, <1>9, <2>1 DEF ObjectsOK
<1>11. CASE Entry(i, job.res) /\ doubt' = FALSE /\ lost' = lost
  <2>1. /\ mapped' \in Copy /\ mapped' # None
        /\ mapped'.id = i /\ mapped'.res = job.res
        /\ mapped'.current \in Windows(job.res) \cup {None}
    BY <1>2, <1>3, <1>4, <1>11, EntryIs
  <2>2. EntryOK'
    BY <1>1, <1>3, <1>4, <1>7, <1>9, <2>1 DEF EntryOK
  <2>3. DowntimeTypeOK'
    BY <1>1, <1>3, <1>6, <1>8, <1>9, <1>11, <2>1 DEF DowntimeTypeOK
  <2>4. Kin'
    <3>1. ~lost => \A j \in Ids : live[j] = None
      BY <1>1 DEF Kin
    <3>2. QED BY <1>7, <1>8, <1>11, <2>1, <3>1 DEF Kin
  <2>5. QED BY <1>8, <1>10, <2>2, <2>3, <2>4
<1>12. CASE lost' = TRUE /\ UNCHANGED <<mapped, doubt>>
  <2>1. EntryOK'
    <3> SUFFICES ASSUME mapped # None
                 PROVE  /\ mapped'.id <= i /\ Whole(mapped'.res, family)
                        /\ mapped'.current \in Windows(mapped'.res) \cup {None}
                        /\ ~doubt' => live'[mapped'.id] = mapped'.res
      BY <1>1, <1>9, <1>12 DEF EntryOK
    <3>1. /\ mapped.id <= spent.made /\ Whole(mapped.res, family)
          /\ mapped.current \in Windows(mapped.res) \cup {None}
          /\ ~doubt => live[mapped.id] = mapped.res
      BY DEF EntryOK
    <3>2. mapped.id \in Ids /\ mapped.id \in Nat
      BY <1>2 DEF DowntimeTypeOK
    <3>3. mapped.id # i /\ mapped.id <= i
      BY <1>2, <1>3, <3>1, <3>2
    <3>4. QED BY <1>7, <1>12, <3>1, <3>2, <3>3
  <2>2. DowntimeTypeOK'
    BY <1>1, <1>6, <1>8, <1>9, <1>12 DEF DowntimeTypeOK
  <2>3. Kin'
    BY <1>12 DEF Kin
  <2>4. QED BY <1>8, <1>10, <2>1, <2>2, <2>3
<1>13. QED BY <1>1, <1>11, <1>12

LEMMA PostDuplicateKeeps ==
  ASSUME DowntimeInv, PostDuplicate
  PROVE  DowntimeInv'
<1> USE DEF DowntimeInv
<1>1. /\ pc = "create" /\ doubt' = FALSE /\ EndPass("ok")
      /\ UNCHANGED <<now, family, version, live, spent, lost>>
  BY DEF PostDuplicate, boundVars
<1>2. PICK i \in Ids : Duplicates(job.res) = {i} /\ Entry(i, job.res)
  BY DEF PostDuplicate
<1>3. live[i] = job.res
  BY <1>2 DEF Duplicates
<1>4. Whole(job.res, family) /\ job.res \in Downtime /\ job.res # None
  BY <1>1, WholeKind DEF WriteOK, Good
<1>5. i \in Nat /\ now \in Nat
  BY MadeIs
<1>6. /\ mapped' \in Copy /\ mapped' # None
      /\ mapped'.id = i /\ mapped'.res = job.res
      /\ mapped'.current \in Windows(job.res) \cup {None}
  BY <1>2, <1>4, <1>5, EntryIs
<1>7. /\ ReadOK' /\ PlaceOK' /\ TimeOK' /\ KeptOK' /\ WriteOK'
      /\ snap' \in Snapshot \cup {None} /\ job' \in Job
      /\ pc' = "idle" /\ outcome' = "ok"
  BY <1>1, EndPassIs
<1>8. EntryOK'
  <2>1. i <= spent.made
    BY <1>3, <1>4 DEF ObjectsOK
  <2>2. QED BY <1>1, <1>3, <1>4, <1>6, <2>1 DEF EntryOK
<1>9. ObjectsOK'
  BY <1>1 DEF ObjectsOK
<1>10. DowntimeTypeOK'
  BY <1>1, <1>2, <1>6, <1>7 DEF DowntimeTypeOK
<1>11. Kin'
  BY <1>1, <1>3, <1>4, <1>7 DEF Kin
<1>12. QED BY <1>7, <1>8, <1>9, <1>10, <1>11

\* A PATCH without a schedule leaves the windows alone.
LEMMA PatchedIs ==
  ASSUME DowntimeInv, pc = "patch", mapped # None, live[mapped.id] # None
  PROVE  /\ Whole(Patched(live[mapped.id]), family)
         /\ Patched(live[mapped.id]).note = job.res.note
         /\ job.action # "omit" => Patched(live[mapped.id]) = job.res
         /\ job.action = "omit" =>
              /\ Windows(Patched(live[mapped.id])) = Windows(live[mapped.id])
              /\ Patched(live[mapped.id]).recs = live[mapped.id].recs
<1> DEFINE old == live[mapped.id]
           new == Patched(old)
<1> USE DEF DowntimeInv
<1>1. Whole(old, family) /\ old \in Downtime
  <2>1. mapped.id \in Ids
    BY DEF DowntimeTypeOK
  <2>2. QED BY <2>1, WholeKind DEF ObjectsOK
<1> HIDE DEF old
<1>2. CASE job.action # "omit"
  <2>1. new = job.res
    BY <1>2 DEF Patched
  <2>2. Whole(job.res, family)
    BY <1>2 DEF WriteOK, Good
  <2>3. QED BY <1>2, <2>1, <2>2 DEF old
<1>3. CASE job.action = "omit"
  <2>1. new = [old EXCEPT !.note = job.res.note]
    BY <1>3 DEF Patched
  <2>2. job.res.note \in STRING
    <3>1. job.res.note = snap.res.note
      BY <1>3 DEF WriteOK
    <3>2. snap # None
      BY DEF PlaceOK, Busy
    <3>3. snap.res \in Downtime
      BY <3>2, ReadIs
    <3>4. QED BY <3>1, <3>3 DEF Downtime, Single, Recurring
  <2>3. /\ new \in Downtime /\ (new \in Single <=> old \in Single)
        /\ new.start = old.start /\ new.end = old.end /\ new.recs = old.recs
        /\ new.note = job.res.note
    <3> DEFINE m == job.res.note
    <3>1. m \in STRING /\ new = [old EXCEPT !.note = m]
      BY <2>1, <2>2
    <3> HIDE DEF m, new
    <3>2. CASE old \in Single
      <4>1. /\ new \in Single /\ new.start = old.start /\ new.end = old.end
            /\ new.recs = old.recs /\ new.note = m
        BY <3>1, <3>2 DEF Single
      <4>2. QED BY <3>2, <4>1 DEF Downtime, m
    <3>3. CASE old \in Recurring
      <4>1. /\ new \in Recurring /\ new.start = old.start /\ new.end = old.end
            /\ new.recs = old.recs /\ new.note = m
        BY <3>1, <3>3 DEF Recurring
      <4>2. ~(old \in Single) /\ ~(new \in Single)
        BY <3>3, <4>1, KindsIs
      <4>3. QED BY <4>1, <4>2 DEF Downtime, m
    <3>4. QED BY <1>1, <3>2, <3>3 DEF Downtime
  <2>4. Windows(new) = Windows(old)
    BY <2>3 DEF Windows
  <2>5. Whole(new, family)
    BY <1>1, <2>3, <2>4 DEF Whole
  <2>6. QED BY <1>3, <2>3, <2>4, <2>5 DEF old
<1>4. QED BY <1>2, <1>3

LEMMA PatchDoneKeeps ==
  ASSUME DowntimeInv, PatchDone
  PROVE  DowntimeInv'
<1> USE DEF DowntimeInv
<1> DEFINE i == mapped.id
           new == Patched(live[i])
<1>1. /\ pc = "patch" /\ live[i] # None
      /\ live' = [live EXCEPT ![i] = new]
      /\ UNCHANGED <<now, family, version, lost>>
      /\ \/ /\ Entry(i, new) /\ doubt' = FALSE /\ EndPass("ok")
            /\ UNCHANGED spent
         \/ /\ Spend("faults") /\ doubt' = TRUE /\ EndPass("failed")
            /\ UNCHANGED mapped
  BY DEF PatchDone
<1>2. mapped # None /\ i \in Ids /\ i \in Nat /\ now \in Nat
  <2>1. mapped # None
    BY <1>1 DEF PlaceOK
  <2>2. i \in Ids
    BY <2>1 DEF DowntimeTypeOK
  <2>3. QED BY <2>1, <2>2, MadeIs
<1>3. Whole(new, family) /\ new \in Downtime /\ new # None
  BY <1>1, <1>2, PatchedIs, WholeKind
<1>4. i <= spent.made
  BY <1>2 DEF EntryOK
<1> HIDE DEF new
<1>5. live \in [Ids -> Downtime \cup {None}]
  BY DEF DowntimeTypeOK
<1>6. /\ live' \in [Ids -> Downtime \cup {None}] /\ live'[i] = new
      /\ \A j \in Ids : j # i => live'[j] = live[j]
  BY <1>1, <1>2, <1>3, <1>5
<1>7. \E r \in {"ok", "failed"} :
        /\ ReadOK' /\ PlaceOK' /\ TimeOK' /\ KeptOK' /\ WriteOK'
        /\ snap' \in Snapshot \cup {None} /\ job' \in Job
        /\ pc' = "idle" /\ outcome' = r
  BY <1>1, EndPassIs
<1>8. /\ spent' \in [DOMAIN Limits -> Nat] /\ spent'.made = spent.made
      /\ \A k \in DOMAIN Limits : spent'[k] <= Limits[k]
  <2>1. /\ spent \in [DOMAIN Limits -> Nat] /\ spent.faults \in Nat
        /\ Limits.faults \in Nat
        /\ DOMAIN Limits = {"edits", "passes", "made", "faults"}
        /\ \A k \in DOMAIN Limits : spent[k] <= Limits[k]
    BY MadeIs
  <2>2. CASE spent' = spent
    BY <2>1, <2>2
  <2>3. CASE Spend("faults")
    <3> DEFINE e == spent["faults"] + 1
    <3>0. spent["faults"] \in Nat /\ Limits["faults"] \in Nat
      BY <2>1, DowntimeAssumption
    <3>1. e \in Nat /\ e <= Limits["faults"] /\ spent' = [spent EXCEPT !["faults"] = e]
      BY <2>3, <3>0 DEF Spend
    <3> HIDE DEF e
    <3>2. QED BY <2>1, <3>1
  <2>4. QED BY <1>1, <2>2, <2>3
<1>9. ObjectsOK'
  <2>1. ASSUME NEW j \in Ids, live'[j] # None
        PROVE  j <= spent.made /\ Whole(live'[j], family)
    <3>1. CASE j = i
      BY <1>3, <1>4, <1>6, <3>1
    <3>2. CASE j # i
      BY <1>6, <2>1, <3>2 DEF ObjectsOK
    <3>3. QED BY <3>1, <3>2
  <2>2. QED BY <1>1, <1>8, <2>1 DEF ObjectsOK
<1>10. ~lost => \A j \in Ids : live'[j] # None => j = i
  BY <1>2, <1>6 DEF Kin
<1>11. CASE Entry(i, new) /\ doubt' = FALSE
  <2>1. /\ mapped' \in Copy /\ mapped' # None
        /\ mapped'.id = i /\ mapped'.res = new
        /\ mapped'.current \in Windows(new) \cup {None}
    BY <1>2, <1>3, <1>11, EntryIs
  <2>2. EntryOK'
    BY <1>1, <1>3, <1>4, <1>6, <1>8, <2>1 DEF EntryOK
  <2>3. DowntimeTypeOK'
    BY <1>1, <1>2, <1>6, <1>7, <1>8, <1>11, <2>1 DEF DowntimeTypeOK
  <2>4. Kin'
    BY <1>1, <1>7, <1>10, <2>1 DEF Kin
  <2>5. QED BY <1>7, <1>9, <2>2, <2>3, <2>4
<1>12. CASE doubt' = TRUE /\ UNCHANGED mapped
  <2>1. EntryOK'
    BY <1>1, <1>8, <1>12 DEF EntryOK
  <2>2. DowntimeTypeOK'
    BY <1>1, <1>6, <1>7, <1>8, <1>12 DEF DowntimeTypeOK
  <2>3. Kin'
    BY <1>1, <1>2, <1>7, <1>10, <1>12 DEF Kin
  <2>4. QED BY <1>7, <1>9, <2>1, <2>2, <2>3
<1>13. QED BY <1>1, <1>11, <1>12

\* A replacement is prepared from the version as it was imported.
RecreatedFrom(o) ==
  /\ Whole(o, family)
  /\ ~job.kept => Follows(o, snap.res, now, now + Minute)

LEMMA RecreateIs ==
  ASSUME DowntimeInv, Busy, pc # "create", Recreate
  PROVE  \/ EndPass("skipped")
         \/ /\ pc' = "create" /\ UNCHANGED <<outcome, snap>>
            /\ job' \in Job /\ RecreatedFrom(job'.res)
            /\ job'.action = job.action /\ job'.create = job.create
            /\ job'.kept = job.kept
            /\ job'.planned = now /\ job'.cut = now + Minute
<1> USE DEF DowntimeInv
<1> DEFINE S == snap.res
           form == CreateForm(job.create, snap.current, now)
<1>1. snap # None
  BY DEF PlaceOK
<1>2. /\ snap \in Snapshot /\ S \in family /\ family \in Families
      /\ snap.at \in Nat /\ snap.at <= now /\ Whole(S, family)
      /\ S \in Downtime /\ now \in 0..Horizon /\ now \in Nat
      /\ Lag \in Nat /\ Latency \in Nat /\ Minute \in Nat
  BY <1>1, ReadIs
<1>3. CASE form = {}
  BY <1>3 DEF Recreate
<1>4. CASE form # {}
  <2>1. PICK o \in form :
          job' = [job EXCEPT !.res = o, !.planned = now, !.cut = now + Minute]
    BY <1>4 DEF Recreate
  <2>2. pc' = "create" /\ UNCHANGED <<outcome, snap>>
    BY <1>4 DEF Recreate
  <2> HIDE DEF form
  <2>3. job \in Job /\ now + Minute \in Nat
    BY <1>2 DEF DowntimeTypeOK
  <2>4. /\ Whole(job.create, family) /\ (job.kept => S \in Single)
        /\ ~job.kept => job.create = S
    BY DEF KeptOK
  <2>5. job.create \in Downtime /\ (job.create \in Single <=> S \in Single)
    BY <1>2, <2>4 DEF Whole
  <2>6. now <= snap.at + Lag + Latency
    <3>1. job.planned <= snap.at + Lag /\ now <= job.planned + Latency
      BY DEF TimeOK
    <3>2. job.planned \in Nat
      BY <2>3 DEF Job
    <3>3. QED BY <1>2, <3>1, <3>2
  <2>7. job.create \in Recurring =>
          job.create = S /\ Recent(job.create, snap.current, now)
    <3> SUFFICES ASSUME job.create \in Recurring
                 PROVE  job.create = S /\ Recent(job.create, snap.current, now)
      OBVIOUS
    <3>1. ~(job.create \in Single)
      BY KindsIs
    <3>2. job.create = S
      BY <2>4, <2>5, <3>1
    <3>3. Recent(S, snap.current, now)
      BY <1>1, <1>2, <2>6, <3>2, RecentIs
    <3>4. QED BY <3>2, <3>3
  <2>8. /\ o \in Downtime /\ (o \in Single <=> job.create \in Single)
        /\ ApartWindows(Windows(o)) /\ Follows(o, job.create, now, now + Minute)
    BY <1>2, <2>5, <2>7, CreateFollows DEF form
  <2>9. Whole(o, family)
    BY <1>2, <2>5, <2>8 DEF Whole
  <2>10. /\ job'.res = o /\ job'.planned = now /\ job'.cut = now + Minute
         /\ job'.action = job.action /\ job'.create = job.create
         /\ job'.kept = job.kept
    BY <2>1, <2>3 DEF Job
  <2>11. job' \in Job
    <3>1. o \in Schedule
      BY <2>8, DowntimesAreSchedules
    <3>2. QED BY <1>2, <2>1, <2>3, <3>1 DEF Job
  <2>12. RecreatedFrom(job'.res)
    BY <2>4, <2>8, <2>9, <2>10 DEF RecreatedFrom
  <2>13. QED BY <2>2, <2>10, <2>11, <2>12
<1>5. QED BY <1>3, <1>4

\* The parts of the invariant after a replacement was prepared.
LEMMA RecreateKeeps ==
  ASSUME DowntimeInv, Busy, pc # "create", Recreate, now' = now, family' = family,
         mapped' = None \/ mapped' = mapped, mapped' = None => ~job.kept
  PROVE  /\ ReadOK' /\ PlaceOK' /\ TimeOK' /\ KeptOK' /\ WriteOK'
         /\ snap' \in Snapshot \cup {None} /\ job' \in Job
         /\ \/ pc' = "idle" /\ outcome' = "skipped"
            \/ pc' = "create" /\ outcome' = outcome
<1>1. CASE EndPass("skipped")
  BY <1>1, EndPassIs
<1>2. CASE /\ pc' = "create" /\ UNCHANGED <<outcome, snap>>
           /\ job' \in Job /\ RecreatedFrom(job'.res)
           /\ job'.action = job.action /\ job'.create = job.create
           /\ job'.kept = job.kept
           /\ job'.planned = now /\ job'.cut = now + Minute
  <2> USE DEF DowntimeInv
  <2>1. snap # None
    BY DEF PlaceOK
  <2>2. /\ snap \in Snapshot /\ snap.at \in Nat /\ snap.at <= now /\ now \in Nat
        /\ Lag \in Nat /\ Latency \in Nat /\ Minute \in Nat
    BY <2>1, ReadIs
  <2>3. now <= snap.at + Lag + Latency
    <3>1. job.planned <= snap.at + Lag /\ now <= job.planned + Latency
      BY DEF TimeOK
    <3>2. job.planned \in Nat
      BY DEF DowntimeTypeOK, Job
    <3>3. QED BY <2>2, <3>1, <3>2
  <2>4. ReadOK'
    BY <1>2 DEF ReadOK
  <2>5. PlaceOK' /\ TimeOK'
    BY <1>2, <2>1, <2>2, <2>3 DEF PlaceOK, TimeOK, Busy
  <2>6. KeptOK'
    BY <1>2 DEF KeptOK, Busy
  <2>7. WriteOK'
    BY <1>2 DEF WriteOK, Good, RecreatedFrom
  <2>8. QED BY <1>2, <2>2, <2>4, <2>5, <2>6, <2>7
<1>3. QED BY <1>1, <1>2, RecreateIs

LEMMA PatchNotFoundKeeps ==
  ASSUME DowntimeInv, PatchNotFound
  PROVE  DowntimeInv'
<1> USE DEF DowntimeInv
<1>1. /\ pc = "patch" /\ live[mapped.id] = None /\ Recreate
      /\ UNCHANGED <<now, family, version, mapped, live, doubt, spent, lost>>
  BY DEF PatchNotFound, boundVars
<1>2. Busy /\ mapped # None
  BY <1>1 DEF Busy, PlaceOK
<1>3. /\ ReadOK' /\ PlaceOK' /\ TimeOK' /\ KeptOK' /\ WriteOK'
      /\ snap' \in Snapshot \cup {None} /\ job' \in Job
      /\ \/ pc' = "idle" /\ outcome' = "skipped"
         \/ pc' = "create" /\ outcome' = outcome
  BY <1>1, <1>2, RecreateKeeps
<1>4. EntryOK' /\ ObjectsOK'
  BY <1>1 DEF EntryOK, ObjectsOK
<1>5. DowntimeTypeOK'
  BY <1>1, <1>3 DEF DowntimeTypeOK
<1>6. Kin'
  BY <1>1, <1>2, <1>3 DEF Kin
<1>7. QED BY <1>3, <1>4, <1>5, <1>6

LEMMA DeleteKeeps ==
  ASSUME DowntimeInv, NEW c \in BOOLEAN, Delete(c)
  PROVE  DowntimeInv'
<1> USE DEF DowntimeInv
<1> DEFINE i == mapped.id
<1>1. /\ pc = "delete" /\ live' = [live EXCEPT ![i] = None]
      /\ mapped' = Forgotten(c) /\ AfterDelete(c)
      /\ UNCHANGED <<now, family, version, lost>>
      /\ IF c THEN UNCHANGED <<doubt, spent>>
         ELSE Spend("faults") /\ doubt' = TRUE
  BY DEF Delete
<1>2. mapped # None /\ i \in Ids
  <2>1. mapped # None
    BY <1>1 DEF PlaceOK
  <2>2. QED BY <2>1 DEF DowntimeTypeOK
<1>3. /\ live' \in [Ids -> Downtime \cup {None}] /\ live'[i] = None
      /\ \A j \in Ids : live'[j] # None => j # i /\ live'[j] = live[j]
  BY <1>1, <1>2 DEF DowntimeTypeOK
<1>4. mapped' = IF c THEN None ELSE mapped
  BY <1>1 DEF Forgotten
<1>5. /\ spent' \in [DOMAIN Limits -> Nat] /\ spent'.made = spent.made
      /\ \A k \in DOMAIN Limits : spent'[k] <= Limits[k]
  <2>1. /\ spent \in [DOMAIN Limits -> Nat]
        /\ DOMAIN Limits = {"edits", "passes", "made", "faults"}
        /\ \A k \in DOMAIN Limits : spent[k] <= Limits[k]
    BY MadeIs
  <2>2. CASE spent' = spent
    BY <2>1, <2>2
  <2>3. CASE Spend("faults")
    <3> DEFINE e == spent["faults"] + 1
    <3>0. spent["faults"] \in Nat /\ Limits["faults"] \in Nat
      BY <2>1, DowntimeAssumption
    <3>1. e \in Nat /\ e <= Limits["faults"] /\ spent' = [spent EXCEPT !["faults"] = e]
      BY <2>3, <3>0 DEF Spend
    <3> HIDE DEF e
    <3>2. QED BY <2>1, <3>1
  <2>4. QED BY <1>1, <2>2, <2>3
<1>6. doubt' \in BOOLEAN
  BY <1>1 DEF DowntimeTypeOK
<1>7. ObjectsOK'
  BY <1>1, <1>3, <1>5 DEF ObjectsOK
<1>8. ~lost => \A j \in Ids : live'[j] = None
  BY <1>3 DEF Kin
<1>9. EntryOK'
  BY <1>1, <1>4, <1>5 DEF EntryOK
<1>10. CASE c /\ job.action = "recreate"
  <2>1. Recreate /\ Busy
    BY <1>1, <1>10 DEF AfterDelete, Busy
  <2>2. ~job.kept
    <3>1. snap.res \in Recurring
      BY <1>1, <1>10 DEF WriteOK
    <3>2. ~(snap.res \in Single)
      BY <3>1, KindsIs
    <3>3. QED BY <2>1, <3>2 DEF KeptOK
  <2>3. /\ ReadOK' /\ PlaceOK' /\ TimeOK' /\ KeptOK' /\ WriteOK'
        /\ snap' \in Snapshot \cup {None} /\ job' \in Job
        /\ \/ pc' = "idle" /\ outcome' = "skipped"
           \/ pc' = "create" /\ outcome' = outcome
    BY <1>1, <1>4, <2>1, <2>2, RecreateKeeps
  <2>4. DowntimeTypeOK'
    BY <1>1, <1>3, <1>4, <1>5, <1>6, <2>3 DEF DowntimeTypeOK
  <2>5. Kin'
    BY <1>1, <1>8 DEF Kin
  <2>6. QED BY <1>7, <1>9, <2>3, <2>4, <2>5
<1>11. CASE ~(c /\ job.action = "recreate")
  <2>1. PICK r \in {"ok", "failed"} : EndPass(r)
    BY <1>1, <1>11 DEF AfterDelete
  <2>2. /\ ReadOK' /\ PlaceOK' /\ TimeOK' /\ KeptOK' /\ WriteOK'
        /\ snap' \in Snapshot \cup {None} /\ job' \in Job
        /\ pc' = "idle" /\ outcome' = r
    BY <2>1, EndPassIs
  <2>3. DowntimeTypeOK'
    BY <1>1, <1>3, <1>4, <1>5, <1>6, <2>1, <2>2 DEF DowntimeTypeOK
  <2>4. Kin'
    BY <1>1, <1>8 DEF Kin
  <2>5. QED BY <1>7, <1>9, <2>2, <2>3, <2>4
<1>12. QED BY <1>10, <1>11

-----------------------------------------------------------------------------
(* Downtimes: theorems.                                                    *)

LEMMA DowntimeStep ==
  ASSUME DowntimeInv, [DowntimeNext]_downtimeVars
  PROVE  DowntimeInv'
<1>1. CASE Tick
  BY <1>1, TickKeeps
<1>2. CASE Import
  BY <1>2, ImportKeeps
<1>3. CASE HookCreate
  BY <1>3, HookCreateKeeps
<1>4. CASE HookUpdate
  BY <1>4, HookUpdateKeeps
<1>5. CASE StartUpdate
  BY <1>5, StartUpdateKeeps
<1>6. CASE PostCreated
  BY <1>6, PostCreatedKeeps
<1>7. CASE PostDuplicate
  BY <1>7, PostDuplicateKeeps
<1>8. CASE Refused
  BY <1>8, RefusedKeeps
<1>9. CASE PatchDone
  BY <1>9, PatchDoneKeeps
<1>10. CASE PatchNotFound
  BY <1>10, PatchNotFoundKeeps
<1>11. CASE \E c \in BOOLEAN : Delete(c)
  BY <1>11, DeleteKeeps
<1>12. CASE \E i \in Ids : OutsideDelete(i)
  BY <1>12, OutsideDeleteKeeps
<1>13. CASE UNCHANGED downtimeVars
  <2>1. UNCHANGED <<now, family, version, snap, mapped, live, pc, job, outcome,
                    doubt, spent, lost>>
    BY <1>13 DEF downtimeVars, boundVars
  <2>2. DowntimeTypeOK' /\ ReadOK' /\ EntryOK' /\ ObjectsOK' /\ PlaceOK' /\ Kin'
    BY <2>1 DEF DowntimeInv, DowntimeTypeOK, ReadOK, EntryOK, ObjectsOK, PlaceOK,
                Kin, Busy
  <2>3. TimeOK' /\ KeptOK' /\ WriteOK'
    BY <2>1 DEF DowntimeInv, TimeOK, KeptOK, WriteOK, Good, Busy
  <2>4. QED BY <2>2, <2>3 DEF DowntimeInv
<1>14. QED
  BY <1>1, <1>2, <1>3, <1>4, <1>5, <1>6, <1>7, <1>8, <1>9, <1>10, <1>11, <1>12,
     <1>13 DEF DowntimeNext

LEMMA DowntimeInvariant == DowntimeSpec => []DowntimeInv
<1>1. DowntimeInit => DowntimeInv
  BY DowntimeInitInv
<1>2. DowntimeInv /\ [DowntimeNext]_downtimeVars => DowntimeInv'
  BY DowntimeStep
<1>3. QED BY <1>1, <1>2, PTL DEF DowntimeSpec

\* Every variable of a downtime's life keeps its type: an entry is a copy under
\* an id that was given out, an object a downtime, and no limit is overdrawn.
THEOREM DowntimeTypeOKCorrect == DowntimeSpec => []DowntimeTypeOK
<1>1. DowntimeInv => DowntimeTypeOK
  BY DEF DowntimeInv
<1>2. QED BY <1>1, DowntimeInvariant, PTL

\* Between passes an object of the destination is the one that the entry names,
\* unless the answer of a create was lost: the deletion of a replacement drops the
\* entry only when it is confirmed, and the POST that follows sets it.
THEOREM NoOrphanCorrect == DowntimeSpec => []NoOrphan
<1>1. DowntimeInv => NoOrphan
  BY DEF DowntimeInv, Kin, NoOrphan
<1>2. QED BY <1>1, DowntimeInvariant, PTL

\* The steps that write a schedule write the one that was prepared.
LEMMA WrittenIs ==
  ASSUME DowntimeInv, [DowntimeNext]_downtimeVars, NEW i \in Ids, WritesSchedule(i)
  PROVE  /\ live'[i] = job.res
         /\ Follows(job.res, snap.res, job.planned, job.cut)
         /\ job.planned \in Nat /\ now \in Nat /\ job.planned <= now
<1>1. /\ live'[i] # live[i] /\ live'[i] # None /\ job.action # "omit" /\ ~job.kept
  BY DEF WritesSchedule
<1>2. live \in [Ids -> Downtime \cup {None}] /\ job.planned \in Nat /\ now \in Nat
  BY MadeIs DEF DowntimeInv, DowntimeTypeOK, Job
<1>3. PostCreated \/ PatchDone
  <2>1. ASSUME UNCHANGED live PROVE FALSE
    BY <1>1, <2>1
  <2>2. ASSUME NEW k, live' = [live EXCEPT ![k] = None] PROVE FALSE
    BY <1>1, <1>2, <2>2
  <2>3. CASE Tick \/ Import \/ HookCreate
    BY <2>1, <2>3 DEF Tick, Import, HookCreate
  <2>4. CASE HookUpdate
    BY <2>1, <2>4, HookUpdateIs
  <2>5. CASE StartUpdate
    BY <2>1, <2>5, StartUpdateIs
  <2>6. CASE PostDuplicate \/ Refused \/ PatchNotFound
    BY <2>1, <2>6 DEF PostDuplicate, Refused, PatchNotFound
  <2>7. CASE \E c \in BOOLEAN : Delete(c)
    BY <2>2, <2>7 DEF Delete
  <2>8. CASE \E k \in Ids : OutsideDelete(k)
    BY <2>2, <2>8 DEF OutsideDelete
  <2>9. CASE UNCHANGED downtimeVars
    BY <2>1, <2>9 DEF downtimeVars
  <2>10. QED
    BY <2>3, <2>4, <2>5, <2>6, <2>7, <2>8, <2>9 DEF DowntimeNext
<1>4. CASE PostCreated
  <2>1. pc = "create" /\ live' = [live EXCEPT ![spent.made + 1] = job.res]
    BY <1>4 DEF PostCreated
  <2>2. live'[i] = job.res
    BY <1>1, <1>2, <2>1
  <2>3. Follows(job.res, snap.res, job.planned, job.cut)
    BY <1>1, <2>1 DEF DowntimeInv, WriteOK, Good
  <2>4. job.planned <= now
    BY <2>1 DEF DowntimeInv, TimeOK, Busy
  <2>5. QED BY <1>2, <2>2, <2>3, <2>4
<1>5. CASE PatchDone
  <2>1. /\ pc = "patch" /\ live[mapped.id] # None
        /\ live' = [live EXCEPT ![mapped.id] = Patched(live[mapped.id])]
    BY <1>5 DEF PatchDone
  <2>2. live'[i] = job.res
    BY <1>1, <1>2, <2>1 DEF Patched
  <2>3. Follows(job.res, snap.res, job.planned, job.cut)
    BY <1>1, <2>1 DEF DowntimeInv, WriteOK, Good
  <2>4. job.planned <= now
    BY <2>1 DEF DowntimeInv, TimeOK, Busy
  <2>5. QED BY <1>2, <2>2, <2>3, <2>4
<1>6. QED BY <1>3, <1>4, <1>5

LEMMA LaterTimes ==
  ASSUME NEW p \in Nat, NEW u \in Nat, p <= u, NEW t \in u..End
  PROVE  t \in p..End
BY EndIs

\* For all families of versions, whatever fails and however time passes, what a
\* pass writes mutes from then on only when the imported version does: neither a
\* bridge, nor a COUNT that is carried over, nor the latency of the request makes
\* a window longer.
THEOREM NeverOutlastsCorrect == DowntimeSpec => NeverOutlasts
<1>1. DowntimeInv /\ [DowntimeNext]_downtimeVars =>
        \A i \in Ids : WritesSchedule(i) =>
          \A t \in now..End : Mutes(live'[i], t) => Mutes(snap.res, t)
  <2> SUFFICES ASSUME DowntimeInv, [DowntimeNext]_downtimeVars,
                      NEW i \in Ids, WritesSchedule(i), NEW t \in now..End
               PROVE  Mutes(live'[i], t) => Mutes(snap.res, t)
    OBVIOUS
  <2>1. /\ live'[i] = job.res /\ Follows(job.res, snap.res, job.planned, job.cut)
        /\ t \in job.planned..End
    BY WrittenIs, LaterTimes
  <2>2. QED BY <2>1 DEF Follows
<1>2. QED BY <1>1, DowntimeInvariant, PTL DEF DowntimeSpec, NeverOutlasts

\* In the same way it mutes whenever the imported version does, the active window
\* through its bridge, up to the minute that the rounding and the cutoff of the
\* plan may take.
THEOREM WindowsCoveredCorrect == DowntimeSpec => WindowsCovered
<1>1. DowntimeInv /\ [DowntimeNext]_downtimeVars =>
        \A i \in Ids : WritesSchedule(i) =>
          \A t \in now..End :
            Mutes(snap.res, t) /\ ~Excused(t) => Mutes(live'[i], t)
  <2> SUFFICES ASSUME DowntimeInv, [DowntimeNext]_downtimeVars,
                      NEW i \in Ids, WritesSchedule(i), NEW t \in now..End,
                      Mutes(snap.res, t), ~Excused(t)
               PROVE  Mutes(live'[i], t)
    OBVIOUS
  <2>1. /\ live'[i] = job.res /\ Follows(job.res, snap.res, job.planned, job.cut)
        /\ t \in job.planned..End
    BY WrittenIs, LaterTimes
  <2>2. ExcusedBy(snap.res, job.planned, job.cut, t) => Excused(t)
    BY DEF Excused, ExcusedBy, BridgeEnd
  <2>3. QED BY <2>1, <2>2 DEF Follows
<1>2. QED BY <1>1, DowntimeInvariant, PTL DEF DowntimeSpec, WindowsCovered

\* A sync deletes an object, to replace it or because the source is exhausted,
\* only when the object mutes otherwise than the source from the plan on: no
\* decision to cancel or to recreate comes of a difference in form alone.
THEOREM FaithfulCopyKeptCorrect == DowntimeSpec => FaithfulCopyKept
<1>1. DowntimeInv =>
        (pc = "delete" /\ ~doubt /\ job.action \in {"cancel", "recreate"}
         => \E t \in job.planned..End :
              Mutes(live[mapped.id], t) # Mutes(snap.res, t))
  <2> SUFFICES ASSUME DowntimeInv, pc = "delete", ~doubt,
                      job.action \in {"cancel", "recreate"}
               PROVE  \E t \in job.planned..End :
                        Mutes(live[mapped.id], t) # Mutes(snap.res, t)
    OBVIOUS
  <2>1. mapped # None /\ live[mapped.id] = mapped.res
    BY DEF DowntimeInv, PlaceOK, EntryOK
  <2>2. Differ(mapped.res, snap.res, job.planned)
    BY DEF DowntimeInv, WriteOK
  <2>3. PICK t \in job.planned..End :
               \/ Mutes(mapped.res, t) /\ ~Mutes(snap.res, t)
               \/ ~Mutes(mapped.res, t) /\ Mutes(snap.res, t)
    BY <2>2 DEF Differ
  <2>4. Mutes(mapped.res, t) # Mutes(snap.res, t)
    BY <2>3
  <2>5. QED BY <2>1, <2>4
<1>2. QED BY <1>1, DowntimeInvariant, PTL DEF DowntimeSpec, FaithfulCopyKept

\* A pass that is over, having written or found no difference.
PassOver == /\ pc # "idle" /\ pc' = "idle" /\ outcome' \in {"same", "ok"} /\ ~doubt'
            /\ mapped' # None /\ (doubt => job.action # "omit")
            /\ mapped # None => Kept(snap.res, mapped.res) = snap.res

\* What its object is then, as planned at p with cutoff c.
Faithful(o, p, c) ==
  /\ o.note = snap.res.note
  /\ \/ o.recs # {} /\ Mutes(o, p)
     \/ Starting(o, c) = Starting(snap.res, c)

LEMMA FollowsIsFaithful ==
  ASSUME NEW o, NEW p, NEW c, Follows(o, snap.res, p, c)
  PROVE  Faithful(o, p, c)
BY DEF Follows, Faithful

\* A hook that found no difference.
LEMMA SameIsFaithful ==
  ASSUME DowntimeInv, HookUpdate, pc' = "idle", outcome' = "same", ~doubt',
         Kept(snap.res, mapped.res) = snap.res
  PROVE  Faithful(live'[mapped'.id], now, now + Minute)
<1> DEFINE S == snap.res
           D == mapped.res
           x == HookDecision
<1>1. /\ pc = "hook" /\ mapped # None
      /\ UNCHANGED <<now, family, version, mapped, live, doubt, spent, lost>>
      /\ ~Differs(x.action, HookNew)
  BY HookUpdateIs DEF EndPass
<1>2. live'[mapped'.id] = D
  BY <1>1 DEF DowntimeInv, EntryOK
<1>3. HookNew = D /\ x.action # "cancel"
  BY <1>1 DEF Differs
<1>4. Prepared(x, HookNew, HookRes) /\ HookRes = S
  BY <1>1, PreparedIs DEF HookRes
<1>5. S \in Downtime
  <2>1. snap # None
    BY <1>1 DEF DowntimeInv, PlaceOK
  <2>2. QED BY <2>1, ReadIs
<1> HIDE DEF x
<1>6. CASE x.action \in {"patch", "recreate"}
  <2>1. Follows(D, S, now, now + Minute)
    BY <1>3, <1>4, <1>6 DEF Prepared
  <2>2. QED BY <1>2, <2>1, FollowsIsFaithful
<1>7. CASE x.action = "omit"
  <2>1. D.note = S.note /\ LeftAlone(D, S, now, now + Minute)
    BY <1>3, <1>4, <1>7 DEF Prepared
  <2>2. QED BY <1>2, <2>1 DEF LeftAlone, Faithful
<1>8. CASE x.action = "normalize"
  <2>1. D.note = S.note /\ Starting(D, now + Minute) = Starting(S, now + Minute)
    BY <1>3, <1>4, <1>8 DEF Prepared
  <2>2. QED BY <1>2, <2>1 DEF Faithful
<1>9. QED BY <1>3, <1>4, <1>6, <1>7, <1>8 DEF Prepared

\* A request that was answered.
LEMMA PostedIsFaithful ==
  ASSUME DowntimeInv, PassOver, pc = "create", NEW o, o = job.res
  PROVE  Faithful(o, job.planned, job.cut)
<1>1. ~job.kept
  BY DEF DowntimeInv, KeptOK, PassOver, Busy
<1>2. Follows(o, snap.res, job.planned, job.cut)
  BY <1>1 DEF DowntimeInv, WriteOK, Good
<1>3. QED BY <1>2, FollowsIsFaithful

LEMMA PatchedIsFaithful ==
  ASSUME DowntimeInv, PassOver, PatchDone
  PROVE  Faithful(live'[mapped'.id], job.planned, job.cut)
<1> DEFINE i == mapped.id
           new == Patched(live[i])
<1>1. pc = "patch" /\ live[i] # None /\ live' = [live EXCEPT ![i] = new]
  BY DEF PatchDone
<1>2. mapped # None /\ i \in Ids /\ live \in [Ids -> Downtime \cup {None}]
      /\ i \in Nat /\ now \in Nat
  <2>1. mapped # None
    BY <1>1 DEF DowntimeInv, PlaceOK
  <2>2. i \in Ids /\ live \in [Ids -> Downtime \cup {None}]
    BY <2>1 DEF DowntimeInv, DowntimeTypeOK
  <2>3. QED BY <2>1, <2>2, MadeIs DEF DowntimeInv
<1>3. /\ new \in Downtime /\ new.note = job.res.note
      /\ job.action # "omit" => new = job.res
      /\ job.action = "omit" => Windows(new) = Windows(live[i]) /\ new.recs = live[i].recs
  BY <1>1, <1>2, PatchedIs, WholeKind
<1> HIDE DEF new
<1>4. live'[i] = new
  BY <1>1, <1>2
<1>5. mapped'.id = i
  <2>1. Entry(i, new)
    BY DEF PatchDone, PassOver, new, EndPass
  <2>2. QED BY <1>2, <1>3, <2>1, EntryIs
<1>6. ~job.kept
  BY <1>1, <1>2 DEF DowntimeInv, KeptOK, PassOver, Busy
<1>7. CASE job.action # "omit"
  <2>1. Follows(new, snap.res, job.planned, job.cut)
    BY <1>1, <1>3, <1>6, <1>7 DEF DowntimeInv, WriteOK, Good
  <2>2. QED BY <1>4, <1>5, <2>1, FollowsIsFaithful
<1>8. CASE job.action = "omit"
  <2>1. live[i] = mapped.res
    BY <1>2, <1>8 DEF DowntimeInv, EntryOK, PassOver
  <2>2. /\ job.res.note = snap.res.note
        /\ LeftAlone(mapped.res, snap.res, job.planned, job.cut)
    BY <1>1, <1>8 DEF DowntimeInv, WriteOK
  <2>3. Windows(new) = Windows(mapped.res) /\ new.recs = mapped.res.recs
    BY <1>3, <1>8, <2>1
  <2>4. LeftAlone(new, snap.res, job.planned, job.cut)
    BY <2>2, <2>3 DEF LeftAlone, Mutes, Starting
  <2>5. Faithful(new, job.planned, job.cut)
    BY <1>3, <2>2, <2>4 DEF LeftAlone, Faithful
  <2>6. QED BY <1>4, <1>5, <2>5
<1>9. QED BY <1>7, <1>8

LEMMA PassOverIsFaithful ==
  ASSUME DowntimeInv, DowntimeNext, PassOver
  PROVE  \/ /\ pc = "hook"
            /\ Faithful(live'[mapped'.id], now, now + Minute)
         \/ /\ pc # "hook"
            /\ Faithful(live'[mapped'.id], job.planned, job.cut)
<1>1. CASE Tick \/ Import \/ \E i \in Ids : OutsideDelete(i)
  BY <1>1 DEF PassOver, Tick, Import, OutsideDelete
<1>2. CASE HookCreate
  BY <1>2 DEF PassOver, HookCreate, EndPass
<1>3. CASE HookUpdate
  <2>1. pc = "hook" /\ mapped # None /\ outcome' = "same"
    BY <1>3, HookUpdateIs DEF PassOver, EndPass
  <2>2. QED BY <1>3, <2>1, SameIsFaithful DEF PassOver
<1>4. CASE StartUpdate \/ Refused \/ PatchNotFound
  BY <1>4 DEF PassOver, StartUpdate, Refused, PatchNotFound, Recreate, EndPass
<1>5. CASE PostCreated
  <2> DEFINE i == spent.made + 1
  <2>1. /\ pc = "create" /\ live' = [live EXCEPT ![i] = job.res]
        /\ Entry(i, job.res) /\ spent.made < Limits.made
    BY <1>5 DEF PassOver, PostCreated, EndPass
  <2>2. i \in Ids /\ i \in Nat /\ now \in Nat
    BY <2>1, MadeIs DEF DowntimeInv
  <2>3. job.res \in Downtime
    BY <2>1, WholeKind DEF DowntimeInv, WriteOK, Good
  <2> HIDE DEF i
  <2>4. mapped'.id = i
    BY <2>1, <2>2, <2>3, EntryIs
  <2>5. live'[i] = job.res
    BY <2>1, <2>2 DEF DowntimeInv, DowntimeTypeOK
  <2>6. Faithful(job.res, job.planned, job.cut)
    BY <2>1, PostedIsFaithful
  <2>7. QED BY <2>1, <2>4, <2>5, <2>6
<1>6. CASE PostDuplicate
  <2>1. pc = "create" /\ live' = live
    BY <1>6 DEF PostDuplicate
  <2>2. PICK i \in Ids : live[i] = job.res /\ Entry(i, job.res)
    BY <1>6 DEF PostDuplicate, Duplicates
  <2>3. job.res \in Downtime
    BY <2>1, WholeKind DEF DowntimeInv, WriteOK, Good
  <2>4. i \in Nat /\ now \in Nat
    BY MadeIs DEF DowntimeInv
  <2>5. mapped'.id = i
    BY <2>2, <2>3, <2>4, EntryIs
  <2>6. Faithful(job.res, job.planned, job.cut)
    BY <2>1, PostedIsFaithful
  <2>7. QED BY <2>1, <2>2, <2>5, <2>6
<1>7. CASE PatchDone
  <2>1. pc = "patch"
    BY <1>7 DEF PatchDone
  <2>2. QED BY <1>7, <2>1, PatchedIsFaithful
<1>8. CASE \E c \in BOOLEAN : Delete(c)
  <2>1. PICK c \in BOOLEAN : Delete(c)
    BY <1>8
  <2>2. CASE c
    BY <2>1, <2>2 DEF PassOver, Delete, Forgotten
  <2>3. CASE ~c
    BY <2>1, <2>3 DEF PassOver, Delete
  <2>4. QED BY <2>2, <2>3
<1>9. QED
  BY <1>1, <1>2, <1>3, <1>4, <1>5, <1>6, <1>7, <1>8 DEF DowntimeNext

\* A pass that ends with "ok" or without a difference leaves an object with the
\* content of what was imported and its windows after the cutoff, or one that is
\* muting now and whose new cadence waits for the end of its window.
THEOREM FaithfulAfterPassCorrect == DowntimeSpec => FaithfulAfterPass
<1>1. DowntimeInv /\ [DowntimeNext]_downtimeVars =>
        (/\ pc # "idle" /\ pc' = "idle" /\ outcome' \in {"same", "ok"} /\ ~doubt'
         /\ mapped' # None /\ (doubt => job.action # "omit")
         /\ mapped # None => Kept(snap.res, mapped.res) = snap.res
         => LET o       == live'[mapped'.id]
                planned == IF pc = "hook" THEN now ELSE job.planned
                cut     == IF pc = "hook" THEN now + Minute ELSE job.cut
            IN  /\ o.note = snap.res.note
                /\ \/ o.recs # {} /\ Mutes(o, planned)
                   \/ Starting(o, cut) = Starting(snap.res, cut))
  <2> SUFFICES ASSUME DowntimeInv, [DowntimeNext]_downtimeVars, PassOver
               PROVE  Faithful(live'[mapped'.id],
                               IF pc = "hook" THEN now ELSE job.planned,
                               IF pc = "hook" THEN now + Minute ELSE job.cut)
    BY DEF PassOver, Faithful
  <2>1. DowntimeNext
    BY DEF PassOver, downtimeVars
  <2>2. CASE pc = "hook" /\ Faithful(live'[mapped'.id], now, now + Minute)
    BY <2>2
  <2>3. CASE pc # "hook" /\ Faithful(live'[mapped'.id], job.planned, job.cut)
    BY <2>3
  <2>4. QED BY <2>1, <2>2, <2>3, PassOverIsFaithful
<1>2. QED BY <1>1, DowntimeInvariant, PTL DEF DowntimeSpec, FaithfulAfterPass
=============================================================================
