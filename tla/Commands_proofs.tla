--------------------------- MODULE Commands_proofs ---------------------------
(***************************************************************************)
(* What one command does to the files and the destination organization, for *)
(* any types, options, starting files, organizations and failures.         *)
(***************************************************************************)
EXTENDS Commands, FiniteSetTheorems, TLAPS

\* The conjuncts of TypeOK, one variable each, as the provers want them.
TypeInv ==
  /\ start \in Starts
  /\ phase \in {"config", "validate", "types", "items", "save", "cleanup",
                "delete", "apply", "alias", "reset", "ended"}
  /\ end \in {"not yet", "refused", "invalid", "fatal", "fatal unsaved",
              "crashed", "interrupted", "finished"}
  /\ types \subseteq Type /\ authoritative \subseteq Type
  /\ waiting \subseteq Type /\ asked \subseteq Type
  /\ source \subseteq Item /\ dest \subseteq Item
  /\ srcFile \subseteq Item /\ destFile \subseteq Item /\ backup \subseteq Item
  /\ todo \subseteq Item /\ deleted \subseteq Item
  /\ transient \subseteq Item /\ permanent \subseteq Item /\ skipped \subseteq Item
  /\ failed \in BOOLEAN /\ logged \in BOOLEAN /\ fatal \in BOOLEAN

-----------------------------------------------------------------------------
(* The inductive invariant, in parts.                                      *)

\* Which commands reach which place, and that what runs was accepted.
Places ==
  /\ phase \in {"types", "items", "save"} => o.cmd # "sync"
  /\ phase \in {"cleanup", "delete", "apply"} => o.cmd \in {"sync", "migrate"}
  /\ phase \in {"alias", "reset"} => o.cmd = "reset"
  /\ (end = "not yet") = (phase # "ended")
  /\ phase \notin {"config", "ended"} => ~Refused(o)

\* What a command has not come to is as it was at the start.
Fresh ==
  /\ phase \in {"config", "validate", "types", "items"} => authoritative = {}
  /\ phase \in {"config", "validate", "save", "cleanup", "alias"} => todo = {}
  /\ phase \in {"config", "validate"} =>
       waiting = {} /\ asked = {} /\ transient = {} /\ permanent = {} /\ ~logged
  /\ phase = "types" => waiting \cup asked \subseteq types /\ waiting \cap asked = {}

\* Every failure of an import is counted, those that are not logged too.
Counted ==
  phase \in {"config", "validate", "types", "items", "save"} =>
    /\ logged => failed
    /\ transient \cup permanent # {} => failed

\* What an import is asked for and can be had.
Reachable == Wanted \ (transient \cup permanent)

\* It is ahead, in the queue or in memory, or its failure was logged.
Collected ==
  logged \/
    /\ phase = "types" =>
         \A i \in Reachable : i[1] \in waiting \cup asked \/ i \in todo
    /\ phase = "items" => Reachable \subseteq todo \cup source
    /\ (phase \in {"save", "cleanup", "delete", "apply"}
        /\ o.cmd \in {"import", "migrate"}) => Reachable \subseteq source
    /\ (end = "finished" /\ o.cmd \in {"import", "migrate"}) =>
         Reachable \subseteq srcFile

\* A type is pruned by what memory holds only when that is all of it.
Complete ==
  o.cmd # "reset" =>
    \A i \in org : (i[1] \in authoritative /\ i \notin unwanted /\ Passes(i)) => i \in source

WithinBudget(t) ==
  LET lost == OfTypes({t}, transient)
  IN lost # {} => Cardinality(lost) * 100 < o.threshold * Cardinality(o.idFile[t])

\* Each type is asked for once, and ends below the threshold or is logged.
Budget ==
  /\ phase = "types" => OfTypes(waiting \cup asked, transient) = {}
  /\ logged \/ \A t \in Type : WithinBudget(t)

\* An exit leaves in the files what was in memory, and a reset deletes only what
\* its backup has.
Saved ==
  /\ (end \in {"fatal", "finished"} /\ o.cmd \in {"import", "migrate"}) => source \subseteq srcFile
  /\ (o.cmd = "reset" /\ o.backup) =>
       /\ (phase \in {"alias", "reset"} \/ end \in {"fatal", "finished"}) => source \subseteq backup
       /\ phase = "reset" => dest \cup todo \subseteq backup

Syncs == o.cmd \in {"sync", "migrate"}

\* The cleanup sees all of the destination files.
Cleaned ==
  (Syncs /\ o.cleanup = "force") =>
    /\ phase \notin {"config", "ended"} => OfTypes(types, destFile) \subseteq dest \cup deleted
    /\ phase = "delete" => logged \/ OfTypes(types, dest) \subseteq source \cup todo \cup Undeletable
    /\ phase = "apply" => logged \/ OfTypes(types, dest) \subseteq source \cup Undeletable
    /\ end = "finished" => logged \/ OfTypes(types, destFile) \subseteq source \cup deleted \cup Undeletable

ToSync == {i \in OfTypes(types, source) : Passes(i)}
Applied ==
  /\ phase = "apply" => todo \subseteq source /\ (logged \/ ToSync \subseteq todo \cup dest \cup skipped)
  /\ (end = "finished" /\ Syncs) => logged \/ ToSync \subseteq destFile \cup skipped

-----------------------------------------------------------------------------
(* What a command starts with, loads and writes.                           *)

LEMMA StartTypes ==
  ASSUME start \in Starts
  PROVE  /\ o \in Option /\ o.idFile \in IdMap /\ o.filter \in IdMap
         /\ org \subseteq Item /\ unwanted \subseteq Item
         /\ start.src \subseteq Item /\ start.dest \subseteq Item
         /\ o.perFile \in BOOLEAN /\ o.threshold \in Int
         /\ o.cmd \in {"import", "sync", "migrate", "reset"}
         /\ Cleanup(o) \in {"false", "true", "force"}
<1>1. start \in Start
  BY CommandsAssumption
<1>2. o \in Option
  BY <1>1 DEF Start, o
<1>3. o.idFile \in IdMap /\ o.filter \in IdMap /\ o.perFile \in BOOLEAN
      /\ o.threshold \in Int /\ o.cmd \in {"import", "sync", "migrate", "reset"}
      /\ o.cleanup \in {"false", "true", "force"}
  BY <1>2 DEF Option
<1>4. Cleanup(o) \in {"false", "true", "force"}
  BY <1>3 DEF Cleanup
<1>5. QED
  BY <1>1, <1>2, <1>3, <1>4 DEF Start, org, unwanted

LEMMA LoadedTypes ==
  ASSUME NEW opt \in Option, NEW files \in SUBSET Item
  PROVE  Loaded(opt, files) \subseteq Item /\ Loaded(opt, files) \subseteq files
  BY DEF Loaded

LEMMA ArgTypes ==
  ASSUME NEW opt \in Option, NEW state
  PROVE  ResourcesArg(opt, state) \subseteq Type
  BY DEF ResourcesArg

\* What is written was in the files or is in memory.
LEMMA WrittenTypes ==
  ASSUME NEW files \in SUBSET Item, NEW entries \in SUBSET Item
  PROVE  /\ Written(files, entries) \subseteq Item
         /\ \A content \in Interrupted(files, entries) : content \subseteq Item
  BY DEF Written, Interrupted, OfTypes

-----------------------------------------------------------------------------
(* Types.                                                                  *)

LEMMA InitTypes == Init => TypeInv
<1> SUFFICES ASSUME Init PROVE TypeInv
  OBVIOUS
<1>1. start \in Starts
  BY DEF Init
<1>2. QED
  BY <1>1, StartTypes DEF Init, TypeInv

USE DEF memVars, fileVars, queueVars, faultVars, Goto, End

\* The steps of an import.
LEMMA ImportTypes ==
  ASSUME TypeInv,
         \/ Refuse \/ Load \/ Validate \/ EndTypes \/ EndItems
         \/ \E t \in Type : AskType(t) \/ FailType(t) \/ ListType(t) \/ FetchIds(t)
         \/ \E i \in todo : ImportItem(i)
  PROVE  TypeInv'
<1> USE DEF TypeInv
<1>0. USE StartTypes
<1>1. CASE Refuse
  BY <1>1 DEF Refuse
<1>2. CASE Load
  <2>1. types' \subseteq Type
    BY <1>2, ArgTypes DEF Load
  <2>2. source' \subseteq Item /\ dest' \subseteq Item
    BY <1>2, LoadedTypes DEF Load
  <2>3. QED
    BY <1>2, <2>1, <2>2 DEF Load
<1>3. CASE Validate
  BY <1>3 DEF Validate
<1>4. CASE EndTypes
  BY <1>4 DEF EndTypes
<1>5. CASE EndItems
  BY <1>5 DEF EndItems, Trusted
<1>6. CASE \E t \in Type : AskType(t)
  BY <1>6 DEF AskType
<1>7. CASE \E t \in Type : FailType(t)
  BY <1>7 DEF FailType
<1>8. CASE \E t \in Type : ListType(t)
  BY <1>8 DEF ListType, OfTypes
<1>9. CASE \E t \in Type : FetchIds(t)
  <2>1. PICK t \in Type : FetchIds(t)
    BY <1>9
  <2>2. o.idFile[t] \subseteq Id
    BY DEF IdMap
  <2>3. Requested(t) \subseteq Item
    BY <2>2 DEF Requested, Item
  <2>4. todo' \subseteq Item /\ transient' \subseteq Item /\ permanent' \subseteq Item
    BY <2>1, <2>3 DEF FetchIds
  <2>5. failed' \in BOOLEAN /\ logged' \in BOOLEAN /\ fatal' \in BOOLEAN
    BY <2>1 DEF FetchIds, Throttled
  <2>6. QED
    BY <2>1, <2>4, <2>5 DEF FetchIds
<1>10. CASE \E i \in todo : ImportItem(i)
  BY <1>10 DEF ImportItem
<1>11. QED
  BY <1>1, <1>2, <1>3, <1>4, <1>5, <1>6, <1>7, <1>8, <1>9, <1>10

\* The steps that write files.
LEMMA SaveTypes ==
  ASSUME TypeInv, Places, Abort \/ Save \/ SkipSave \/ EndApply \/ Interrupt
  PROVE  TypeInv'
<1> USE DEF TypeInv
<1>1. SourcePath \subseteq Item
  BY DEF SourcePath
<1>2. \A content : PutSource(content) /\ content \subseteq Item
        => srcFile' \subseteq Item /\ backup' \subseteq Item
  BY DEF PutSource
<1>3. /\ Written(SourcePath, source) \subseteq Item
      /\ Written(destFile, dest) \subseteq Item
      /\ \A content \in Interrupted(SourcePath, source) : content \subseteq Item
      /\ \A content \in Interrupted(srcFile, source) : content \subseteq Item
      /\ \A content \in Interrupted(destFile, dest) : content \subseteq Item
  BY <1>1, WrittenTypes
<1>4. DumpAll => srcFile' \subseteq Item /\ backup' \subseteq Item /\ destFile' \subseteq Item
  BY <1>2, <1>3 DEF DumpAll
<1>5. CASE Abort
  BY <1>2, <1>3, <1>5 DEF Abort, SavedFatal
<1>6. CASE Save
  <2>1. srcFile' \subseteq Item /\ backup' \subseteq Item
    BY <1>2, <1>3, <1>6 DEF Save
  <2>2. phase' \in {"cleanup", "alias", "ended"} /\ end' \in {end, "finished", "crashed"}
    BY <1>6, StartTypes DEF Save, Places
  <2>3. QED
    BY <1>6, <2>1, <2>2 DEF Save
<1>7. CASE SkipSave
  BY <1>7 DEF SkipSave
<1>8. CASE EndApply
  BY <1>3, <1>4, <1>8 DEF EndApply
<1>9. CASE Interrupt
  BY <1>4, <1>9 DEF Interrupt
<1>10. QED
  BY <1>5, <1>6, <1>7, <1>8, <1>9

\* A cleanup deletes the orphans, or nothing.
LEMMA CleanupTodo ==
  ASSUME TypeInv, BeginCleanup
  PROVE  /\ todo' = {} \/ todo' = OfTypes(types, dest \ source)
         /\ Cleanup(o) = "force" => todo' = OfTypes(types, dest \ source)
<1> DEFINE orphans == OfTypes(types, dest \ source)
           mode == Cleanup(o)
<1>1. mode \in {"false", "true", "force"}
  BY StartTypes DEF TypeInv
<1>2. todo' \in CASE mode = "force" -> {orphans}
                  [] mode = "true"  -> {orphans, {}}
                  [] mode = "false" -> {{}}
  BY DEF BeginCleanup
<1> HIDE DEF orphans, mode
<1>3. /\ todo' = {} \/ todo' = orphans
      /\ mode = "force" => todo' = orphans
  BY <1>1, <1>2
<1>4. QED
  BY <1>3 DEF orphans, mode

\* The steps of a cleanup, of a sync and of a reset.
LEMMA ApplyTypes ==
  ASSUME TypeInv,
         \/ BeginCleanup \/ EndCleanup \/ Alias \/ EndReset
         \/ \E i \in todo : DeleteItem(i) \/ ApplyItem(i) \/ ResetItem(i)
         \/ \E t \in Type : ResetType(t)
  PROVE  TypeInv'
<1> USE DEF TypeInv
<1>1. CASE BeginCleanup
  <2>1. todo' = {} \/ todo' = OfTypes(types, dest \ source)
    BY <1>1, CleanupTodo
  <2>2. OfTypes(types, dest \ source) \subseteq Item
    BY DEF OfTypes
  <2>3. QED
    BY <1>1, <2>1, <2>2 DEF BeginCleanup
<1>2. CASE EndCleanup
  BY <1>2 DEF EndCleanup, OfTypes
<1>3. CASE Alias
  BY <1>3 DEF Alias
<1>4. CASE EndReset
  BY <1>4 DEF EndReset
<1>5. CASE \E i \in todo : DeleteItem(i) \/ ResetItem(i)
  BY <1>5 DEF DeleteItem, ResetItem, Delete
<1>6. CASE \E i \in todo : ApplyItem(i)
  BY <1>6 DEF ApplyItem
<1>7. CASE \E t \in Type : ResetType(t)
  BY <1>7 DEF ResetType, OfTypes
<1>8. QED
  BY <1>1, <1>2, <1>3, <1>4, <1>5, <1>6, <1>7

LEMMA StepTypes == TypeInv /\ Places /\ [Next]_vars => TypeInv'
<1> SUFFICES ASSUME TypeInv, Places, [Next]_vars PROVE TypeInv'
  OBVIOUS
<1>1. CASE Step
  BY <1>1, ImportTypes, SaveTypes, ApplyTypes DEF Step
<1>2. CASE Interrupt
  BY <1>2, SaveTypes
<1>3. CASE UNCHANGED vars
  BY <1>3 DEF TypeInv, vars
<1>4. QED
  BY <1>1, <1>2, <1>3 DEF Next, Ended


-----------------------------------------------------------------------------
(* The parts of the invariant, one step at a time.                         *)

\* What a step does to the place of a command, and to what decides it.
LEMMA PlacesStep == TypeInv /\ Places /\ [Next]_vars => Places'
<1> SUFFICES ASSUME TypeInv, Places, [Next]_vars PROVE Places'
  OBVIOUS
<1> USE StartTypes DEF TypeInv, Places, o
<1>1. CASE \/ Refuse \/ Load \/ Validate \/ EndTypes \/ EndItems
  BY <1>1 DEF Refuse, Load, Validate, EndTypes, EndItems
<1>2. CASE \E t \in Type : AskType(t) \/ FailType(t) \/ ListType(t) \/ FetchIds(t)
  BY <1>2 DEF AskType, FailType, ListType, FetchIds
<1>3. CASE \/ \E i \in todo : ImportItem(i) \/ DeleteItem(i) \/ ApplyItem(i) \/ ResetItem(i)
           \/ \E t \in Type : ResetType(t)
  BY <1>3 DEF ImportItem, DeleteItem, ApplyItem, ResetItem, Delete, ResetType
<1>4. CASE \/ Abort \/ Save \/ SkipSave
  BY <1>4 DEF Abort, Save, SkipSave, Saves
<1>5. CASE \/ BeginCleanup \/ EndCleanup \/ EndApply \/ Alias \/ EndReset
  BY <1>5 DEF BeginCleanup, EndCleanup, EndApply, Alias, EndReset
<1>6. CASE Interrupt
  BY <1>6 DEF Interrupt
<1>7. CASE UNCHANGED vars
  BY <1>7 DEF vars
<1>8. QED
  BY <1>1, <1>2, <1>3, <1>4, <1>5, <1>6, <1>7 DEF Next, Step, Ended

LEMMA FreshStep == TypeInv /\ Places /\ Fresh /\ [Next]_vars => Fresh'
<1> SUFFICES ASSUME TypeInv, Places, Fresh, [Next]_vars PROVE Fresh'
  OBVIOUS
<1> USE StartTypes DEF TypeInv, Places, Fresh, o
<1>1. CASE \/ Refuse \/ Load \/ Validate \/ EndTypes \/ EndItems
  BY <1>1 DEF Refuse, Load, Validate, EndTypes, EndItems
<1>2. CASE \E t \in Type : AskType(t) \/ FailType(t) \/ ListType(t) \/ FetchIds(t)
  BY <1>2 DEF AskType, FailType, ListType, FetchIds
<1>3. CASE \/ \E i \in todo : ImportItem(i) \/ DeleteItem(i) \/ ApplyItem(i) \/ ResetItem(i)
           \/ \E t \in Type : ResetType(t)
  BY <1>3 DEF ImportItem, DeleteItem, ApplyItem, ResetItem, Delete, ResetType
<1>4. CASE \/ Abort \/ Save \/ SkipSave
  BY <1>4 DEF Abort, Save, SkipSave, Saves
<1>5. CASE \/ BeginCleanup \/ EndCleanup \/ EndApply \/ Alias \/ EndReset
  BY <1>5 DEF BeginCleanup, EndCleanup, EndApply, Alias, EndReset
<1>6. CASE Interrupt
  BY <1>6 DEF Interrupt
<1>7. CASE UNCHANGED vars
  BY <1>7 DEF vars
<1>8. QED
  BY <1>1, <1>2, <1>3, <1>4, <1>5, <1>6, <1>7 DEF Next, Step, Ended

LEMMA CountedStep == TypeInv /\ Fresh /\ Places /\ Counted /\ [Next]_vars => Counted'
<1> SUFFICES ASSUME TypeInv, Fresh, Places, Counted, [Next]_vars PROVE Counted'
  OBVIOUS
<1> USE DEF TypeInv, Places, Fresh, Counted, o
<1>1. CASE \/ Refuse \/ Load \/ Validate \/ EndTypes \/ EndItems
  BY <1>1 DEF Refuse, Load, Validate, EndTypes, EndItems
<1>2. CASE \E t \in Type : AskType(t) \/ FailType(t) \/ ListType(t)
  <2>1. UNCHANGED <<phase, transient, permanent>>
        /\ (failed' = TRUE \/ UNCHANGED <<failed, logged>>)
    BY <1>2 DEF AskType, FailType, ListType
  <2>2. QED
    BY <2>1
<1>3. CASE \E t \in Type : FetchIds(t)
  <2>0. PICK t \in Type : FetchIds(t)
    BY <1>3
  <2>1. PICK lost, broken \in IF Faults THEN SUBSET Requested(t) ELSE {{}} :
          /\ transient' = transient \cup lost /\ permanent' = permanent \cup broken
          /\ failed' = (failed \/ lost \cup broken # {})
          /\ logged' = (logged \/ Throttled(t, lost))
    BY <2>0, Zenon DEF FetchIds
  <2>4. UNCHANGED phase
    BY <2>0 DEF FetchIds
  <2>2. Throttled(t, lost) => lost # {}
    BY DEF Throttled
  <2>3. QED
    BY <2>1, <2>2, <2>4
<1>4. CASE \/ \E i \in todo : ImportItem(i) \/ DeleteItem(i) \/ ApplyItem(i) \/ ResetItem(i)
           \/ \E t \in Type : ResetType(t)
  BY <1>4 DEF ImportItem, DeleteItem, ApplyItem, ResetItem, Delete, ResetType
<1>5. CASE \/ Abort \/ Save \/ SkipSave
  BY <1>5 DEF Abort, Save, SkipSave, Saves
<1>6. CASE \/ BeginCleanup \/ EndCleanup \/ EndApply \/ Alias \/ EndReset
  BY <1>6 DEF BeginCleanup, EndCleanup, EndApply, Alias, EndReset
<1>7. CASE Interrupt
  BY <1>7 DEF Interrupt
<1>8. CASE UNCHANGED vars
  BY <1>8 DEF vars
<1>9. QED
  BY <1>1, <1>2, <1>3, <1>4, <1>5, <1>6, <1>7, <1>8 DEF Next, Step, Ended


\* What an import is asked for is settled once the types are.
LEMMA WantedSame ==
  ASSUME UNCHANGED <<start, types>>
  PROVE  /\ Wanted' = Wanted /\ o' = o /\ org' = org /\ unwanted' = unwanted
         /\ \A i : Passes(i)' = Passes(i)
<1>1. o' = o /\ org' = org /\ unwanted' = unwanted
  BY DEF o, org, unwanted
<1>2. \A i : Passes(i)' = Passes(i)
  BY <1>1 DEF Passes
<1>3. Wanted' = Wanted
  BY <1>1, <1>2 DEF Wanted, ById, OfTypes
<1>4. QED
  BY <1>1, <1>2, <1>3

LEMMA WantedTypes ==
  ASSUME TypeInv
  PROVE  \A i \in Wanted :
           /\ i \in org /\ i \notin unwanted /\ Passes(i) /\ i[1] \in types
           /\ i \in Item /\ i = <<i[1], i[2]>> /\ i[1] \in Type
           /\ ById(i[1]) => i \in Requested(i[1])
<1>1. org \subseteq Item
  BY StartTypes DEF TypeInv
<1>2. QED
  BY <1>1 DEF Wanted, OfTypes, Item, Requested

\* Nothing in memory is left out of what is written.
LEMMA WrittenKeeps ==
  ASSUME NEW files
  PROVE  /\ source \subseteq Written(files, source)
         /\ dest \cap source \subseteq Written(files, dest)
  BY DEF Written

\* What was logged stays logged, and a command starts once.
LEMMA LoggedStep == TypeInv /\ [Next]_vars => UNCHANGED start /\ (logged => logged')
<1> SUFFICES ASSUME TypeInv, [Next]_vars PROVE UNCHANGED start /\ (logged => logged')
  OBVIOUS
<1>1. CASE \/ Refuse \/ Load \/ Validate \/ EndTypes \/ EndItems
  BY <1>1 DEF Refuse, Load, Validate, EndTypes, EndItems
<1>2. CASE \E t \in Type : AskType(t) \/ FailType(t) \/ ListType(t)
  <2>1. UNCHANGED start /\ (logged' = TRUE \/ UNCHANGED logged)
    BY <1>2 DEF AskType, FailType, ListType
  <2>2. QED
    BY <2>1
<1>3. CASE \E t \in Type : FetchIds(t)
  BY <1>3, Zenon DEF FetchIds
<1>4. CASE \/ \E i \in todo : ImportItem(i) \/ DeleteItem(i) \/ ApplyItem(i) \/ ResetItem(i)
           \/ \E t \in Type : ResetType(t)
  <2>1. UNCHANGED start /\ (logged' = TRUE \/ UNCHANGED logged)
    BY <1>4 DEF ImportItem, DeleteItem, ApplyItem, ResetItem, Delete, ResetType
  <2>2. QED
    BY <2>1
<1>5. CASE \/ Abort \/ Save \/ SkipSave
  <2>1. UNCHANGED <<start, faultVars>>
    BY <1>5, Zenon DEF Abort, Save, SkipSave
  <2>2. QED
    BY <2>1
<1>6. CASE \/ BeginCleanup \/ EndCleanup \/ EndApply \/ Alias \/ EndReset
  BY <1>6 DEF BeginCleanup, EndCleanup, EndApply, Alias, EndReset
<1>7. CASE Interrupt
  BY <1>7 DEF Interrupt
<1>8. CASE UNCHANGED vars
  BY <1>8 DEF vars
<1>9. QED
  BY <1>1, <1>2, <1>3, <1>4, <1>5, <1>6, <1>7, <1>8 DEF Next, Step, Ended

\* What an import was asked for does not get lost on its way to the files.
LEMMA CollectedStep == TypeInv /\ Places /\ Collected /\ [Next]_vars => Collected'
<1> SUFFICES ASSUME TypeInv, Places, Collected, [Next]_vars, ~logged' PROVE Collected'
  BY DEF Collected
<1>0. ~logged /\ UNCHANGED start
  BY LoggedStep
<1> USE <1>0 DEF Places, Collected, Reachable
<1>1. CASE Refuse \/ Load
  BY <1>1 DEF Refuse, Load
<1>2. CASE Validate
  BY <1>2, WantedSame, WantedTypes, StepTypes DEF Validate
<1>3. CASE \E t \in Type : AskType(t)
  BY <1>3, WantedSame DEF AskType
<1>4. CASE \E t \in Type : FailType(t)
  BY <1>4 DEF FailType
<1>5. CASE \E t \in Type : ListType(t)
  <2>1. PICK t \in Type : ListType(t)
    BY <1>5
  <2>2. UNCHANGED <<phase, end, start, types, transient, permanent, waiting>>
        /\ phase = "types" /\ asked' = asked \ {t} /\ todo \subseteq todo'
    BY <2>1 DEF ListType
  <2>3. Wanted' = Wanted
    BY <2>2, WantedSame
  <2>4. \A i \in Wanted : i[1] = t => i \in todo'
    BY <2>1, WantedTypes DEF ListType, OfTypes
  <2>5. \A i \in Wanted' \ (transient' \cup permanent') :
          i[1] \in waiting' \cup asked' \/ i \in todo'
    BY <2>2, <2>3, <2>4
  <2>6. QED
    BY <2>2, <2>5
<1>6. CASE \E t \in Type : FetchIds(t)
  <2>1. PICK t \in Type : FetchIds(t)
    BY <1>6
  <2>2. PICK lost, broken \in IF Faults THEN SUBSET Requested(t) ELSE {{}} :
          /\ todo' = todo \cup (((Requested(t) \cap org) \ unwanted)
                                \ (lost \cup broken))
          /\ transient' = transient \cup lost /\ permanent' = permanent \cup broken
    BY <2>1, Zenon DEF FetchIds
  <2>3. UNCHANGED <<phase, end, start, types, waiting>>
        /\ phase = "types" /\ asked' = asked \ {t} /\ ById(t)
    BY <2>1 DEF FetchIds
  <2>4. Wanted' = Wanted
    BY <2>3, WantedSame
  <2>5. ASSUME NEW i \in Wanted, i[1] = t, i \notin transient' \cup permanent'
        PROVE  i \in todo'
    <3>1. i \in Requested(t) /\ i \in org /\ i \notin unwanted
      BY <2>3, <2>5, WantedTypes
    <3>2. i \notin lost \cup broken
      BY <2>2, <2>5
    <3>3. QED
      BY <2>2, <3>1, <3>2
  <2>6. \A i \in Wanted' \ (transient' \cup permanent') :
          i[1] \in waiting' \cup asked' \/ i \in todo'
    <3>1. todo \subseteq todo' /\ transient \subseteq transient' /\ permanent \subseteq permanent'
      BY <2>2
    <3>2. QED
      BY <2>3, <2>4, <2>5, <3>1
  <2>7. QED
    BY <2>3, <2>6
<1>7. CASE EndTypes
  BY <1>7, WantedSame DEF EndTypes
<1>8. CASE \E i \in todo : ImportItem(i)
  <2>1. PICK i \in todo : ImportItem(i)
    BY <1>8
  <2>2. UNCHANGED <<phase, end, start, types, transient, permanent>> /\ phase = "items"
        /\ todo' = todo \ {i} /\ source \subseteq source'
    BY <2>1 DEF ImportItem
  <2>3. (Passes(i) /\ i \notin unwanted) => i \in source'
    BY <2>1 DEF ImportItem
  <2>4. Wanted' = Wanted
    BY <2>2, WantedSame
  <2>5. i \in Wanted => i \in source'
    BY <2>3, WantedTypes
  <2>6. Wanted' \ (transient' \cup permanent') \subseteq todo' \cup source'
    BY <2>2, <2>4, <2>5
  <2>7. QED
    BY <2>2, <2>6
<1>9. CASE EndItems
  BY <1>9, WantedSame DEF EndItems
<1>10. CASE Abort \/ SkipSave
  BY <1>10 DEF Abort, SkipSave, Saves, o
<1>11. CASE Save
  <2>1. Wanted' = Wanted /\ o' = o
    BY <1>11, WantedSame DEF Save
  <2>2. o.cmd \in {"import", "migrate"} => \/ source \subseteq srcFile' /\ phase' \in {"cleanup", "ended"}
                                           \/ phase' = "ended" /\ end' = "crashed"
    BY <1>11, WrittenKeeps DEF Save, PutSource, SourcePath
  <2>3. phase = "save" /\ UNCHANGED <<source, transient, permanent>>
    BY <1>11 DEF Save
  <2>4. CASE o.cmd \in {"import", "migrate"}
    <3>1. Wanted' \ (transient' \cup permanent') \subseteq source'
      BY <2>1, <2>3, <2>4
    <3>2. QED
      BY <2>1, <2>2, <2>3, <2>4, <3>1
  <2>5. CASE o.cmd \notin {"import", "migrate"}
    <3>1. phase' \in {"alias", "ended"} 
      BY <1>11, <2>5, StartTypes DEF Save, TypeInv
    <3>2. QED
      BY <2>1, <2>5, <3>1
  <2>6. QED
    BY <2>4, <2>5
<1>12. CASE \/ BeginCleanup \/ EndCleanup \/ Alias
            \/ \E i \in todo : DeleteItem(i) \/ ApplyItem(i)
  <2>1. UNCHANGED <<start, types, transient, permanent, source, end>>
        /\ phase \in {"cleanup", "delete", "apply", "alias"}
        /\ phase' \in {"cleanup", "delete", "apply", "reset"}
        /\ (phase = "alias" => phase' = "reset") 
    BY <1>12 DEF BeginCleanup, EndCleanup, Alias, DeleteItem, Delete, ApplyItem
  <2>2. QED
    BY <2>1, WantedSame
<1>13. CASE EndApply
  <2>1. Wanted' = Wanted /\ o' = o /\ phase = "apply" /\ phase' = "ended"
        /\ UNCHANGED <<source, transient, permanent>>
    BY <1>13, WantedSame DEF EndApply
  <2>2. end' = "finished" => source \subseteq srcFile'
    <3>1. end' = "finished" => PutSource(Written(SourcePath, source))
      BY <1>13 DEF EndApply, DumpAll
    <3>2. o.cmd # "reset"
      BY <1>13, StartTypes DEF EndApply, TypeInv, Places
    <3>3. QED BY <3>1, <3>2, WrittenKeeps DEF PutSource
  <2>3. QED
    BY <2>1, <2>2
<1>14. CASE \/ \E i \in todo : ResetItem(i)
            \/ \E t \in Type : ResetType(t)
            \/ EndReset
  <2>1. UNCHANGED start /\ phase = "reset" /\ phase' \in {"reset", "ended"}
    BY <1>14 DEF ResetItem, Delete, ResetType, EndReset
  <2>2. QED
    BY <2>1 DEF o
<1>15. CASE Interrupt
  BY <1>15 DEF Interrupt
<1>16. CASE UNCHANGED vars
  BY <1>16, WantedSame DEF vars
<1>17. QED
  BY <1>1, <1>2, <1>3, <1>4, <1>5, <1>6, <1>7, <1>8, <1>9, <1>10, <1>11, <1>12,
     <1>13, <1>14, <1>15, <1>16 DEF Next, Step, Ended


\* An import that trusts a type has collected all of it.
LEMMA CompleteStep ==
  TypeInv /\ Places /\ Fresh /\ Counted /\ Collected /\ Complete /\ [Next]_vars => Complete'
<1> SUFFICES ASSUME TypeInv, Places, Fresh, Counted, Collected, Complete, [Next]_vars
             PROVE  Complete'
  OBVIOUS
<1>0. /\ UNCHANGED start /\ org' = org /\ unwanted' = unwanted /\ o' = o
      /\ \A i : Passes(i)' = Passes(i)
  BY LoggedStep DEF o, org, unwanted, Passes
<1> SUFFICES ASSUME o.cmd # "reset" PROVE Complete'
  BY <1>0 DEF Complete
<1>1. CASE EndItems
  <2>1. CASE failed
    BY <1>1, <2>1 DEF EndItems, Complete
  <2>2. CASE ~failed
    <3>1. ~logged /\ transient \cup permanent = {} /\ phase = "items" /\ todo = {}
          /\ authoritative' = types \ Keys(o.idFile) /\ source' = source
      BY <1>1, <2>2 DEF EndItems, Counted, Trusted
    <3>2. Wanted \subseteq source
      BY <3>1 DEF Collected, Reachable
    <3>3. ASSUME NEW i \in org, i[1] \in authoritative', i \notin unwanted, Passes(i)
          PROVE  i \in Wanted
      <4>1. i[1] \in types /\ i[1] \in Type /\ o.idFile[i[1]] = {}
        BY <3>1, <3>3 DEF Keys, TypeInv
      <4>2. QED
        BY <3>3, <4>1 DEF Wanted, OfTypes, ById
    <3>4. QED
      BY <1>0, <3>1, <3>2, <3>3 DEF Complete
  <2>3. QED
    BY <2>1, <2>2 DEF TypeInv
<1>2. CASE \/ Load
           \/ \E t \in Type : AskType(t)
           \/ \E i \in todo : ImportItem(i)
  <2>1. authoritative = {} /\ UNCHANGED authoritative
    BY <1>2 DEF Load, AskType, ImportItem, Fresh
  <2>2. QED
    BY <2>1 DEF Complete
<1>4. CASE \/ Refuse \/ Validate \/ EndTypes
           \/ \E t \in Type : FailType(t) \/ ListType(t)
  BY <1>0, <1>4 DEF Refuse, Validate, EndTypes, FailType, ListType, Complete
<1>5. CASE \E t \in Type : FetchIds(t)
  BY <1>0, <1>5 DEF FetchIds, Complete
<1>6. CASE \/ \E i \in todo : DeleteItem(i) \/ ApplyItem(i)
           \/ \E t \in Type : ResetType(t)
  BY <1>0, <1>6 DEF DeleteItem, ApplyItem, Delete, ResetType, Complete
<1>7. CASE \E i \in todo : ResetItem(i)
  BY <1>7 DEF ResetItem, Places
<1>8. CASE \/ Abort \/ Save \/ SkipSave
  BY <1>0, <1>8, Zenon DEF Abort, Save, SkipSave, Complete
<1>9. CASE \/ BeginCleanup \/ EndCleanup \/ EndApply \/ Alias \/ EndReset
  BY <1>0, <1>9 DEF BeginCleanup, EndCleanup, EndApply, Alias, EndReset, Complete
<1>10. CASE Interrupt
  BY <1>0, <1>10 DEF Interrupt, Complete
<1>11. CASE UNCHANGED vars
  BY <1>0, <1>11 DEF vars, Complete
<1>12. QED
  BY <1>1, <1>2, <1>4, <1>5, <1>6, <1>7, <1>8, <1>9, <1>10, <1>11 DEF Next, Step, Ended

-----------------------------------------------------------------------------
(* The budget of transient failures.                                       *)

\* The ids that a type was asked for, or some of them, can be counted.
LEMMA LostCounted ==
  ASSUME start \in Starts, NEW t \in Type, NEW lost \in SUBSET Requested(t)
  PROVE  Cardinality(lost) \in Nat /\ Cardinality(o.idFile[t]) \in Nat
<1>1. IsFiniteSet(o.idFile[t])
  BY CommandsAssumption DEF o
<1>2. IsFiniteSet({t} \X o.idFile[t])
  BY <1>1, FS_Singleton, FS_Product
<1>3. IsFiniteSet(lost)
  BY <1>2, FS_Subset DEF Requested
<1>4. QED
  BY <1>1, <1>3, FS_CardinalityType

\* One type is fetched: it ends below the threshold, or is logged.
LEMMA FetchBudget ==
  ASSUME TypeInv, Fresh, Budget, NEW t \in Type, FetchIds(t)
  PROVE  Budget'
<1>1. PICK lost, broken \in IF Faults THEN SUBSET Requested(t) ELSE {{}} :
          /\ transient' = transient \cup lost
          /\ logged' = (logged \/ Throttled(t, lost))
  BY Zenon DEF FetchIds
<1>2. /\ UNCHANGED <<phase, start, waiting>> /\ phase = "types"
      /\ asked' = asked \ {t} /\ t \in asked /\ o' = o
  BY DEF FetchIds, o
<1>3. lost \in SUBSET Requested(t)
  BY <1>1
<1>4. \A i \in lost : i[1] = t
  BY <1>3 DEF Requested
<1>5. OfTypes(waiting' \cup asked', transient') = {}
  <2>1. t \notin waiting' \cup asked'
    BY <1>2 DEF Fresh
  <2>2. OfTypes(waiting \cup asked, transient) = {}
    BY <1>2 DEF Budget
  <2>3. QED
    BY <1>1, <1>2, <1>4, <2>1, <2>2 DEF OfTypes
<1>6. ASSUME ~logged', NEW u \in Type
      PROVE  WithinBudget(u)'
  <2>1. ~logged /\ ~Throttled(t, lost)
    BY <1>1, <1>6
  <2>2. WithinBudget(u)
    BY <2>1 DEF Budget
  <2>3. CASE u # t
    <3>1. OfTypes({u}, transient') = OfTypes({u}, transient)
      BY <1>1, <1>4, <2>3 DEF OfTypes
    <3>2. QED
      BY <1>2, <2>2, <3>1 DEF WithinBudget
  <2>4. CASE u = t
    <3>1. OfTypes({t}, transient) = {}
      BY <1>2 DEF Budget, OfTypes
    <3>2. OfTypes({t}, transient') = lost
      BY <1>1, <1>4, <3>1 DEF OfTypes
    <3>3. Cardinality(lost) \in Nat /\ Cardinality(o.idFile[t]) \in Nat /\ o.threshold \in Int
      BY <1>3, LostCounted, StartTypes DEF TypeInv
    <3>4. lost # {} => Cardinality(lost) * 100 < o.threshold * Cardinality(o.idFile[t])
      <4>1. lost # {} => ~(Cardinality(lost) * 100 >= o.threshold * Cardinality(o.idFile[t]))
        BY <2>1 DEF Throttled
      <4>2. o.threshold * Cardinality(o.idFile[t]) \in Int
        BY <3>3
      <4>3. QED
        BY <3>3, <4>1, <4>2
    <3>5. QED
      BY <1>2, <2>4, <3>2, <3>4 DEF WithinBudget
  <2>5. QED
    BY <2>3, <2>4
<1>7. QED
  BY <1>5, <1>6 DEF Budget

LEMMA BudgetStep == TypeInv /\ Places /\ Fresh /\ Budget /\ [Next]_vars => Budget'
<1> SUFFICES ASSUME TypeInv, Places, Fresh, Budget, [Next]_vars PROVE Budget'
  OBVIOUS
<1>0. UNCHANGED start /\ (logged => logged') /\ o' = o
  BY LoggedStep DEF o
<1>1. ASSUME UNCHANGED transient,
             phase' = "types" => \/ phase = "types" /\ waiting' \cup asked' \subseteq waiting \cup asked
                                 \/ transient = {}
      PROVE  Budget'
  <2>1. \A u \in Type : WithinBudget(u) => WithinBudget(u)'
    BY <1>0, <1>1 DEF WithinBudget
  <2>2. phase' = "types" => OfTypes(waiting' \cup asked', transient') = {}
    BY <1>1 DEF Budget, OfTypes
  <2>3. QED
    BY <1>0, <2>1, <2>2 DEF Budget
<1>2. CASE \/ Refuse \/ Load \/ Validate \/ EndTypes \/ EndItems
  BY <1>1, <1>2 DEF Refuse, Load, Validate, EndTypes, EndItems, Fresh
<1>3. CASE \E t \in Type : AskType(t) \/ FailType(t) \/ ListType(t)
  BY <1>1, <1>3 DEF AskType, FailType, ListType
<1>4. CASE \E t \in Type : FetchIds(t)
  BY <1>4, FetchBudget
<1>5. CASE \/ \E i \in todo : ImportItem(i) \/ DeleteItem(i) \/ ApplyItem(i) \/ ResetItem(i)
           \/ \E t \in Type : ResetType(t)
  BY <1>1, <1>5 DEF ImportItem, DeleteItem, ApplyItem, ResetItem, Delete, ResetType
<1>6. CASE Abort \/ SkipSave
  BY <1>1, <1>6 DEF Abort, SkipSave
<1>7. CASE Save
  <2>1. UNCHANGED transient /\ phase' # "types"
    BY <1>7, StartTypes DEF Save, Places, TypeInv
  <2>2. QED
    BY <1>1, <2>1
<1>8. CASE \/ BeginCleanup \/ EndCleanup \/ EndApply \/ Alias \/ EndReset
  BY <1>1, <1>8 DEF BeginCleanup, EndCleanup, EndApply, Alias, EndReset
<1>9. CASE Interrupt
  BY <1>1, <1>9 DEF Interrupt
<1>10. CASE UNCHANGED vars
  BY <1>1, <1>10 DEF vars
<1>11. QED
  BY <1>2, <1>3, <1>4, <1>5, <1>6, <1>7, <1>8, <1>9, <1>10 DEF Next, Step, Ended


-----------------------------------------------------------------------------
(* What an exit leaves in the files.                                       *)

\* An import or a migrate ends with its memory in the source files, a reset with
\* what it deletes in the backup.
LEMMA SavedStep == TypeInv /\ Places /\ Fresh /\ Saved /\ [Next]_vars => Saved'
<1> SUFFICES ASSUME TypeInv, Places, Fresh, Saved, [Next]_vars PROVE Saved'
  OBVIOUS
<1>0. UNCHANGED start /\ o' = o
  BY LoggedStep DEF o
<1> USE <1>0 DEF Saved, Places
<1>1. CASE \/ Refuse \/ Load \/ Validate \/ EndTypes \/ EndItems
  BY <1>1 DEF Refuse, Load, Validate, EndTypes, EndItems
<1>2. CASE \E t \in Type : AskType(t) \/ FailType(t) \/ ListType(t) \/ FetchIds(t)
  BY <1>2 DEF AskType, FailType, ListType, FetchIds
<1>3. CASE \E i \in todo : ImportItem(i) \/ DeleteItem(i) \/ ApplyItem(i)
  BY <1>3 DEF ImportItem, DeleteItem, ApplyItem, Delete
<1>4. CASE Abort
  BY <1>4, WrittenKeeps DEF Abort, SavedFatal, PutSource, SourcePath
<1>5. CASE Save
  <2>1. /\ UNCHANGED <<source, dest, todo>>
        /\ \/ /\ PutSource(Written(SourcePath, source))
              /\ phase' \in {"ended", "cleanup", "alias"}
           \/ phase' = "ended" /\ end' = "crashed"
    BY <1>5, StartTypes DEF Save, TypeInv
  <2>2. PutSource(Written(SourcePath, source))
          => source \subseteq IF o.cmd = "reset" THEN backup' ELSE srcFile'
    BY WrittenKeeps DEF PutSource
  <2>3. QED
    BY <2>1, <2>2
<1>6. CASE SkipSave
  BY <1>6 DEF SkipSave, Saves
<1>7. CASE \/ BeginCleanup \/ EndCleanup
  BY <1>7 DEF BeginCleanup, EndCleanup
<1>8. CASE EndApply
  BY <1>8, WrittenKeeps DEF EndApply, DumpAll, PutSource, SourcePath
<1>9. CASE Alias
  BY <1>9 DEF Alias, Fresh
<1>10. CASE \E t \in Type : ResetType(t)
  BY <1>10 DEF ResetType, OfTypes
<1>11. CASE \E i \in todo : ResetItem(i)
  BY <1>11 DEF ResetItem, Delete
<1>12. CASE EndReset
  BY <1>12 DEF EndReset
<1>13. CASE Interrupt
  BY <1>13 DEF Interrupt
<1>14. CASE UNCHANGED vars
  BY <1>14 DEF vars
<1>15. QED
  BY <1>1, <1>2, <1>3, <1>4, <1>5, <1>6, <1>7, <1>8, <1>9, <1>10, <1>11, <1>12,
     <1>13, <1>14 DEF Next, Step, Ended

-----------------------------------------------------------------------------
(* Cleanup and apply.                                                      *)

\* A forced cleanup is refused unless all of the destination files is loaded
\* that is of the types of the command.
LEMMA LoadedAll ==
  ASSUME start \in Starts, ~Refused(o), Syncs, o.cleanup = "force", NEW files, NEW state
  PROVE  OfTypes(ResourcesArg(o, state), files) \subseteq Loaded(o, files)
<1>1. ~o.skipLoad /\ ~IdTargeted(o)
  BY DEF Refused, RefusedSkipLoad, RefusedCleanup, Syncs
<1>2. CASE o.minimize
  <2>1. o.resources # {}
    BY <1>2 DEF Refused, RefusedMinimize
  <2>2. QED
    BY <1>1, <1>2, <2>1 DEF Loaded, ResourcesArg, OfTypes
<1>3. CASE ~o.minimize
  BY <1>1, <1>3 DEF Loaded, OfTypes
<1>4. QED
  BY <1>2, <1>3

LEMMA CleanedStep == TypeInv /\ Places /\ Fresh /\ Cleaned /\ Applied /\ [Next]_vars => Cleaned'
<1> SUFFICES ASSUME TypeInv, Places, Fresh, Cleaned, Applied, [Next]_vars,
                    Syncs, o.cleanup = "force"
             PROVE  Cleaned'
  <2>1. TypeInv /\ [Next]_vars => o' = o
    BY LoggedStep DEF o
  <2>2. QED
    BY <2>1 DEF Cleaned, Syncs
<1>0. UNCHANGED start /\ (logged => logged') /\ o' = o
  BY LoggedStep DEF o
<1> USE <1>0 DEF Cleaned, Places, Syncs
<1>1. CASE Refuse
  BY <1>1 DEF Refuse
<1>2. CASE Load
  <2>1. OfTypes(types', destFile) \subseteq dest'
    BY <1>2, LoadedAll DEF Load, TypeInv
  <2>2. QED
    BY <1>2, <2>1 DEF Load
<1>3. CASE \/ Validate \/ EndTypes \/ EndItems
  BY <1>3 DEF Validate, EndTypes, EndItems
<1>4. CASE \E t \in Type : AskType(t) \/ FailType(t) \/ ListType(t) \/ FetchIds(t)
  BY <1>4 DEF AskType, FailType, ListType, FetchIds
<1>5. CASE \E i \in todo : ImportItem(i)
  BY <1>5 DEF ImportItem
<1>6. CASE Abort \/ SkipSave
  BY <1>6 DEF Abort, SkipSave, Saves
<1>7. CASE Save
  <2>1. /\ UNCHANGED <<types, dest, destFile, deleted>>
        /\ phase = "save" /\ \/ phase' = "cleanup" /\ UNCHANGED end
                             \/ phase' = "ended" /\ end' = "crashed"
    BY <1>7, StartTypes DEF Save, TypeInv
  <2>2. QED
    BY <2>1
<1>8. CASE BeginCleanup
  <2>1. todo' = OfTypes(types, dest \ source)
    BY <1>8, CleanupTodo DEF Cleanup
  <2>2. /\ UNCHANGED <<types, dest, source, destFile, deleted, end>>
        /\ phase = "cleanup" /\ phase' = "delete"
    BY <1>8 DEF BeginCleanup
  <2>3. OfTypes(types, dest) \subseteq source \cup todo'
    BY <2>1 DEF OfTypes
  <2>4. QED
    BY <2>2, <2>3
<1>9. CASE \E i \in todo : DeleteItem(i)
  <2>1. PICK i \in todo : DeleteItem(i)
    BY <1>9
  <2>2. /\ UNCHANGED <<phase, types, source, destFile, end>>
        /\ phase = "delete" /\ todo' = todo \ {i}
    BY <2>1 DEF DeleteItem, Delete
  <2>3. \/ dest' = dest \ {i} /\ deleted' = deleted \cup {i}
        \/ i \in Undeletable /\ UNCHANGED <<dest, deleted>>
        \/ logged' = TRUE /\ UNCHANGED <<dest, deleted>>
    BY <2>1 DEF DeleteItem, Delete
  <2>4. OfTypes(types, destFile) \subseteq dest' \cup deleted'
    BY <2>2, <2>3
  <2>5. logged' \/ OfTypes(types, dest') \subseteq source \cup todo' \cup Undeletable
    BY <2>2, <2>3 DEF OfTypes
  <2>6. QED
    BY <2>2, <2>4, <2>5
<1>10. CASE EndCleanup
  <2>1. /\ UNCHANGED <<types, source, dest, destFile, deleted, end>>
        /\ phase = "delete" /\ phase' = "apply" /\ todo = {}
    BY <1>10 DEF EndCleanup
  <2>2. QED
    BY <2>1
<1>11. CASE \E i \in todo : ApplyItem(i)
  <2>1. PICK i \in todo : ApplyItem(i)
    BY <1>11
  <2>2. /\ UNCHANGED <<phase, types, source, destFile, deleted, end>>
        /\ phase = "apply" /\ (dest' = dest \cup {i} \/ UNCHANGED dest)
    BY <2>1 DEF ApplyItem
  <2>3. i \in source
    BY <2>1, <2>2 DEF Applied
  <2>4. logged \/ OfTypes(types, dest') \subseteq source \cup Undeletable
    BY <2>2, <2>3 DEF OfTypes
  <2>5. QED
    BY <2>2, <2>4
<1>12. CASE EndApply
  <2>1. /\ UNCHANGED <<types, source, dest, deleted, logged>>
        /\ phase = "apply" /\ phase' = "ended"
        /\ end' = "finished" => destFile' = Written(destFile, dest)
    BY <1>12 DEF EndApply, DumpAll
  <2>2. OfTypes(types, Written(destFile, dest))
          \subseteq OfTypes(types, destFile) \cup OfTypes(types, dest)
    BY DEF Written, OfTypes
  <2>3. OfTypes(types, destFile) \subseteq OfTypes(types, dest) \cup deleted
    BY <2>1 DEF OfTypes
  <2>4. logged \/ OfTypes(types, dest) \subseteq source \cup Undeletable
    BY <2>1
  <2>5. QED
    BY <2>1, <2>2, <2>3, <2>4
<1>13. CASE \/ Alias \/ EndReset
            \/ \E i \in todo : ResetItem(i)
            \/ \E t \in Type : ResetType(t)
  BY <1>13 DEF Alias, EndReset, ResetItem, ResetType
<1>14. CASE Interrupt
  BY <1>14 DEF Interrupt
<1>15. CASE UNCHANGED vars
  BY <1>15 DEF vars
<1>16. QED
  BY <1>1, <1>2, <1>3, <1>4, <1>5, <1>6, <1>7, <1>8, <1>9, <1>10, <1>11, <1>12,
     <1>13, <1>14, <1>15 DEF Next, Step, Ended

\* What is to be synced is in the queue, in memory or skipped, or its failure was
\* logged.
LEMMA AppliedStep == TypeInv /\ Places /\ Applied /\ [Next]_vars => Applied'
<1> SUFFICES ASSUME TypeInv, Places, Applied, [Next]_vars PROVE Applied'
  OBVIOUS
<1>0. /\ UNCHANGED start /\ (logged => logged') /\ o' = o
      /\ \A i : Passes(i)' = Passes(i)
  BY LoggedStep DEF o, Passes
<1>1. UNCHANGED <<types, source>> => ToSync' = ToSync
  BY <1>0 DEF ToSync, OfTypes
<1> USE <1>0 DEF Applied, Places, Syncs
<1>2. CASE \/ Refuse \/ Load \/ Validate \/ EndTypes \/ EndItems
  BY <1>2 DEF Refuse, Load, Validate, EndTypes, EndItems
<1>3. CASE \E t \in Type : AskType(t) \/ FailType(t) \/ ListType(t) \/ FetchIds(t)
  BY <1>3 DEF AskType, FailType, ListType, FetchIds
<1>4. CASE \E i \in todo : ImportItem(i) \/ DeleteItem(i)
  BY <1>4 DEF ImportItem, DeleteItem, Delete
<1>5. CASE \/ Abort \/ SkipSave \/ BeginCleanup \/ Alias
  BY <1>5 DEF Abort, SkipSave, BeginCleanup, Alias
<1>6. CASE Save
  BY <1>6, StartTypes DEF Save, TypeInv
<1>7. CASE EndCleanup
  <2>1. /\ UNCHANGED <<types, source, end>> /\ phase = "delete" /\ phase' = "apply"
        /\ todo' = ToSync
    BY <1>7 DEF EndCleanup, ToSync
  <2>2. ToSync \subseteq source
    BY DEF ToSync, OfTypes
  <2>3. QED
    BY <1>1, <2>1, <2>2
<1>8. CASE \E i \in todo : ApplyItem(i)
  <2>1. PICK i \in todo : ApplyItem(i)
    BY <1>8
  <2>2. /\ UNCHANGED <<phase, types, source, end>> /\ phase = "apply" /\ todo' = todo \ {i}
        /\ \/ dest' = dest \cup {i} /\ UNCHANGED skipped
           \/ logged' = TRUE
           \/ skipped' = skipped \cup {i} /\ UNCHANGED dest
    BY <2>1 DEF ApplyItem
  <2>3. QED
    BY <1>1, <2>2
<1>9. CASE EndApply
  <2>1. /\ UNCHANGED <<types, source, dest, logged, skipped>> /\ phase = "apply" /\ todo = {}
        /\ phase' = "ended" /\ (end' = "finished" => destFile' = Written(destFile, dest))
    BY <1>9 DEF EndApply, DumpAll
  <2>2. ToSync \subseteq source
    BY DEF ToSync, OfTypes
  <2>3. QED
    BY <1>1, <2>1, <2>2, WrittenKeeps
<1>10. CASE \/ EndReset
            \/ \E i \in todo : ResetItem(i)
            \/ \E t \in Type : ResetType(t)
  BY <1>10 DEF EndReset, ResetItem, ResetType, Delete
<1>11. CASE Interrupt
  BY <1>11 DEF Interrupt
<1>12. CASE UNCHANGED vars
  BY <1>1, <1>12 DEF vars
<1>13. QED
  BY <1>2, <1>3, <1>4, <1>5, <1>6, <1>7, <1>8, <1>9, <1>10, <1>11, <1>12
     DEF Next, Step, Ended


-----------------------------------------------------------------------------
(* The theorems.                                                           *)

Inv ==
  /\ TypeInv /\ Places /\ Fresh /\ Counted /\ Collected /\ Complete /\ Budget
  /\ Saved /\ Cleaned /\ Applied

LEMMA InitInv == Init => Inv
<1> SUFFICES ASSUME Init PROVE Inv
  OBVIOUS
<1> USE DEF Init
<1>1. TypeInv
  BY InitTypes
<1>2. Places /\ Fresh /\ Counted /\ Collected /\ Complete /\ Saved /\ Cleaned /\ Applied
  BY DEF Places, Fresh, Counted, Collected, Complete, Saved, Cleaned, Applied
<1>3. Budget
  BY DEF Budget, WithinBudget, OfTypes
<1>4. QED
  BY <1>1, <1>2, <1>3 DEF Inv

LEMMA InvStep == Inv /\ [Next]_vars => Inv'
  BY StepTypes, PlacesStep, FreshStep, CountedStep, CollectedStep, CompleteStep,
     BudgetStep, SavedStep, CleanedStep, AppliedStep DEF Inv

THEOREM Invariant == Spec => []Inv
  BY InitInv, InvStep, PTL DEF Spec

\* Every variable keeps its type.
THEOREM TypeOKCorrect == Spec => []TypeOK
<1>1. Inv => TypeOK
  BY DEF Inv, TypeInv, TypeOK
<1>2. QED
  BY <1>1, Invariant, PTL

\* A command that ends, gives up because of throttling included, leaves in the
\* files everything its import had in memory.
THEOREM NothingFetchedIsLostCorrect == Spec => []NothingFetchedIsLost
<1>1. Inv => NothingFetchedIsLost
  <2> SUFFICES ASSUME Inv, end \in {"fatal", "finished"}, o.cmd # "sync", Saves
               PROVE  source \subseteq SourcePath
    BY DEF NothingFetchedIsLost
  <2>1. o.cmd \in {"import", "migrate", "reset"}
    BY StartTypes DEF Inv, TypeInv
  <2>2. QED
    BY <2>1 DEF Inv, Saved, SourcePath, Saves
<1>2. QED
  BY <1>1, Invariant, PTL

\* An exit status of 0 means that every wanted resource is in the source files, but
\* for ids that were refused and fewer than the threshold that were throttled, and
\* that it is in the destination files unless its model skipped it.
THEOREM CleanExitIsCompleteCorrect == Spec => []CleanExitIsComplete
<1>1. Inv => CleanExitIsComplete
  <2> SUFFICES ASSUME Inv, end = "finished", ExitCode = 0 PROVE CleanExitIsComplete
    BY DEF CleanExitIsComplete
  <2>1. ~logged
    BY DEF ExitCode, Inv, TypeInv
  <2>2. o.cmd \in {"import", "migrate"} => Wanted \ (transient \cup permanent) \subseteq srcFile
    BY <2>1 DEF Inv, Collected, Reachable
  <2>3. \A t \in types : WithinBudget(t)
    BY <2>1 DEF Inv, Budget, TypeInv
  <2>4. o.cmd \in {"sync", "migrate"}
          => {i \in OfTypes(types, source) : Passes(i)} \ destFile \subseteq skipped
    BY <2>1 DEF Inv, Applied, Syncs, ToSync
  <2>5. QED
    BY <2>2, <2>3, <2>4 DEF CleanExitIsComplete, WithinBudget
<1>2. QED
  BY <1>1, Invariant, PTL

\* A forced cleanup that exits with 0 leaves no orphan of the types of the command.
THEOREM CleanupIsTotalCorrect == Spec => []CleanupIsTotal
<1>1. Inv => CleanupIsTotal
  <2> SUFFICES ASSUME Inv, end = "finished", ExitCode = 0, Syncs, Cleanup(o) = "force"
               PROVE  OfTypes(types, destFile) \subseteq source \cup deleted \cup Undeletable
    BY DEF CleanupIsTotal, Syncs
  <2>1. ~logged
    BY DEF ExitCode, Inv, TypeInv
  <2>2. o.cleanup = "force"
    BY DEF Cleanup, Syncs
  <2>3. QED
    BY <2>1, <2>2 DEF Inv, Cleaned
<1>2. QED
  BY <1>1, Invariant, PTL

\* A step that prunes source files prunes what the org does not have, or what is
\* not to be synced.
THEOREM OnlyStalePrunedCorrect == Spec => OnlyStalePruned
<1> DEFINE Stale ==
      o.perFile =>
        \A i \in srcFile \ srcFile' : i \notin org \/ i \in unwanted \/ ~Passes(i)
<1>1. Inv /\ [Next]_vars => [Stale]_vars
  <2> SUFFICES ASSUME Inv, Next, o.perFile,
                      NEW i \in srcFile \ srcFile', i \in org, i \notin unwanted, Passes(i)
               PROVE  FALSE
    BY DEF vars
  <2>1. PutSource(Written(SourcePath, source)) => FALSE
    BY DEF PutSource, Written, SourcePath, Inv, Complete
  <2>2. ASSUME NEW content \in Interrupted(SourcePath, source)
        PROVE  ~PutSource(content)
    BY DEF PutSource, Interrupted, SourcePath
  <2>3. srcFile' \notin Interrupted(srcFile, source)
    BY DEF Interrupted
  <2>4. srcFile' # srcFile
    OBVIOUS
  <2>5. ~Abort
    BY <2>1, <2>2 DEF Abort, SavedFatal
  <2>6. ~Save
    BY <2>1, <2>2 DEF Save
  <2>7. ~EndApply
    BY <2>1, <2>3 DEF EndApply, DumpAll
  <2>8. ~Interrupt
    BY <2>1, <2>4 DEF Interrupt, DumpAll
  <2>9. ~(Refuse \/ Load \/ Validate \/ EndTypes \/ EndItems \/ SkipSave)
    BY <2>4 DEF Refuse, Load, Validate, EndTypes, EndItems, SkipSave
  <2>10. ~(BeginCleanup \/ EndCleanup \/ Alias \/ EndReset \/ UNCHANGED vars)
    BY <2>4 DEF BeginCleanup, EndCleanup, Alias, EndReset, vars
  <2>11. ~\E t \in Type : AskType(t) \/ FailType(t) \/ ListType(t) \/ FetchIds(t) \/ ResetType(t)
    BY <2>4 DEF AskType, FailType, ListType, FetchIds, ResetType
  <2>12. ~\E j \in todo : ImportItem(j) \/ DeleteItem(j) \/ ApplyItem(j) \/ ResetItem(j)
    BY <2>4 DEF ImportItem, DeleteItem, ApplyItem, ResetItem, Delete
  <2>13. QED
    BY <2>5, <2>6, <2>7, <2>8, <2>9, <2>10, <2>11, <2>12 DEF Next, Step, Ended
<1>2. QED
  BY <1>1, Invariant, PTL DEF Spec, OnlyStalePruned

\* A step that deletes a resource in a reset with a backup finds it there.
THEOREM ResetBackedUpCorrect == Spec => ResetBackedUp
<1> DEFINE BackedUp == (o.cmd = "reset" /\ o.backup) => deleted' \ deleted \subseteq backup
<1>1. Inv /\ [Next]_vars => [BackedUp]_vars
  <2> SUFFICES ASSUME Inv, Next, o.cmd = "reset", o.backup, deleted' # deleted
               PROVE  deleted' \ deleted \subseteq backup
    BY DEF vars
  <2>1. CASE \E i \in todo : ResetItem(i)
    BY <2>1 DEF ResetItem, Delete, Inv, Saved
  <2>2. ~\E i \in todo : DeleteItem(i)
    BY DEF DeleteItem, Inv, Places
  <2>3. ~(Refuse \/ Load \/ Validate \/ EndTypes \/ EndItems \/ SkipSave)
    BY DEF Refuse, Load, Validate, EndTypes, EndItems, SkipSave
  <2>4. ~(Abort \/ Save \/ EndApply \/ Interrupt)
    BY DEF Abort, Save, EndApply, Interrupt
  <2>5. ~(BeginCleanup \/ EndCleanup \/ Alias \/ EndReset \/ UNCHANGED vars)
    BY DEF BeginCleanup, EndCleanup, Alias, EndReset, vars
  <2>6. ~\E t \in Type : AskType(t) \/ FailType(t) \/ ListType(t) \/ FetchIds(t) \/ ResetType(t)
    BY DEF AskType, FailType, ListType, FetchIds, ResetType
  <2>7. ~\E j \in todo : ImportItem(j) \/ ApplyItem(j)
    BY DEF ImportItem, ApplyItem
  <2>8. QED
    BY <2>1, <2>2, <2>3, <2>4, <2>5, <2>6, <2>7 DEF Next, Step, Ended
<1>2. QED
  BY <1>1, Invariant, PTL DEF Spec, ResetBackedUp
=============================================================================
