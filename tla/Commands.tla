------------------------------ MODULE Commands ------------------------------
(***************************************************************************)
(* One process of the tool, from its options to its exit: run_cmd and      *)
(* ResourcesHandler.import_resources, apply_resources and reset, for any   *)
(* set of types, with the ids of --id-file, the exact-id filters of        *)
(* --minimize-reads, a failing API, a failing storage and ^C.              *)
(*                                                                         *)
(* BuildConfig says what the options mean.  Apply and cleanup are reduced  *)
(* to their effect on one resource at a time (ApplyResources and           *)
(* CleanupResources), missing dependencies and lazily loaded ones are left *)
(* to MissingDependencies and LazyState, and histories of commands to      *)
(* StateLifecycle.  Files are reduced to the entries they hold.            *)
(***************************************************************************)
EXTENDS BuildConfig

CONSTANTS
  Starts,      \* the circumstances in which a command may start, see below
  Undeletable, \* resources that no model deletes: built-in roles and the like
  Unwritable,  \* those that their model may refuse to create or to update
  Faults       \* the API and the storage may fail

Start ==
  [option   : Option,
   org      : SUBSET Item,  \* what the organization that is imported has
   unwanted : SUBSET Item,  \* those that their model refuses to import
   src      : SUBSET Item,  \* the source files, and the destination files
   dest     : SUBSET Item]

ASSUME CommandsAssumption ==
  /\ Starts \subseteq Start
  /\ \A s \in Starts : \A t \in Type : IsFiniteSet(s.option.idFile[t])
  /\ {Undeletable, Unwritable} \subseteq SUBSET Item
  /\ Faults \in BOOLEAN

VARIABLES
  start,          \* a member of Starts
  phase,          \* where the command is
  end,            \* how it ended
  types,          \* config.resources_arg
  source, dest,   \* state.source and state.destination
  authoritative,  \* _authoritative_source_types
  srcFile, destFile, backup,  \* the files, and those below .backup
  waiting, asked, \* types in the work queue, and with a worker
  todo,           \* resources in the work queue
  failed,         \* the counters of the import have a failure
  logged,         \* an error was logged
  fatal,          \* config.fatal_error
  transient, permanent,  \* ids of --id-file whose GET failed
  skipped,        \* what its model refused to apply
  deleted         \* what the command deleted from the destination org

memVars   == <<source, dest, authoritative>>
fileVars  == <<srcFile, destFile, backup>>
queueVars == <<waiting, asked, todo>>
faultVars == <<failed, logged, fatal, transient, permanent, skipped>>
vars == <<start, phase, end, types, memVars, fileVars, queueVars, faultVars,
          deleted>>

o        == start.option
org      == start.org
unwanted == start.unwanted

\* The filter of the type lets the resource through.
Passes(i) == o.filter[i[1]] = {} \/ i[2] \in o.filter[i[1]]
OfTypes(T, items) == {i \in items : i[1] \in T}

Init ==
  /\ start \in Starts
  /\ phase = "config" /\ end = "not yet"
  /\ types = {}
  /\ source = {} /\ dest = {} /\ authoritative = {}
  /\ srcFile = start.src /\ destFile = start.dest /\ backup = {}
  /\ waiting = {} /\ asked = {} /\ todo = {}
  /\ failed = FALSE /\ logged = FALSE /\ fatal = FALSE
  /\ transient = {} /\ permanent = {} /\ skipped = {}
  /\ deleted = {}

Goto(p) == phase' = p /\ UNCHANGED end
End(how) == phase' = "ended" /\ end' = how

-----------------------------------------------------------------------------
(* build_config and init_async.                                            *)

Refuse ==
  /\ phase = "config" /\ Refused(o)
  /\ End("refused")
  /\ UNCHANGED <<start, types, memVars, fileVars, queueVars, faultVars,
                 deleted>>

\* The source path of a reset is a directory of its own, empty so far.
Load ==
  /\ phase = "config" /\ ~Refused(o)
  /\ source' = IF o.cmd = "reset" THEN {} ELSE Loaded(o, srcFile)
  /\ dest' = Loaded(o, destFile)
  /\ types' = ResourcesArg(o, source' \cup dest')
  /\ Goto("validate")
  /\ UNCHANGED <<start, authoritative, fileVars, queueVars, faultVars, deleted>>

Validate ==
  /\ phase = "validate"
  /\ \/ /\ o.cmd = "sync" /\ Goto("cleanup")
        /\ UNCHANGED waiting
     \/ /\ o.cmd # "sync" /\ Goto("types")
        /\ waiting' = types
     \/ Faults /\ End("invalid") /\ UNCHANGED waiting
  /\ UNCHANGED <<start, types, memVars, fileVars, asked, todo, faultVars,
                 deleted>>

-----------------------------------------------------------------------------
(* import_resources_without_saving: the types, then the resources.         *)

\* A worker takes the type and clears it before it asks the API.
AskType(t) ==
  /\ phase = "types" /\ t \in waiting
  /\ waiting' = waiting \ {t}
  /\ asked' = asked \cup {t}
  /\ source' = {i \in source : i[1] # t}
  /\ UNCHANGED <<start, phase, end, types, dest, authoritative, fileVars, todo,
                 faultVars, deleted>>

ById(t) == t \in Fetchable /\ o.idFile[t] # {}
Requested(t) == {t} \X o.idFile[t]

\* The semaphore admits a GET, and so all of them in the end.
Readable(t) == ById(t) => o.reads > 0

\* The whole type fails: its list, or what collects the GETs.
FailType(t) ==
  /\ Faults /\ phase = "types" /\ t \in asked /\ Readable(t)
  /\ asked' = asked \ {t}
  /\ failed' = TRUE /\ logged' = TRUE
  /\ UNCHANGED <<start, phase, end, types, memVars, fileVars, waiting, todo,
                 fatal, transient, permanent, skipped, deleted>>

ListType(t) ==
  /\ phase = "types" /\ t \in asked /\ ~ById(t)
  /\ asked' = asked \ {t}
  /\ todo' = todo \cup OfTypes({t}, org)
  /\ UNCHANGED <<start, phase, end, types, memVars, fileVars, waiting,
                 faultVars, deleted>>

Throttled_Above(t, errored) ==
  /\ errored # {}
  /\ Cardinality(errored) * 100 > o.threshold * Cardinality(o.idFile[t])

\* The budget of transient failures is used up.
Throttled(t, errored) ==
  /\ errored # {}
  /\ Cardinality(errored) * 100 >= o.threshold * Cardinality(o.idFile[t])

\* get_resources_by_ids.  An id that is not in the org and one that the model
\* refuses are skipped; failed ids are counted, and not logged.
FetchIds(t) ==
  /\ phase = "types" /\ t \in asked /\ ById(t) /\ Readable(t)
  /\ asked' = asked \ {t}
  /\ \E lost, broken \in IF Faults THEN SUBSET Requested(t) ELSE {{}} :
       /\ lost \cap broken = {}
       /\ todo' = todo \cup (((Requested(t) \cap org) \ unwanted)
                             \ (lost \cup broken))
       /\ transient' = transient \cup lost
       /\ permanent' = permanent \cup broken
       /\ failed' = (failed \/ lost \cup broken # {})
       /\ fatal' = (fatal \/ Throttled(t, lost))
       /\ logged' = (logged \/ Throttled(t, lost))
  /\ UNCHANGED <<start, phase, end, types, memVars, fileVars, waiting, skipped,
                 deleted>>

EndTypes ==
  /\ phase = "types" /\ waiting = {} /\ asked = {}
  /\ Goto("items")
  /\ UNCHANGED <<start, types, memVars, fileVars, queueVars, faultVars, deleted>>

\* Stored, filtered out, skipped, or failed.
ImportItem(i) ==
  /\ phase = "items" /\ i \in todo
  /\ todo' = todo \ {i}
  /\ \/ /\ Passes(i) /\ i \notin unwanted
        /\ source' = source \cup {i}
        /\ UNCHANGED <<failed, logged>>
     \/ /\ ~(Passes(i) /\ i \notin unwanted)
        /\ UNCHANGED <<source, failed, logged>>
     \/ /\ Faults /\ Passes(i)
        /\ failed' = TRUE /\ logged' = TRUE
        /\ UNCHANGED source
  /\ UNCHANGED <<start, phase, end, types, dest, authoritative, fileVars,
                 waiting, asked, fatal, transient, permanent, skipped, deleted>>

Trusted_All == types

\* Types that --id-file scopes are only partly in the source state.
Trusted == types \ Keys(o.idFile)

EndItems ==
  /\ phase = "items" /\ todo = {}
  /\ authoritative' = IF failed THEN {} ELSE Trusted
  /\ Goto("save")
  /\ UNCHANGED <<start, types, source, dest, fileVars, queueVars, faultVars,
                 deleted>>

-----------------------------------------------------------------------------
(* Files.                                                                  *)

\* dump_state: the entries in memory are written, and with a file for each of
\* them those that went from an authoritative type are deleted.
Written(files, entries) ==
  IF o.perFile
    THEN {i \in files \cup entries : i[1] \in authoritative => i \in source}
    ELSE entries

\* The storage fails after some files.
Interrupted(files, entries) ==
  IF o.perFile
    THEN {files \cup some : some \in SUBSET entries}
    ELSE {OfTypes(T, entries) \cup OfTypes(Type \ T, files)
            : T \in SUBSET Type}

\* The source path, which for a reset is the one of the backup.
SourcePath == IF o.cmd = "reset" THEN backup ELSE srcFile

PutSource(content) ==
  IF o.cmd = "reset" THEN backup' = content /\ UNCHANGED srcFile
                     ELSE srcFile' = content /\ UNCHANGED backup

SavedFatal_Never == SourcePath

\* What was fetched is written before a fatal exit.
SavedFatal == Written(SourcePath, source)

Saves_NotReset == o.cmd # "reset"

\* reset --do-not-backup imports without saving.
Saves == o.cmd # "reset" \/ o.backup

\* sys.exit(1), even when the storage fails.
Abort ==
  /\ phase = "save" /\ fatal
  /\ \/ /\ PutSource(SavedFatal)
        /\ End("fatal")
     \/ /\ Faults
        /\ \E content \in Interrupted(SourcePath, source) : PutSource(content)
        /\ End("fatal unsaved")
  /\ UNCHANGED <<start, types, memVars, destFile, queueVars, faultVars, deleted>>

Save ==
  /\ phase = "save" /\ ~fatal /\ Saves
  /\ \/ /\ PutSource(Written(SourcePath, source))
        /\ CASE o.cmd = "import"  -> End("finished")
             [] o.cmd = "migrate" -> Goto("cleanup")
             [] o.cmd = "reset"   -> Goto("alias")
     \/ /\ Faults
        /\ \E content \in Interrupted(SourcePath, source) : PutSource(content)
        /\ End("crashed")
  /\ UNCHANGED <<start, types, memVars, destFile, queueVars, faultVars, deleted>>

SkipSave ==
  /\ phase = "save" /\ ~fatal /\ ~Saves
  /\ Goto("alias")
  /\ UNCHANGED <<start, types, memVars, fileVars, queueVars, faultVars, deleted>>

-----------------------------------------------------------------------------
(* apply_resources, for sync and migrate.                                  *)

BeginCleanup ==
  /\ phase = "cleanup"
  /\ LET orphans == OfTypes(types, dest \ source)
     IN todo' \in CASE Cleanup(o) = "force" -> {orphans}
                    [] Cleanup(o) = "true"  -> {orphans, {}}  \* the prompt
                    [] Cleanup(o) = "false" -> {{}}
  /\ Goto("delete")
  /\ UNCHANGED <<start, types, memVars, fileVars, waiting, asked, faultVars,
                 deleted>>

\* A failure is logged and a skip is not; the entry goes when the resource
\* does.
Delete(i, sameDict) ==
  /\ todo' = todo \ {i}
  /\ \/ /\ i \notin Undeletable
        /\ dest' = dest \ {i}
        /\ source' = IF sameDict THEN source \ {i} ELSE source
        /\ deleted' = deleted \cup {i}
        /\ UNCHANGED logged
     \/ /\ i \in Undeletable
        /\ UNCHANGED <<dest, source, deleted, logged>>
     \/ /\ Faults /\ i \notin Undeletable
        /\ logged' = TRUE
        /\ UNCHANGED <<dest, source, deleted>>
  /\ UNCHANGED <<start, phase, end, types, authoritative, fileVars, waiting,
                 asked, failed, fatal, transient, permanent, skipped>>

DeleteItem(i) == phase = "delete" /\ i \in todo /\ Delete(i, FALSE)

EndCleanup ==
  /\ phase = "delete" /\ todo = {}
  /\ todo' = {i \in OfTypes(types, source) : Passes(i)}
  /\ Goto("apply")
  /\ UNCHANGED <<start, types, memVars, fileVars, waiting, asked, faultVars,
                 deleted>>

\* Written, or equal to what the destination has; failed; or refused by its model
\* with a SkipResource, which is no error (RH:539).  A membership that exists
\* already, a built-in role that does not and a downtime that is over get no entry.
ApplyItem(i) ==
  /\ phase = "apply" /\ i \in todo
  /\ todo' = todo \ {i}
  /\ \/ dest' = dest \cup {i} /\ UNCHANGED <<logged, skipped>>
     \/ Faults /\ logged' = TRUE /\ UNCHANGED <<dest, skipped>>
     \/ /\ i \in Unwritable
        /\ skipped' = skipped \cup {i}
        /\ UNCHANGED <<dest, logged>>
  /\ UNCHANGED <<start, phase, end, types, source, authoritative, fileVars,
                 waiting, asked, failed, fatal, transient, permanent, deleted>>

\* dump_state, of both origins.
DumpAll ==
  /\ PutSource(Written(SourcePath, source))
  /\ destFile' = Written(destFile, dest)

EndApply ==
  /\ phase = "apply" /\ todo = {}
  /\ \/ DumpAll /\ End("finished")
     \/ /\ Faults
        /\ srcFile' \in Interrupted(srcFile, source)
        /\ End("crashed")
        /\ UNCHANGED <<destFile, backup>>
     \/ /\ Faults
        /\ srcFile' = IF o.perFile THEN srcFile \cup source ELSE source
        /\ destFile' \in Interrupted(destFile, dest)
        /\ End("crashed")
        /\ UNCHANGED backup
  /\ UNCHANGED <<start, types, memVars, queueVars, faultVars, deleted>>

-----------------------------------------------------------------------------
(* reset.                                                                  *)

\* From here state.source and state.destination are one dict.
Alias ==
  /\ phase = "alias"
  /\ dest' = source
  /\ waiting' = types
  /\ Goto("reset")
  /\ UNCHANGED <<start, types, source, authoritative, fileVars, asked, todo,
                 faultVars, deleted>>

\* The prompt for one type, after the deletions of the one before.
ResetType(t) ==
  /\ phase = "reset" /\ todo = {} /\ t \in waiting
  /\ waiting' = waiting \ {t}
  /\ todo' \in {OfTypes({t}, dest), {}}
  /\ UNCHANGED <<start, phase, end, types, memVars, fileVars, asked, faultVars,
                 deleted>>

ResetItem(i) == phase = "reset" /\ i \in todo /\ Delete(i, TRUE)

EndReset ==
  /\ phase = "reset" /\ waiting = {} /\ todo = {}
  /\ End("finished")
  /\ UNCHANGED <<start, types, memVars, fileVars, queueVars, faultVars, deleted>>

-----------------------------------------------------------------------------

Running == phase \in {"types", "items", "delete", "apply", "reset"}

\* run_cmd on KeyboardInterrupt; an import writes nothing.
Interrupt ==
  /\ Running
  /\ IF o.cmd = "import" THEN UNCHANGED fileVars ELSE DumpAll
  /\ End("interrupted")
  /\ UNCHANGED <<start, types, memVars, queueVars, faultVars, deleted>>

Step ==
  \/ Refuse \/ Load \/ Validate
  \/ \E t \in Type : AskType(t) \/ FailType(t) \/ ListType(t) \/ FetchIds(t)
  \/ EndTypes
  \/ \E i \in todo : ImportItem(i)
  \/ EndItems \/ Abort \/ Save \/ SkipSave
  \/ BeginCleanup \/ EndCleanup \/ EndApply
  \/ \E i \in todo : DeleteItem(i) \/ ApplyItem(i) \/ ResetItem(i)
  \/ Alias \/ EndReset
  \/ \E t \in Type : ResetType(t)

\* The exit status of the process; ^C is logged as an error too.
ExitCode ==
  CASE end = "finished"    -> IF logged THEN 1 ELSE 0
    [] end = "interrupted" -> IF o.cmd = "import" THEN 1 ELSE 0
    [] OTHER               -> 1

Ended == phase = "ended" /\ UNCHANGED vars

Next == Step \/ Interrupt \/ Ended

Spec == Init /\ [][Next]_vars

-----------------------------------------------------------------------------
(* Properties.                                                             *)

\* Every variable keeps its type.
TypeOK ==
  /\ start \in Starts
  /\ {types, authoritative, waiting, asked} \subseteq SUBSET Type
  /\ {source, dest, srcFile, destFile, backup, todo, transient, permanent,
      skipped, deleted} \subseteq SUBSET Item
  /\ {failed, logged, fatal} \subseteq BOOLEAN
  /\ phase \in {"config", "validate", "types", "items", "save", "cleanup",
                "delete", "apply", "alias", "reset", "ended"}
  /\ end \in {"not yet", "refused", "invalid", "fatal", "fatal unsaved",
              "crashed", "interrupted", "finished"}

\* With a file for each resource, whatever part of a type --id-file had fetched
\* and whatever failed, a source file goes away only when its resource is not
\* in the source org any more, or is not to be synced.
OnlyStalePruned ==
  [][o.perFile =>
       \A i \in srcFile \ srcFile' : i \notin org \/ i \in unwanted \/ ~Passes(i)]_vars

\* Everything an import stored in memory is in the files when the process
\* exits, also when it gives up because of throttling: a retry need not fetch
\* it again.
NothingFetchedIsLost ==
  (end \in {"fatal", "finished"} /\ o.cmd # "sync" /\ Saves)
    => source \subseteq SourcePath

\* The resources an import was asked for.
Wanted ==
  {i \in OfTypes(types, org) \ unwanted :
     Passes(i) /\ (ById(i[1]) => i[2] \in o.idFile[i[1]])}

\* A command that exits with 0 did all it was asked to do, but for what was
\* refused: every wanted resource is in the source files, and after a sync or
\* migrate in the destination files.  Only ids of --id-file may lack in the source
\* files, those the source refused and, for each type, fewer of those it was too
\* busy for than the threshold; in the destination files only what its model
\* skipped in this process: nothing that failed, or was never tried.
CleanExitIsComplete ==
  (end = "finished" /\ ExitCode = 0) =>
    /\ o.cmd \in {"import", "migrate"} =>
         /\ Wanted \ (transient \cup permanent) \subseteq srcFile
         /\ \A t \in types :
              LET lost == OfTypes({t}, transient)
              IN lost # {} => Cardinality(lost) * 100
                                < o.threshold * Cardinality(o.idFile[t])
    /\ o.cmd \in {"sync", "migrate"} =>
         {i \in OfTypes(types, source) : Passes(i)} \ destFile \subseteq skipped

\* A forced cleanup in a command that exits with 0 leaves no orphan of the types
\* it was given: no accepted combination of options lets it work on a part of
\* the destination state.
CleanupIsTotal ==
  (end = "finished" /\ ExitCode = 0 /\ o.cmd \in {"sync", "migrate"}
   /\ Cleanup(o) = "force")
    => OfTypes(types, destFile) \subseteq source \cup deleted \cup Undeletable

\* A reset that makes a backup deletes a resource only when the backup has it,
\* whatever failed before.
ResetBackedUp ==
  [][(o.cmd = "reset" /\ o.backup) => deleted' \ deleted \subseteq backup]_vars

\* The backup has all that a reset deleted, at any time.
BackupCovers == (o.cmd = "reset" /\ o.backup) => deleted \subseteq backup
=============================================================================
