--------------------------- MODULE StateLifecycle ---------------------------
(***************************************************************************)
(* The state files across runs of the tool.  A command is one process: it  *)
(* loads the files, works on its in-memory copy, and writes it back;       *)
(* commands follow each other while resources come and go in the source    *)
(* org.  The commands are                                                  *)
(*   import   list the source org, import each resource, dump the source   *)
(*   sync     clean up, apply, dump both sides                             *)
(*   migrate  an import and a sync in one process                          *)
(*   prune    an import, then delete the state files it makes stale        *)
(* for one resource type, with the full state loaded.  Apply and cleanup   *)
(* are reduced to their effect on one resource at a time (ApplyResources   *)
(* and CleanupResources have their interleavings); both states and both    *)
(* sets of files are keyed by source ids, which the source org never uses  *)
(* again.                                                                  *)
(***************************************************************************)
EXTENDS Naturals, FiniteSets

CONSTANTS
  Id,         \* source ids of the type
  Modes,      \* the circumstances a history may unfold in, see below
  MaxCopies   \* bound on the counterparts of one resource

\* What may happen in a history: the layout of the files, the commands that
\* are run, and what goes wrong.  It is chosen at the start and kept.
Mode == [perFile     : BOOLEAN,  \* --resource-per-file, not a file for the type
         commands    : SUBSET {"import", "sync", "migrate", "prune"},
         filters     : SUBSET SUBSET Id,  \* what --filter may let through
         failures    : BOOLEAN,  \* listings and requests may fail
         truncates   : BOOLEAN,  \* a listing may end early without a failure
         lostReplies : BOOLEAN,  \* a create takes effect, reported as failed
         stops       : SUBSET {"interrupt", "crash"}]  \* a process ends early

ASSUME LifecycleAssumption ==
  /\ Modes \subseteq Mode
  /\ MaxCopies \in Nat \ {0}

VARIABLES
  mode,          \* a member of Modes
  srcOrg,        \* resources that exist in the source org
  removed,       \* those that have been removed from it
  copies,        \* how many counterparts each has in the destination org
  srcFile,       \* ids in the source state files
  destFile,      \* ids in the destination state files
  cmd,           \* the command that runs
  step,          \* where it is
  matching,      \* what its --filter lets through
  cleanup,       \* --cleanup, and the prompt is confirmed
  source, dest,  \* ids in state.source and state.destination
  authoritative, \* the type is in _authoritative_source_types
  faults,        \* something failed in this run
  plan,          \* the keys of the dependency graph
  todo           \* what is left of the current step

orgVars  == <<srcOrg, removed, copies>>
fileVars == <<srcFile, destFile>>
optVars  == <<cmd, matching, cleanup>>
memVars  == <<source, dest, authoritative>>
vars == <<mode, orgVars, fileVars, optVars, memVars, step, faults, plan, todo>>

PerFile     == mode.perFile
Commands    == mode.commands
Filters     == mode.filters
Failures    == mode.failures
Truncates   == mode.truncates
LostReplies == mode.lostReplies
Stops       == mode.stops

Idle == step = "idle"

Init ==
  /\ mode \in Modes
  /\ srcOrg \in SUBSET Id /\ removed = {}
  /\ copies = [i \in Id |-> 0]
  /\ srcFile = {} /\ destFile = {}
  /\ cmd = "none" /\ step = "idle"
  /\ matching = Id /\ cleanup = FALSE
  /\ source = {} /\ dest = {} /\ authoritative = FALSE
  /\ faults = FALSE /\ plan = {} /\ todo = {}

-----------------------------------------------------------------------------
(* The source org.                                                         *)

SourceCreates(i) ==
  /\ i \notin srcOrg \cup removed
  /\ srcOrg' = srcOrg \cup {i}
  /\ UNCHANGED <<mode, removed, copies, fileVars, optVars, memVars, step,
                 faults, plan, todo>>

SourceRemoves(i) ==
  /\ i \in srcOrg
  /\ srcOrg' = srcOrg \ {i}
  /\ removed' = removed \cup {i}
  /\ UNCHANGED <<mode, copies, fileVars, optVars, memVars, step, faults, plan,
                 todo>>

-----------------------------------------------------------------------------
(* A run: build_config constructs State, which loads the files.            *)

Begin ==
  /\ Idle
  /\ cmd' \in Commands
  /\ matching' \in IF cmd' = "prune" THEN {Id} ELSE Filters
  /\ cleanup' \in IF cmd' \in {"sync", "migrate"} THEN BOOLEAN ELSE {FALSE}
  /\ source' = srcFile /\ dest' = destFile
  /\ authoritative' = FALSE /\ faults' = FALSE
  /\ step' = IF cmd' = "sync" THEN "graph" ELSE "list"
  /\ plan' = {} /\ todo' = {}
  /\ UNCHANGED <<mode, orgVars, fileVars>>

\* _import_get_resources_cb clears the type before it asks for the list.
ClearSource ==
  /\ step = "list"
  /\ source' = {}
  /\ step' = "listing"
  /\ UNCHANGED <<mode, orgVars, fileVars, optVars, dest, authoritative, faults,
                 plan, todo>>

\* The list, none because it failed, or, when a page after the first is refused,
\* what the pages before it had.
ListSource ==
  /\ step = "listing"
  /\ \/ todo' = srcOrg /\ UNCHANGED faults
     \/ Failures /\ faults' = TRUE /\ UNCHANGED todo
     \/ Truncates /\ todo' \in SUBSET srcOrg /\ UNCHANGED faults
  /\ step' = "items"
  /\ UNCHANGED <<mode, orgVars, fileVars, optVars, memVars, plan>>

\* _import_resource: stored, filtered out, or failed.
ImportItem(i) ==
  /\ step = "items" /\ i \in todo
  /\ todo' = todo \ {i}
  /\ \/ /\ i \in matching
        /\ source' = source \cup {i} /\ UNCHANGED faults
     \/ /\ i \notin matching
        /\ UNCHANGED <<source, faults>>
     \/ /\ Failures /\ i \in matching
        /\ faults' = TRUE /\ UNCHANGED source
  /\ UNCHANGED <<mode, orgVars, fileVars, optVars, dest, authoritative, step,
                 plan>>

\* (X_... is a faulty variant of X that a property below catches.)
Complete_Always == TRUE

\* get_failures = 0 and import_failures = 0.
Complete == ~faults

\* The source is marked authoritative; prune refuses to go on without that,
\* finds nothing to delete after a dry run, or when the user declines.
EndImport ==
  /\ step = "items" /\ todo = {}
  /\ authoritative' = Complete
  /\ step' \in IF cmd # "prune" THEN {"dumpImport"}
               ELSE {"idle"} \cup (IF PerFile /\ Complete THEN {"pruneDest"}
                                                           ELSE {})
  /\ UNCHANGED <<mode, orgVars, fileVars, optVars, source, dest, faults, plan,
                 todo>>

-----------------------------------------------------------------------------
(* apply_resources.                                                        *)

\* get_dependency_graph, before the cleanup.
BuildGraph ==
  /\ step = "graph"
  /\ plan' = source \cap matching
  /\ step' = "orphans"
  /\ UNCHANGED <<mode, orgVars, fileVars, optVars, memVars, faults, todo>>

Orphans_Forward == source \ dest

\* get_resources_to_cleanup.
Orphans == dest \ source

BeginCleanup ==
  /\ step = "orphans"
  /\ todo' = IF cleanup THEN Orphans ELSE {}
  /\ step' = "delete"
  /\ UNCHANGED <<mode, orgVars, fileVars, optVars, memVars, faults, plan>>

\* _delete_resource: a counterpart that is gone already answers 404, which
\* counts as deleted.
Left(i) == IF copies[i] > 0 THEN copies[i] - 1 ELSE 0

DeleteItem(i) ==
  /\ step = "delete" /\ i \in todo
  /\ todo' = todo \ {i}
  /\ \/ /\ copies' = [copies EXCEPT ![i] = Left(i)]
        /\ dest' = dest \ {i}
        /\ UNCHANGED faults
     \/ Failures /\ faults' = TRUE /\ UNCHANGED <<copies, dest>>
  /\ UNCHANGED <<mode, srcOrg, removed, fileVars, optVars, source,
                 authoritative, step, plan>>

EndCleanup ==
  /\ step = "delete" /\ todo = {}
  /\ todo' = plan
  /\ step' = "apply"
  /\ UNCHANGED <<mode, orgVars, fileVars, optVars, memVars, faults, plan>>

\* _apply_resource_cb.  A resource the destination state knows is updated, or
\* does not differ; the update of one that is gone from the org fails.  Any
\* other is created.
ApplyItem(i) ==
  /\ step = "apply" /\ i \in todo
  /\ todo' = todo \ {i}
  /\ \/ \* no difference, or an update
        /\ i \in dest
        /\ faults' \in {faults} \cup (IF Failures \/ copies[i] = 0 THEN {TRUE}
                                                                  ELSE {})
        /\ UNCHANGED <<copies, dest>>
     \/ \* created
        /\ i \notin dest /\ copies[i] < MaxCopies
        /\ copies' = [copies EXCEPT ![i] = @ + 1]
        /\ dest' = dest \cup {i}
        /\ UNCHANGED faults
     \/ \* not created: a missing connection, an error
        /\ Failures /\ i \notin dest
        /\ faults' = TRUE /\ UNCHANGED <<copies, dest>>
     \/ \* created, and the reply is lost
        /\ LostReplies /\ i \notin dest /\ copies[i] < MaxCopies
        /\ copies' = [copies EXCEPT ![i] = @ + 1]
        /\ faults' = TRUE /\ UNCHANGED dest
  /\ UNCHANGED <<mode, srcOrg, removed, fileVars, optVars, source,
                 authoritative, step, plan>>

EndApply ==
  /\ step = "apply" /\ todo = {}
  /\ step' = "dumping"
  /\ UNCHANGED <<mode, orgVars, fileVars, optVars, memVars, faults, plan, todo>>

-----------------------------------------------------------------------------
(* dump_state: put writes the source files, then the destination files, and*)
(* then the stale files are deleted, destination first.                    *)

\* One file per id that is in memory, or the file of the type anew.
Written(file, mem) == IF PerFile THEN file \cup mem ELSE mem

MayPrune_Ungated == PerFile

MayPrune == PerFile /\ authoritative

\* Stale files, all of them or those the backend managed to delete.
Pruned(file) ==
  IF ~MayPrune THEN {file}
  ELSE {file \cap source} \cup
       (IF Failures THEN {file \ gone : gone \in SUBSET (file \ source)}
                    ELSE {})

Move(from, to) ==
  /\ step = from /\ step' = to
  /\ UNCHANGED <<mode, orgVars, optVars, memVars, faults, plan, todo>>

\* dump_state(Origin.SOURCE), at the end of an import.
PutImport == /\ Move("dumpImport", "pruneImport")
             /\ srcFile' = Written(srcFile, source) /\ UNCHANGED destFile

PruneImport ==
  /\ Move("pruneImport", IF cmd = "migrate" THEN "graph" ELSE "idle")
  /\ srcFile' \in Pruned(srcFile) /\ UNCHANGED destFile

\* dump_state(), at the end of apply_resources or after an interrupt.
PutSource == /\ Move("dumping", "putDest")
             /\ srcFile' = Written(srcFile, source) /\ UNCHANGED destFile

PutDest == /\ Move("putDest", "pruneDest")
           /\ destFile' = Written(destFile, dest) /\ UNCHANGED srcFile

PruneDest == /\ Move("pruneDest", "pruneSource")
             /\ destFile' \in Pruned(destFile) /\ UNCHANGED srcFile

PruneSource == /\ Move("pruneSource", "idle")
               /\ srcFile' \in Pruned(srcFile) /\ UNCHANGED destFile

-----------------------------------------------------------------------------
(* A process that ends early.                                              *)

DumpsOnInterrupt_Never == FALSE

\* The commands that run_cmd dumps the state for.
DumpsOnInterrupt == cmd \in {"sync", "migrate"}

\* KeyboardInterrupt; the request in flight, if any, is a lost reply.
Interrupt ==
  /\ "interrupt" \in Stops
  /\ ~Idle
  /\ step' = IF DumpsOnInterrupt THEN "dumping" ELSE "idle"
  /\ faults' = TRUE /\ todo' = {}
  /\ UNCHANGED <<mode, orgVars, fileVars, optVars, memVars, plan>>

\* What a write that is cut short leaves: some files written, and the one
\* under the pen invalid, so that the next load ignores it.
Torn(file, mem) ==
  IF PerFile
    THEN {(file \cup some) \ pen : some \in SUBSET mem,
                                   pen \in {{}} \cup {{i} : i \in mem}}
    ELSE {file, {}}

\* put(ALL) writes the source files once more before the destination files.
Crash ==
  /\ "crash" \in Stops
  /\ ~Idle
  /\ step' = "idle"
  /\ \/ UNCHANGED fileVars
     \/ /\ step \in {"dumpImport", "dumping", "putDest"}
        /\ srcFile' \in Torn(srcFile, source) /\ UNCHANGED destFile
     \/ /\ step = "putDest"
        /\ destFile' \in Torn(destFile, dest) /\ UNCHANGED srcFile
  /\ faults' = TRUE /\ todo' = {}
  /\ UNCHANGED <<mode, orgVars, optVars, memVars, plan>>

Next ==
  \/ \E i \in Id : SourceCreates(i) \/ SourceRemoves(i)
  \/ Begin
  \/ ClearSource \/ ListSource \/ EndImport
  \/ \E i \in Id : ImportItem(i) \/ DeleteItem(i) \/ ApplyItem(i)
  \/ BuildGraph \/ BeginCleanup \/ EndCleanup \/ EndApply
  \/ PutImport \/ PruneImport
  \/ PutSource \/ PutDest \/ PruneDest \/ PruneSource
  \/ Interrupt
  \/ Crash

Spec == Init /\ [][Next]_vars

-----------------------------------------------------------------------------
(* Properties.                                                             *)

\* Every variable keeps its type.
TypeOK ==
  /\ mode \in Modes
  /\ {srcOrg, removed, srcFile, destFile, matching, source, dest, plan, todo}
       \subseteq SUBSET Id
  /\ copies \in [Id -> 0..MaxCopies]
  /\ cmd \in Commands \cup {"none"}
  /\ step \in {"idle", "list", "listing", "items", "dumpImport", "pruneImport",
               "graph", "orphans", "delete", "apply", "dumping", "putDest",
               "pruneDest", "pruneSource"}
  /\ {cleanup, authoritative, faults} \subseteq BOOLEAN

\* Nothing prunes destination files, and nothing is lost on its way into them.
NothingForgets ==
  /\ ~LostReplies /\ "crash" \notin Stops
  /\ PerFile => Commands \subseteq {"import", "sync"}

\* Imports are of everything or known to be partial, and the state that cleanup
\* compares with is read from the files.
NothingHidden ==
  /\ PerFile /\ Commands \subseteq {"import", "sync", "prune"}
  /\ Filters = {Id} /\ ~Truncates /\ "crash" \notin Stops

\* --cleanup deletes from the destination org only what has been removed from
\* the source org.
DeletesRemoved == \A i \in Id : copies'[i] < copies[i] => i \in removed
CleanupOnlyRemoved == [][NothingHidden => DeletesRemoved]_vars

\* The same for migrate as well, as README.md says of the flag.
MigrateOnlyRemoved == [][DeletesRemoved]_vars

\* A source file goes away only when its resource was removed from the source
\* org: an import that is partial prunes nothing.
SourceFilesKept ==
  [][NothingHidden => srcFile \ srcFile' \subseteq removed]_vars

\* No resource gets a second counterpart in the destination org.
NoDuplicates == NothingForgets => \A i \in Id : copies[i] <= 1

\* Between runs, every counterpart in the destination org is known to the
\* destination state files: it can be updated, and cleaned up.
Tracked ==
  NothingForgets /\ Idle => \A i \in Id : copies[i] > 0 => i \in destFile

\* A sync leaves the destination files of what it deleted: nothing comes back that
\* has one.
NothingLeftOver == PerFile => NothingHidden

\* A sync with cleanup and without filter that met no failure leaves in the
\* destination org, and in its state, exactly what the source state has.
MirrorAfterSync ==
  NothingForgets /\ NothingLeftOver /\ step = "dumping" /\ cleanup /\ ~faults
  /\ matching = Id =>
    /\ {i \in Id : copies[i] > 0} = source
    /\ dest = source

\* With one file per resource, a step, a crash while the files are written
\* included, loses the mapping of at most one resource that has a counterpart.
OneTornFile ==
  [][PerFile /\ Commands \subseteq {"import", "sync"} =>
       Cardinality({i \in destFile \ destFile' : copies'[i] > 0}) <= 1]_vars
=============================================================================
