----------------------------- MODULE StateFiles ------------------------------
(***************************************************************************)
(* The files of one resource type under the source and the destination     *)
(* path of a storage backend, and the processes that read, write and prune *)
(* them: BaseStorage and its backends, State.load_state, dump_state,       *)
(* compute_stale_files and delete_stale_files, ResourcesHandler.prune.     *)
(*                                                                         *)
(* A file is <type>.json with every resource, or <type>.<name>.json with   *)
(* one, depending on --resource-per-file; the name is the id with ":"      *)
(* replaced by ".", so two ids may share it.  A local file is empty while  *)
(* it is rewritten, an object of a bucket is replaced at once.  What a     *)
(* sync does to the destination organization is reduced to the entry it    *)
(* gives each source resource; failures of requests are left to            *)
(* StateLifecycle.                                                         *)
(***************************************************************************)
EXTENDS Naturals

CONSTANTS
  Id,         \* source ids
  FileName,       \* their forms as file names
  Whole,      \* the name of <type>.json
  Proc,
  Modes,      \* who shares the files, and how they are kept, see below
  MaxVersion  \* bound on the changes of a resource

\* A setting, chosen at the start and kept.
Mode == [ids      : SUBSET Id,        \* the resources there may be
         safe     : [Id -> FileName],     \* _sanitize_id_for_filename
         commands : [Proc -> SUBSET {"import", "import only", "sync", "prune"}],
         layouts  : SUBSET BOOLEAN,   \* values of --resource-per-file, which
         switched : BOOLEAN,          \* may change from command to command
         local    : BOOLEAN,          \* local files, rather than a bucket
         versions : 1..MaxVersion]

ASSUME StateFilesAssumption ==
  /\ Whole \notin FileName
  /\ MaxVersion \in Nat \ {0}
  /\ Modes \subseteq Mode

Origin == {"source", "destination"}
File   == Origin \X (FileName \cup {Whole})
State  == [Id -> 0..MaxVersion]      \* 0 where there is no entry
Empty  == [i \in Id |-> 0]

VARIABLES
  mode,     \* a member of Modes
  org,      \* the source organization
  removed,  \* what was removed from it
  store,    \* the content of each file
  files,    \* the files that exist
  layout,   \* of each process: --resource-per-file,
  cmd, at,  \* its command and where it is,
  side,     \* the origin it loads or prunes,
  mem,      \* its state,
  todo,     \* files it has still to read or to delete, and in the end those
            \* whose deletion failed,
  writes,   \* what it has still to write,
  open,     \* the one it has opened,
  steady    \* entries that are in the files since it listed them

orgVars  == <<org, removed>>
diskVars == <<store, files>>
runVars  == <<layout, cmd, side>>
putVars  == <<writes, open>>
filesVars ==
  <<mode, orgVars, diskVars, runVars, at, mem, todo, putVars, steady>>

Safe     == mode.safe
Commands == mode.commands
Layouts  == mode.layouts
Switched == mode.switched
Local    == mode.local

FilesInit ==
  /\ mode \in Modes
  /\ org \in [Id -> 0..1] /\ \A i \in Id \ mode.ids : org[i] = 0
  /\ removed = {}
  /\ store = [f \in File |-> Empty]
  /\ files = {}
  /\ \E l \in Layouts : layout = [p \in Proc |-> l]
  /\ cmd = [p \in Proc |-> "none"] /\ at = [p \in Proc |-> "idle"]
  /\ side = [p \in Proc |-> "source"]
  /\ mem = [p \in Proc |-> [o \in Origin |-> Empty]]
  /\ todo = [p \in Proc |-> {}] /\ writes = [p \in Proc |-> {}]
  /\ open = [p \in Proc |-> {}]
  /\ steady = [p \in Proc |-> {}]

\* The files of an origin, and the ids with an entry in one of them.
FilesOf(o) == {f \in files : f[1] = o}
Present(disk, o) ==
  {i \in Id : \E n \in FileName \cup {Whole} : disk[<<o, n>>][i] # 0}
Goto(p, step) == at' = [at EXCEPT ![p] = step]

-----------------------------------------------------------------------------
(* The source organization.                                                *)

SourceChanges(i) ==
  /\ i \in mode.ids
  /\ \/ /\ i \notin removed /\ org[i] < mode.versions
        /\ org' = [org EXCEPT ![i] = @ + 1]
        /\ UNCHANGED removed
     \/ /\ org[i] # 0
        /\ org' = [org EXCEPT ![i] = 0]
        /\ removed' = removed \cup {i}
  /\ UNCHANGED <<mode, diskVars, runVars, at, mem, todo, putVars, steady>>

-----------------------------------------------------------------------------
(* Loading: State.load_state.  An import with --skip-state-load ("import    *)
(* only") has an ImportState, which loads nothing and prunes nothing.      *)

Begin(p) ==
  /\ at[p] = "idle"
  /\ \E c \in Commands[p] :
       /\ cmd' = [cmd EXCEPT ![p] = c]
       /\ \E l \in IF Switched THEN Layouts ELSE {layout[p]} :
            /\ c = "prune" => l
            /\ layout' = [layout EXCEPT ![p] = l]
       /\ Goto(p, IF c = "import only" THEN "fetch" ELSE "list")
  /\ side' = [side EXCEPT ![p] = "source"]
  /\ mem' = [mem EXCEPT ![p] = [o \in Origin |-> Empty]]
  /\ UNCHANGED <<mode, orgVars, diskVars, todo, putVars, steady>>

List(p) ==
  /\ at[p] = "list"
  /\ todo' = [todo EXCEPT ![p] = FilesOf(side[p])]
  /\ steady' = [steady EXCEPT ![p] = Present(store, side[p])]
  /\ Goto(p, "read")
  /\ UNCHANGED <<mode, orgVars, diskVars, runVars, mem, putVars>>

\* dict.update: the file that is read last wins.
Merged(old, content) ==
  [i \in Id |-> IF content[i] # 0 THEN content[i] ELSE old[i]]

\* A file that is empty holds no JSON and is skipped.  One that is gone is
\* skipped by a bucket; opening it locally raises, and the process ends.
Read(p, f) ==
  /\ at[p] = "read" /\ f \in todo[p]
  /\ IF f \in files \/ ~Local
       THEN /\ mem' = [mem EXCEPT ![p][f[1]] = Merged(@, store[f])]
            /\ todo' = [todo EXCEPT ![p] = @ \ {f}]
            /\ UNCHANGED at
       ELSE /\ todo' = [todo EXCEPT ![p] = {}]
            /\ Goto(p, "idle") /\ UNCHANGED mem
  /\ UNCHANGED <<mode, orgVars, diskVars, runVars, putVars, steady>>

Loaded(p) ==
  /\ at[p] = "read" /\ todo[p] = {}
  /\ side' = [side EXCEPT ![p] = "destination"]
  /\ Goto(p, IF side[p] = "source" THEN "list"
             ELSE IF cmd[p] = "sync" THEN "apply" ELSE "fetch")
  /\ steady' = [steady EXCEPT ![p] = {}]
  /\ UNCHANGED <<mode, orgVars, diskVars, layout, cmd, mem, todo, putVars>>

\* import_resources_without_saving: the source state becomes what is listed.
Fetch(p) ==
  /\ at[p] = "fetch"
  /\ mem' = [mem EXCEPT ![p]["source"] = org]
  /\ Goto(p, IF cmd[p] = "prune" THEN "compute" ELSE "dump")
  /\ UNCHANGED <<mode, orgVars, diskVars, runVars, todo, putVars, steady>>

\* A sync gives each source resource an entry in the destination state.
Apply(p) ==
  /\ at[p] = "apply"
  /\ mem' = [mem EXCEPT ![p]["destination"] = Merged(@, mem[p]["source"])]
  /\ Goto(p, "dump")
  /\ UNCHANGED <<mode, orgVars, diskVars, runVars, todo, putVars, steady>>

-----------------------------------------------------------------------------
(* dump_state: put, then the pruning of what an import made stale.         *)

\* _check_id_collisions: of the ids that share a name the first is kept.  The
\* order is the one in which they were imported or loaded: any of them here.
Winners(state) ==
  {ids \in SUBSET {i \in Id : state[i] # 0} :
     \A i \in Id :
       state[i] # 0 => \E j \in ids : {k \in ids : Safe[k] = Safe[i]} = {j}}

Only(state, ids) == [i \in Id |-> IF i \in ids THEN state[i] ELSE 0]

\* The writes of one origin: a file per name, or one for all.
WritesOf(perFile, o, round, state, ids) ==
  IF perFile
    THEN {[file |-> <<o, Safe[i]>>, round |-> round,
           content |-> Only(state, {j \in ids : Safe[j] = Safe[i]})] :
            i \in ids}
    ELSE {[file |-> <<o, Whole>>, round |-> round, content |-> state]}

\* put writes the source files, and for both origins LocalFile.put writes
\* them once more before the destination files.
Dump(p) ==
  /\ at[p] = "dump"
  /\ \E src \in Winners(mem[p]["source"]),
        dst \in Winners(mem[p]["destination"]) :
       LET Source(round) ==
             WritesOf(layout[p], "source", round, mem[p]["source"], src)
           Destination ==
             WritesOf(layout[p], "destination", 3, mem[p]["destination"], dst)
       IN writes' = [writes EXCEPT ![p] =
            CASE cmd[p] # "sync" -> Source(1)
              [] cmd[p] = "sync" /\ ~Local -> Source(1) \cup Destination
              [] cmd[p] = "sync" /\ Local ->
                   Source(1) \cup Source(2) \cup Destination]
  /\ Goto(p, "put")
  /\ UNCHANGED <<mode, orgVars, diskVars, runVars, mem, todo, open, steady>>

IsNext(p, w) == /\ at[p] = "put" /\ w \in writes[p]
                /\ \A v \in writes[p] : w.round <= v.round

\* An entry stays steady while no write and no deletion removes it.
KeepSteady(o) ==
  steady' = [q \in Proc |-> IF at[q] = "read" /\ side[q] = o
                              THEN steady[q] \cap Present(store', o)
                              ELSE steady[q]]

Truncates_Always == TRUE

\* open(filename, "w+") empties the file, an upload replaces the object.
Truncates == Local

Truncate(p, w) ==
  /\ IsNext(p, w) /\ Truncates
  /\ open[p] = {} /\ open' = [open EXCEPT ![p] = {w}]
  /\ store' = [store EXCEPT ![w.file] = Empty]
  /\ files' = files \cup {w.file}
  /\ UNCHANGED <<mode, orgVars, runVars, at, mem, todo, writes, steady>>

\* What is written to a local file that was deleted since it was opened is
\* lost.  (Two processes with one local file open are not in the instances.)
Write(p, w) ==
  /\ IsNext(p, w)
  /\ Truncates => w \in open[p]
  /\ IF Truncates => w.file \in files
       THEN /\ store' = [store EXCEPT ![w.file] = w.content]
            /\ files' = files \cup {w.file}
       ELSE UNCHANGED diskVars
  /\ writes' = [writes EXCEPT ![p] = @ \ {w}]
  /\ open' = [open EXCEPT ![p] = {}]
  /\ KeepSteady(w.file[1])
  /\ UNCHANGED <<mode, orgVars, runVars, at, mem, todo>>

Dumped(p) ==
  /\ at[p] = "put" /\ writes[p] = {}
  /\ Goto(p, IF cmd[p] = "import" /\ layout[p] THEN "compute" ELSE "done")
  /\ UNCHANGED <<mode, orgVars, diskVars, runVars, mem, todo, putVars, steady>>

-----------------------------------------------------------------------------
(* Pruning: after the dump of an import, and by the prune command.         *)

Stale_Own(p, o) ==
  {f \in FilesOf(o) : /\ f[2] # Whole
                      /\ \A i \in Id : mem[p][o][i] # 0 => Safe[i] # f[2]}

\* compute_stale_files: the per-resource files that no source id names, for
\* both origins.  It lists one origin after the other; here both at once.
Stale(p, o) ==
  {f \in FilesOf(o) :
     /\ f[2] # Whole
     /\ \A i \in Id : mem[p]["source"][i] # 0 => Safe[i] # f[2]}

Compute(p) ==
  /\ at[p] = "compute"
  /\ todo' = [todo EXCEPT ![p] =
       Stale(p, "source") \cup (IF cmd[p] = "prune" THEN Stale(p, "destination")
                                                    ELSE {})]
  /\ Goto(p, IF cmd[p] = "prune" THEN "fence" ELSE "delete")
  /\ UNCHANGED <<mode, orgVars, diskVars, runVars, mem, putVars, steady>>

\* Only what is stale in a second listing as well is deleted, and only when
\* the user confirms and this is no dry run.
Fence(p) ==
  /\ at[p] = "fence"
  /\ \/ /\ todo' = [todo EXCEPT ![p] =
                       @ \cap (Stale(p, "source") \cup Stale(p, "destination"))]
        /\ Goto(p, "delete")
     \/ todo' = [todo EXCEPT ![p] = {}] /\ Goto(p, "idle")
  /\ UNCHANGED <<mode, orgVars, diskVars, runVars, mem, putVars, steady>>

\* delete_many, the destination first.  A file that is gone is no error; one
\* whose deletion fails stays in todo, and is tried again only when another
\* import or prune finds it stale.
Delete(p, f) ==
  /\ at[p] = "delete" /\ f \in todo[p] /\ f[1] = side[p]
  /\ files' = files \ {f}
  /\ store' = [store EXCEPT ![f] = Empty]
  /\ todo' = [todo EXCEPT ![p] = @ \ {f}]
  /\ KeepSteady(f[1])
  /\ UNCHANGED <<mode, orgVars, runVars, at, mem, putVars>>

\* Each file of an origin was tried, or a backend gave up on the rest.
Pruned(p) ==
  /\ at[p] = "delete"
  /\ side' = [side EXCEPT ![p] = "source"]
  /\ Goto(p, IF side[p] = "source" THEN "done" ELSE "delete")
  /\ UNCHANGED <<mode, orgVars, diskVars, layout, cmd, mem, todo, putVars,
                 steady>>

End(p) ==
  /\ at[p] = "done" /\ Goto(p, "idle")
  /\ todo' = [todo EXCEPT ![p] = {}]
  /\ UNCHANGED <<mode, orgVars, diskVars, runVars, mem, putVars, steady>>

Step(p) ==
  \/ Begin(p) \/ List(p)
  \/ \E f \in File : Read(p, f) \/ Delete(p, f)
  \/ Loaded(p) \/ Fetch(p) \/ Apply(p) \/ Dump(p)
  \/ \E w \in writes[p] : Truncate(p, w) \/ Write(p, w)
  \/ Dumped(p) \/ Compute(p) \/ Fence(p) \/ Pruned(p) \/ End(p)

FilesNext == (\E i \in Id : SourceChanges(i)) \/ (\E p \in Proc : Step(p))

FilesSpec == FilesInit /\ [][FilesNext]_filesVars

-----------------------------------------------------------------------------
(* Properties.                                                             *)

\* Every variable keeps its type, and a per-resource file holds one resource,
\* which has its name.
FilesTypeOK ==
  /\ mode \in Modes
  /\ org \in State /\ removed \subseteq Id
  /\ store \in [File -> State]
  /\ files \subseteq File
  /\ mem \in [Proc -> [Origin -> State]]
  /\ todo \in [Proc -> SUBSET File]
  /\ \A o \in Origin, n \in FileName :
       \/ store[<<o, n>>] = Empty
       \/ \E i \in Id : /\ Safe[i] = n
                        /\ store[<<o, n>>] = Only(store[<<o, n>>], {i})

\* What a load may find for an id, whatever order it reads the files in, but for
\* the files that a process failed to delete.
Found(p, o, i) == {store[f][i] : f \in FilesOf(o) \ todo[p]} \ {0}

\* One process has the files to itself.
Alone(p) == \A q \in Proc \ {p} : Commands[q] = {}

\* After an import with the files to itself and in one layout, the source files
\* hold what it imported and nothing else: each name is held by one of the
\* resources that claim it, in the version just read, and no resource that was
\* not imported can be loaded.  After a prune, neither origin has a resource
\* that is gone from the source.  A deletion that failed excuses its own file
\* only, until the next import or prune.
ExactAfterImport ==
  \A p \in Proc : at[p] = "done" /\ Alone(p) /\ ~Switched =>
    LET now == mem[p]["source"] IN
    /\ cmd[p] = "import" => \A i \in Id :
         /\ Found(p, "source", i) \subseteq {now[i]}
         /\ now[i] # 0 => \E j \in Id : /\ Safe[j] = Safe[i]
                                        /\ Found(p, "source", j) = {now[j]}
    /\ cmd[p] = "prune" => \A i \in Id, o \in Origin :
         Found(p, o, i) # {} => \E j \in Id : Safe[j] = Safe[i] /\ now[j] # 0

\* A process that loads from a bucket in one layout sees every entry that is in
\* the files from the moment it lists them until it has read them, whatever is
\* written meanwhile.
SteadyIsSeen ==
  ~Local /\ ~Switched => \A p \in Proc : at[p] = "read" /\ todo[p] = {} =>
    \A i \in steady[p] : mem[p][side[p]][i] # 0
=============================================================================
