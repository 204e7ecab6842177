----------------------------- MODULE BuildConfig -----------------------------
(***************************************************************************)
(* build_config and _handle_deprecated: which combinations of options are  *)
(* refused, and what the accepted ones make a command work on: the types   *)
(* of resources_arg, the ids of --id-file, and the part of the state that  *)
(* is loaded.  The commands are import, sync, migrate and reset; the       *)
(* options of prune are with StateLifecycle.                               *)
(*                                                                         *)
(* A resource is <<type, id>>.  A map from types to sets of ids stands for *)
(* a Python dict: a type mapped to {} is a key that is absent.             *)
(***************************************************************************)
EXTENDS Integers, FiniteSets

CONSTANTS
  Type,       \* resource types
  Id,         \* ids of resources
  Unknown,    \* a name in --resources that is no type
  Fetchable,  \* _ID_FILE_IMPORT_SUPPORTED_TYPES
  Loadable,   \* _ID_FILE_STATE_LOAD_SUPPORTED_TYPES
  Renamed     \* pairs of a deprecated type and the type that replaces it

ASSUME ConfigAssumption ==
  /\ Fetchable \subseteq Loadable /\ Loadable \subseteq Type
  /\ Unknown \notin Type
  /\ Renamed \subseteq Type \X Type

Item  == Type \X Id
IdMap == [Type -> SUBSET Id]
Keys(map) == {t \in Type : map[t] # {}}
Of(map)   == {i \in Item : i[2] \in map[i[1]]}

Option ==
  [cmd       : {"import", "sync", "migrate", "reset"},
   resources : SUBSET (Type \cup {Unknown}),     \* {} if not given
   idFile    : IdMap,
   filter    : IdMap,      \* what --filter lets through; all of a type without
   exact     : BOOLEAN,    \* and every filter is one of Name=id, ExactMatch
   perFile   : BOOLEAN,    \* --resource-per-file
   minimize  : BOOLEAN,    \* --minimize-reads, on sync
   skipLoad  : BOOLEAN,    \* --skip-state-load, on import
   json      : BOOLEAN,
   backup    : BOOLEAN,    \* not --do-not-backup, on reset
   cleanup   : {"false", "true", "force"},       \* on sync and migrate
   reads     : Int,        \* --max-concurrent-reads
   threshold : Int]        \* --transient-failure-threshold-pct

-----------------------------------------------------------------------------
(* What is loaded.                                                         *)

\* extract_exact_id_filters: an unknown name has no filter.
ExactIds(o) ==
  IF o.exact /\ \A r \in o.resources : r # Unknown /\ o.filter[r] # {}
    THEN [t \in Type |-> IF t \in o.resources THEN o.filter[t] ELSE {}]
    ELSE [t \in Type |-> {}]

\* The ids of the filters, or, when these are not ids, those of --id-file.
TargetIds(o) ==
  IF Keys(ExactIds(o)) # {}
    THEN ExactIds(o)
    ELSE [t \in Type |-> IF t \in o.resources THEN o.idFile[t] ELSE {}]

IdTargeted(o) == o.minimize /\ Keys(TargetIds(o)) # {}

\* State.load_state, of one origin; an ImportState loads nothing.
Loaded(o, files) ==
  IF o.skipLoad THEN {}
  ELSE IF IdTargeted(o) THEN files \cap Of(TargetIds(o))
  ELSE IF o.minimize THEN {i \in files : i[1] \in o.resources}
  ELSE files

\* resources_arg.  Unknown names are discarded.  When none is given a renamed
\* type stands for its successor as long as it has an entry in the state.
ResourcesArg(o, state) ==
  IF o.resources # {}
    THEN o.resources \cap Type
    ELSE LET InUse(t) == \E i \in state : i[1] = t
         IN Type \ {IF InUse(r[1]) THEN r[2] ELSE r[1] : r \in Renamed}

-----------------------------------------------------------------------------
(* What is refused.                                                        *)

\* A reset confirms its deletions, as --cleanup=True does.
Cleanup(o) == IF o.cmd = "reset" THEN "true" ELSE o.cleanup

RefusedMinimize(o) == o.minimize /\ (~o.perFile \/ o.resources = {})

RefusedSkipLoad(o) ==
  /\ o.skipLoad
  /\ o.cmd # "import" \/ ~o.perFile \/ o.resources = {} \/ o.minimize

\* (X_... is a faulty variant of X that a property catches.)
RefusedCleanup_Never(o) == FALSE

\* A cleanup over the part of the destination state that some ids select.
RefusedCleanup(o) == IdTargeted(o) /\ o.cleanup \in {"true", "force"}

RefusedIdFile(o) ==
  /\ Keys(o.idFile) # {}
  /\ ~(Keys(o.idFile) \subseteq Loadable /\ Keys(o.idFile) \subseteq o.resources)

\* A semaphore of 0 would block every read.
RefusedReads(o) == o.reads \notin 1..200

\* build_config raises or exits.
Refused(o) ==
  \/ o.json /\ Cleanup(o) = "true"
  \/ RefusedMinimize(o) \/ RefusedSkipLoad(o)
  \/ RefusedCleanup(o) \/ RefusedIdFile(o) \/ RefusedReads(o)
  \/ o.threshold \notin 0..100
  \/ \E r \in Renamed : {r[1], r[2]} \subseteq o.resources
=============================================================================
