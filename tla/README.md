# TLA+ models of datadog-sync-cli

`datadog-sync-cli` copies the resources of one Datadog organization (the source)
to another (the destination). It keeps two *states*, files of resources keyed by
their source ids: what was read from the source, and what each resource became
in the destination. This directory has models of the parts of the program whose
correctness depends on order, on concurrency, on failures or on what is stored
between runs, TLC configurations that check them on small instances, and TLAPS
proofs of the properties that matter most.

    tlc -workers 2 -config apply.cfg MCApplyResources
    tlapm ApplyResources_proofs.tla

Paths below are relative to the repository; `RH` is
`datadog_sync/utils/resources_handler.py`, and a bare file name is in
`datadog_sync/utils`. `PROJECT.json` maps every definition to its lines.

## 1. Inventory

### Components

| component | state it keeps | operations | talks to | modules |
|---|---|---|---|---|
| apply: `ResourcesHandler.apply_resources`, `run_sorter`, `_apply_resource_cb` | dependency graph, sorter, work queue, counters | build graph, feed, apply, count, dump | worker pool, state, resource classes | ApplyResources, OrderedApply |
| cleanup: `get_cleanup_dependency_graph`, `run_cleanup_sorter`, `_cleanup_worker` | reversed graph, sorter, queue | plan, confirm, delete, fall back | worker pool, state | CleanupResources, OrderedApply |
| import: `import_resources`, `_import_get_resources_cb`, `_import_resource`, the missing-dependency callbacks, `prune` | source state, authoritative markers, failed ids, queue | clear, list, fetch by id, import, discover, abort, prune | HTTP client, state, worker pool | StateLifecycle, MissingDependencies, Commands, Pagination |
| reset: `reset`, `_reset_cb` | an aliased state | back up, delete everything | import, state | Commands |
| worker pool: `workers.py` | queue, shutdown flag, cancel callback | init, run, cancel | everything that runs concurrently | ApplyResources, CleanupResources, MissingDependencies |
| state: `state.py`, `import_state.py` | source and destination entries, ids looked up, markers | load whole, lazily or by id, refresh, dump, prune, orphans | storage | StateLifecycle, LazyState, StateFiles, Commands |
| storage: `storage/*` | files or objects | list, read, write, delete, names of ids | file system, S3, GCS, Azure | StateFiles, StateLifecycle (crashes) |
| HTTP client: `custom_client.py`, `resource_utils.py` | attempts, time, page cursor | retry, throttle, paginate, classify | Datadog API | RequestRetry, Pagination |
| resource base class: `base_resource.py` | locks and semaphores of a type, map of what exists | connect ids, drop principals, create, update, delete, fetch by id | HTTP client, state | ApplyResources, LazyState, Commands, Accounts, Roles |
| resource models: `datadog_sync/model/*.py` | what exists in the destination, per type | hooks, create, update, replace, match by name or order | HTTP client | Orders, DowntimeSchedules, Accounts, Roles |
| configuration: `configuration.py`, `commands/shared/options.py` | options | build, refuse, validate | everything | BuildConfig |
| commands: `datadog_sync/commands/*` | exit code | run, handle an interrupt | everything | Commands, StateLifecycle (`prune`) |
| diffs, filter, logging, reports | - | - | - | not modelled |

### What is hard

* **One event loop and one thread that is not on it.** Coroutines interleave at
  each `await`; `Workers._cancel_worker` reads the sorter from an executor
  thread, so a thread switch may fall inside `get_ready` or `done`.
* **A graph that is discovered while it is used.** What counts as a dependency is
  what cannot be resolved when the graph is built; the destination grows during
  the pass and may be read again after the graph is built.
* **Failure of one step of several.** Hooks, requests, metrics, deletions and
  listings fail one by one; a resource may take several requests (an account, its
  email, its roles; a deletion and its replacement), and what the state records
  must be what was done.
* **Two sides and two kinds of ids.** Both states are keyed by source ids, the
  destination content holds destination ids, and a synthetics test is named by
  its public id but keyed by public id and monitor id.
* **Files that outlive the process.** They may be partial, half written, of two
  layouts, read by overlapping processes, pruned while they are read.
* **Partial views.** Ids, filters, `--minimize-reads` and failed reads leave a
  part of a state in memory; deciding deletions on it is wrong.
* **Time.** Attempts, elapsed time and pauses of a request; windows of a downtime
  that pass between the import, the diff and the request.
* **What others do.** The destination is edited by hand between two passes and
  during one.

### What makes each component correct

* apply: each resource is applied once, after its dependencies; a verdict of
  missing connections is final; no reference dangles; limits are respected; the
  workers stop only when the graph is drained; the pass ends.
* cleanup: dependents go first, and it ends.
* missing dependencies: what the walk visits or the pool imports lacks nothing
  afterwards but what failed, and the pool ends.
* state across runs: counterparts stay known and single, cleanup and prune touch
  only what was removed, a clean sync is an exact mirror, a crash loses little.
* a command: what was fetched is stored, exit code 0 means that all was done but for
  what was refused or skipped, a forced cleanup is over all of a type, a reset deletes what it has backed up.
* lazy state: processes that share files neither create twice, nor refer to what
  is gone, nor thin out an access list without need.
* storage: a load finds exactly what was stored.
* orders: an order reported as applied, or as equal, is that of the source; what
  only the destination has is neither lost nor reshuffled.
* downtimes: what is written mutes when the source mutes, neither longer nor
  shorter; a replacement leaves neither an orphan nor a gap for no reason.
* accounts and roles: a clean pass gives the access the source gives, and a diff
  after it finds nothing; the state never claims access that is not there;
  nothing is taken that the source did not drop.
* client: a call is bounded in time and attempts, and its failure is classified
  by its cause; a listing has everything and ends.

## 2. Modules

| module | models | parameters |
|---|---|---|
| `TopologicalSort` | graphlib's sorter as the code uses it: nodes, cycle check, ready nodes, activity | - |
| `OrderedApply` | the abstract promise of a pass: begun once, after the dependencies are settled, closed when all is settled | `Resource` |
| `ApplyResources` | the apply pass: graph, feeder, cancel thread, workers, limits, counters, dump | resources, types, limits, workers, graphs, `Modes` |
| `CleanupResources` | the deletion of orphans, ordered or in the unordered fallback | resources, graphs, `ReadsAs` |
| `MissingDependencies` | both callbacks of `--force-missing-dependencies` | resources, names, scope, graphs, `MaxQueued` |
| `StateLifecycle` | histories of import, sync, migrate and prune over the files of a type, with interrupts and crashes | ids, `Modes` |
| `BuildConfig` | which combinations of options are refused, and what the accepted ones make a command load, fetch and clean up | types, ids, renamed types |
| `Commands` | one process of import, sync, migrate or reset over several types, from its options to its exit code, with `--id-file`, the threshold of transient failures, what a model skips, the abort and ^C | `Starts`, `Undeletable`, `Unwritable`, `Faults` |
| `LazyState` | processes with `--minimize-reads` over shared files, principals resolved and dropped at apply | resources, references, access lists, `Modes` |
| `StateFiles` | the files themselves: names, layouts, listings, writes, the fence of `prune`, deletions that fail | ids, names, processes, `Modes` |
| `RequestRetry` | `request_with_retry` and the class of its failure | timeout, header values, replies |
| `Pagination` | `paginated_request`, each of its requests a call of `RequestRetry` | sizes, `Settings` |
| `Orders` | log pipelines, archives, indexes, scanner groups: creation or adoption, then the merge of their order into the destination's | items, extras, `Kinds`, `Options`, `Classes` |
| `DowntimeSchedules` | the life of one downtime: hook, diff, bridge of the active window, create, update, replacement, cancellation, while time passes | versions, clock, `Limits` |
| `Accounts` | users and team memberships over several migrates: listing, cleanup, `map_existing_resources`, create, adopt, update of roles and email | users, teams, roles, `Starts`, `Limits` |
| `Roles` | the roles of those users, in the same migrates: permissions from source ids to names to destination ids, match by name, reconciliation with what the destination has and keeps | permissions, `Offered`, `Gated`, `AllowPartial`, `Builtin`, `Managed`, `RolesAt` |
| `*_proofs` | theorems about the module before the underscore; `Accounts_proofs` has `Roles` as well, `Import_proofs` both `MissingDependencies` and `StateFiles`, `Lifecycles_proofs` both `StateLifecycle` and `DowntimeSchedules`, `Lists_proofs` has `RequestRetry`, `Pagination` and `Orders` | - |
| `MC*` | the instances that TLC checks | - |

`ApplyResources` and `CleanupResources` each instantiate `OrderedApply` through a
refinement mapping and share `TopologicalSort`. `Pagination` extends
`RequestRetry` and runs a call for each page, with its pauses and its outcome.
`Commands` extends `BuildConfig`: a run begins with the options and is refused or
goes on with what they select. `Roles` extends `Accounts`: its next-state relation
takes the steps of both, roles first in each phase (`OtherStep`), and a user waits
for the roles that it has, or fails with a `ResourceConnectionError`
(`ApplyUserOfRoles`). `StateLifecycle`, `Orders`, `Accounts` and `Roles` take one
pass as a sequence of steps on single resources, because `ApplyResources` and
`CleanupResources` show how their interleavings come to that; `StateFiles` takes
one command as its effect on entries, because `StateLifecycle` shows that.

**State and actions.** Variables carry the names of the fields they model
(`source`, `dest`, `queue`, `permits`, `page_size`, `retry_count`, `saved_idx`).
A worker has a `pc` that names the `await` it is at, and an action is the code
between two awaits with every call it makes: `FinishItem`, for instance, is the
end of the `try`, the `except` and the whole `finally` of `_apply_resource_cb`,
with the counter, `sorter.done` and the release of the lock. The sorter is three
sets: nodes `taken` out of its ready list, those `counted` in its `_npassedout`,
and those `finished`. While `GetReady` is between the first two (`LoopFree` is
false) no coroutine moves, but the executor thread may (`CancelPoll`,
`CancelPeek`), which is exactly what the interpreter allows, if the mode has
`gilYields`. In `Commands` the `phase` is the place in `run_cmd_async`, and
`Interrupt` may come in those that wait for requests (`Running`: the import of types
and of items, the deletions of cleanup and reset, the apply pass). The options are
read before `run_cmd` catches anything; validation, the prompt and the save are one
step each, and a ^C between them finds what the phase before it left. In `DowntimeSchedules` the `pc`
names the request that is due, and `Tick` may pass between the import, the plan
and each request. In `Accounts` an action is a whole handler (`Update`, `Create`,
`Adopt`, `ApplyRole`) with all its requests, each answered, refused, or carried out with its
answer lost; `Begin`, `MapUsers`, `Dump` and the rest are the steps of a migrate
around them.

**Modes.** What a history may meet (options, layout of the files, commands,
filters, failures, ways to stop, overlap of processes) is a record chosen at the
start from the constant `Modes` (`Settings`, `Starts`, `Families`, `Kinds`
elsewhere) and kept: one run covers several settings, and a property that holds
in some of them says which (`NothingForgets`, `NothingHidden`,
`NothingLeftOver`, `InTurn`, `NotReadAgain`, `BuiltinShared`, `~GilYields`,
`whole`, `unsure`). The restrictions are the cases
listed under *Disagreements* and the ones in which the code makes no promise.

**Abstractions.** A resource is its key and its references, or a version number;
an account its email and roles, a downtime its windows and one more field; a
reply is a status and the number its header carries; times are seconds, or half
minutes for downtimes. What a resource type does in its own class is reduced, in
the core modules, to what the core can see of it: it succeeds, fails or skips.
Definitions named `X_Word` are faulty variants of `X`, each with the mistake its
name suggests; putting one in the place of `X` breaks the property that
`PROJECT.json` names, and nothing else uses them.

## 3. Runs

| run | instance | properties |
|---|---|---|
| `apply` | 2 workers; 3 resources of a serial and a capped type, connected acyclic graphs and a cycle, in 2 modes: full load with late refresh and thread switches; `--minimize-reads` and `--skip-failed-resource-connections` with a type out of scope; in a third mode, plain, 2 resources of each type without references | `ImplementsOrderedApply` `VerdictFinal` `NoDanglingReference` `CapRespected` `Termination` |
| `cleanup` | 3 resources, chain, fork, join, single reference, none, cycle; 2 workers; with and without thread switches; shared ids | `ImplementsOrderedApply` `CleanupEnds` `DependentsFirst` |
| `missing` | 4 resources, two of them tests, whose names are not their keys; 192 graphs: chains, cycles through a resource that is named by its key, tests that refer to each other and to themselves; scope of one, 2 workers, both callbacks | `ImportIsClosed` `PoolEnds` |
| `lifecycle` | 2 ids, 4 modes: imports and syncs with failures and interrupts; with prunes; with crashes, filters and lost replies; one file per type with migrates, filters and truncated lists | `Tracked` `MirrorAfterSync` `CleanupOnlyRemoved` `SourceFilesKept` `OneTornFile` |
| `commands` | a type that can be fetched by id, one that can be loaded by id, a deprecated one and its successor; families of option combinations for 4 commands; failing reads, writes, deletions, a resource of each side that its model may skip, and ^C | `OnlyStalePruned` `NothingFetchedIsLost` `CleanExitIsComplete` `CleanupIsTotal` `ResetBackedUp` |
| `lazy_state` | a user, a role, two monitors with access lists, a dashboard; 8 modes: in sequence, overlapping with refresh, with cleanup, principals resolved late, dropped, failed connections skipped, and their combinations | `CreatedOnce` `AppliedRefsLive` `ListsKept` |
| `state_files` | 3 ids, 2 names, 2 processes, deletions that fail; 2 modes: one process over local files in either layout; a sync that loads from a bucket while it is written and pruned | `ExactAfterImport` `SteadyIsSeen` |
| `listing` | lists of up to 17 with up to 2 bad resources, page sizes 2, 3, 4, 8, the 5 combinations of paging and counting in use; lists of up to 2 from a server that throttles, fails, refuses and does not answer | `GoodListed` `Bounded` `ThrottlingIsTransient` `ListEnds` |
| `orders` | 4 types, 2 items and 1 extra, 4 syncs, 1 change by others, with cleanup and missing items tolerated and with neither | `ReportedOrderMirrors` `ExtrasKeepOrder` |
| `downtimes` | one downtime of 3 families of versions: one-time, two windows, rules without end; 2 edits, 3 passes, 1 lost answer or deletion by others | `NoOrphan` `NeverOutlasts` `WindowsCovered` `FaithfulAfterPass` `FaithfulCopyKept` |
| `accounts` | 2 users in 1 team, 3 roles (built-in, plain, managed by the destination), 4 permissions, 2 levels, 3 starts; up to 2 edits and 3 migrates with and without cleanup, 1 fault (refusal, lost answer, short or failed read, ^C or crash) | `AccessReaches` `RolesAreHeld` `DiffsConverge` `OnlyDroppedIsTaken` |
| `lifecycle_emptied` | migrates with failures | `MigrateOnlyRemoved` is violated |

**Bounds, and why they are enough.**
Three resources give a chain, a fork, a join and a cycle, and with two workers
one can be under way while another is queued and a third waits for both. The
graphs of `apply` are the connected ones in which a resource refers to earlier
ones, one with a resource apart, and a cycle. Contention for the limits needs two
resources of each type that are ready together: the mode `Plain` has them, four
without references, two for the lock and two for the semaphore at one slot, and
either half of `CapRespected` fails there when its limit is not taken. `MCInit`
ties the mode to the empty graph and to four resources that are all to be created,
and leaves the fourth resource out of the other modes, where it would only
multiply the states. In `missing` the two tests `r2` and `r4` refer to each other or
to themselves, as synthetics tests with subtests may; `MaxQueued = 3` bounds the
number of times that one name is in the queue, and where the pool is not one that
`Revolves` the number never exceeds it, so the bound cuts off nothing `PoolEnds`
speaks of. Two ids make "this one, not the
other" visible in a state that every action treats id by id; `MaxCopies = 2` is
one more than any history should reach. In `commands` two monitors are the least
of which a part can be selected, fetched or lost; the families cross the options
that meet in the code and leave the others at their defaults; `reads` 0, 1 and
201 and `threshold` 0, 50 and 100 are the boundaries of their checks. Lists of 17
hold two full pages of eight and a rest, and every smaller page size several
times over, so that the halving 8, 4, 2, 1 starts and resumes at every offset;
sizes 2 and 3 are small enough for two isolations to meet. The short lists of the
same run have every reply on every request; `glitches = 1` keeps server errors
that are not those of a bad resource to one, since a persistent one is asked for
ever (*Disagreements*). `RetryTimeout = 300` has room for the whole schedule 30,
60, 120 and is reached by the headers. `MaxId = 2` is one id more than
`CreatedOnce` allows. Two items and an extra are the least that an order can
confuse; four syncs are one that creates, one that finds the result changed or
partly failed, one that repairs it or fails again, and one that may take what
the failures left for equal (three hide a case, see *Disagreements*); `MaxMade = 2`
lets an item be created again under a new id while its old id is still in a stored
order.

In `downtimes` a tick is half a minute, which is the precision at which the code
rounds (`Minute = 2`), so a moment inside a minute exists. `Horizon = 14` covers
two windows of the families with the time between them; bounded rules are over
before `2 * Horizon`, up to which they are evaluated. `Gap` is an occurrence
that a change of local time leaves out. `WindowsApart`, an assumption that the
run evaluates, keeps windows further apart than an import and its requests; the
other case is under *Disagreements*. Three passes create, find changed, and
repair; three objects are one per creation. In `accounts` the two users share a
team and differ in email and roles; the second start has a stranger's account
and seat for the one and a disabled user for the other; two edits suffice to
change something and change it back, which is the sequence that hides a change
from a diff. The roles of these two starts agree. In the third the roles have to
be created, adopted and changed, and one user waits for them; two migrates and one
edit are left, which is one pass that writes and one that finds what was written.
Its four permissions are one that both organizations have, one that the
destination lacks, one that it leaves out and one that it may take for invalid
(`AllowPartial`). Without roles the instance passes with two faults, and with
three edits, as well.
Users with a built-in role that the destination lacks are passed over by a pass
without failure; what `AccessReaches` says of users is therefore for
organizations where there is none (`BuiltinShared`), as in all three starts.
`MaxVersion = 2` tells an old entry from a new one in the run of `state_files`
with one process; its concurrent mode needs no versions. A deletion may fail in
both modes: the file stays in `todo` and `Pruned` goes on without it.

**Deadlock.** A pass, a pool, a call, a listing or a command that is over repeats
itself (`Terminated`, `Ended`, `Returned`, `ListReturned`), so it is no deadlock,
and a place in which it cannot go on is one. `CHECK_DEADLOCK FALSE` stands in
`apply` and `cleanup`, because there the system may really stop: after a thread
switch inside the sorter the workers are gone and the feeder polls for ever
without a change (`Termination` and `CleanupEnds` say where that cannot happen);
and in `orders`, `downtimes` and `accounts`, whose histories are over when their
passes are.

**Fairness.** The event loop runs its ready coroutines in turn, so weak fairness
holds for the feeder, for the cancel worker and for each worker on its own; the
executor thread is scheduled by the operating system; a request returns or
raises because the client gives each a timeout (`CustomClient._client_timeout`),
which also justifies the weak fairness of `listing`. Locks and semaphores of
asyncio are first come, first served, and weak fairness of each worker suffices
because a pass has finitely many holders. The prompt of the cleanup is answered.
Nothing is assumed of outcomes: everything may fail. The other modules have
safety properties only; nobody has to run the next command.

## 4. Proofs

For all values of the constants that satisfy the modules' named assumptions.

**ApplyResources_proofs** (any resources, types, limits, workers, graphs and
modes). `TypeOKCorrect`, `SingleFlightCorrect`, `VerdictFinalCorrect`,
`NoDanglingReferenceCorrect`, `CapRespectedCorrect`, `CountersBalanceCorrect`,
`SettledWhenDumpedCorrect`, `ShutdownWhenDrainedCorrect`, `ApplyIsOrdered`.

None of the properties is inductive. `SingleFlight` needs where every node is:
`SorterInv` (finished within counted within taken, and the dependencies of what
is taken are finished) and `Placement` (what was passed out is queued, in a
worker or finished), together `PoolInv`. `VerdictFinal` needs `GraphInv`: each
reference of a node is an edge, is in the destination, or was filtered out, and
no edge to a filtered-out node survives; so what a resource finds missing at its
turn is an edge that is finished already, and only a resource in a worker can
still enter the destination. `PlainIds` is assumed: references name state keys
(for synthetics tests they do not, see *Disagreements*). `CapRespected` and the
permits of `SettledWhenDumped` follow from `PermitInv`, an equation between free
slots and holders. `SettledWhenDumped` holds with thread switches too: the
feeder returns only from an inactive sorter, and an inactive sorter over an
acyclic graph has finished every node (`InactiveIsDrained`).
`ShutdownWhenDrained` is stated for modes without switches; with them TLC finds
the race. `ApplyIsOrdered` is the refinement: initial states map to initial
states and each step to a step of `OrderedApply` or a stutter.

**CleanupResources_proofs** (any resources, types, workers, graphs and modes).
`TypeOKCorrect`, `DependentsFirstCorrect`, `CleanupIsOrdered`, and the lemmas of
the apply pass in their form for a cleanup: `PoolInv` (plan, sorter, placement,
single flight), `GraphInv` (the edges of a target are its dependents among the
targets), `OutcomeInv` (what has left the state was deleted in this cleanup, so
what the sorter calls finished has been tried) and `DrainInv`.
`DependentsFirst` assumes that both organizations use the same ids
(`IdsShared`): the graph is built from the ids in the destination's resources,
which are read as keys (RH:1519), and where they are not there are no edges and
no order. The refinement needs no such assumption. Thread switches inside the
sorter are allowed in both.

**Import_proofs**. Of `MissingDependencies` (any resources, names, scope, graphs
and workers): `TypeOKCorrect`, `ImportIsClosedCorrect`. The invariant follows a
name from where it is found missing: it is pending (queued, or in a worker) until
it is stored or has failed, so what a visited or imported resource lacks is always
pending or failed. The pool ends with nothing pending, because the worker that
returns last found the queue empty, and only a worker that runs can fill it
(`EndInv`).

Of `StateFiles` (any ids, names, processes and modes): `ExactAfterImportCorrect`,
`SteadyIsSeenCorrect`. `FilesInv` says: a process has
files to read, writes and deletions in hand only in the steps that deal with them
(`InHand`); a file that is not there is empty (`Exists`); as long as the layout does
not change, an id has its entries in one file of each origin, that of its name or
that of the whole type, and what is being written is in that form too (`Housed`);
and while a load goes on, each entry that was in the files since they were listed is
in memory or in a file still to be read (`Seen`). `SteadyIsSeen` needs `Seen`, and so
is about buckets, where an object is written whole: a local file is empty for a
moment (`~Local`), and entries move when the layout changes (`~Switched`). For
`ExactAfterImport` the process is alone with the storage, and its own steps are
followed (`ExactFacts`): what is already written of an import is what memory has,
each file that is listed for deletion is claimed by no imported resource, and after
a pruning no file is left but those that some resource in memory claims, and those
whose deletion failed, which are none that the import wrote. Two ids
whose names are made safe to the same file are therefore told apart nowhere but in
memory, which is what the property says.

**Commands_proofs** (any types, ids, options, starting files, organizations,
undeletable items and failures). `TypeOKCorrect`, `NothingFetchedIsLostCorrect`,
`CleanExitIsCompleteCorrect`, `CleanupIsTotalCorrect`, `OnlyStalePrunedCorrect`,
`ResetBackedUpCorrect`: all of the properties of its run. The invariant follows
what was asked for through the phases of a command. What is wanted and can be had
is waiting, asked for, in the queue or in memory, and in the files at the end,
unless a failure was logged (`Collected`); what failed is counted (`Counted`) and
a type whose transient failures reach the threshold has logged it (`Budget`), which
is what ties the exit code to the loss; what is to be applied is in the queue, in
memory, or skipped by its model, unless an error was logged (`Applied`); memory has all of a type that is marked
authoritative (`Complete`), so pruning its files takes only what is stale; a
forced cleanup has all of the destination's files before it, for the options
under which it would not are refused (`Cleaned`, `Places`); and nothing is deleted
by a reset before the files of the backup have it (`Saved`). `Fresh` says that
what a command has not come to is untouched. The one assumption on options is that
a file of ids is finite.

**Lifecycles_proofs**. Of `StateLifecycle` (any set of ids and any modes):
`TypeOKCorrect`, `TrackedCorrect`, `NoDuplicatesCorrect`,
`MirrorAfterSyncCorrect`, `CleanupOnlyRemovedCorrect`, `SourceFilesKeptCorrect`,
`OneTornFileCorrect`.
`Tracked` is about idle
states; `TrackInv` says where a counterpart is known at each step of a run (in
memory while a pass runs, in memory and on its way to the files while they are
written). `PruneInv` follows a resource that has not been removed through the
listing, the import and the writing, so that no cleanup and no prune meets it.
`MirrorAfterSync` needs two parts more: what the destination state or a file knows
has a counterpart, or was removed from the source and will not come back
(`GoneFacts`); and in a run without faults so far, cleanup and apply leave nothing
undone behind them (`MirrorFacts`). `OneTornFile` needs that
with imports and syncs alone only a sync writes destination files, and that it
prunes none (`WriterInv`): it puts one file after the other, so a kill takes the
one that is open (`TornLoses`).

Of `DowntimeSchedules` (any clock, rules, gaps, families of versions and limits):
`DowntimeTypeOKCorrect`, `NoOrphanCorrect`, `NeverOutlastsCorrect`,
`WindowsCoveredCorrect`, `FaithfulCopyKeptCorrect`, `FaithfulAfterPassCorrect`, all
of the properties of its run. The proof is in two halves. The first is about the
operators alone, for every rule and every moment. A rule rebased to its first
occurrence after a cutoff has exactly the occurrences after it, its COUNT reduced
by those that are over, gaps left out of both (`RebasedIs`). A bridge covers the
active window from the plan to its end less the rest of a minute, and is missing
only when there is less than a minute (`BridgeIs`). `PartsFollow`: a schedule that
consists of the windows after the cutoff and such a bridge mutes when the source
does, up to what is excused. `CurrentLater`: a window that
is active at any moment up to the last request of a pass is the one that was read as
current at its import; this is where `WindowsApart` and the bounds `Lag` and
`Latency` are needed. `DecisionIs` goes through the cases of
`_prepare_update_recurrences`: what is sent follows the source in this sense, what
is left alone has the source's cadence or mutes at that moment, and a copy is
replaced or canceled only when it mutes otherwise at some moment from the plan on
(`Differ`). The second half is the invariant `DowntimeInv`
of a pass: how old the import, the
plan and the request are (`ReadOK`, `TimeOK`); that entry and object agree unless
in `doubt`, and are of the family's kind (`EntryOK`, `ObjectsOK`); where there is
an entry and an import to work on (`PlaceOK`); what gave way to the destination's
dates (`KeptOK`); what is prepared for the request that is due, as the first half
says it (`WriteOK`); and that no object is without its entry, nor any there when
one is created (`Kin`).

**Lists_proofs**. Of `RequestRetry` and `Pagination` (any timeout, latencies, statuses and headers). Of
`RequestRetry`: `BoundedCorrect`, `ThrottlingIsTransientCorrect`,
`BackoffGrowsCorrect`, each
from an invariant that ties the retry counter to the requests sent, to the last
reply and to the place in the schedule. A listing carries the
invariant along: a request is a step of the retry loop
(`RequestIsStep`), and a page that follows begins it anew. Hence
`ListBoundedCorrect` and `ListThrottlingIsTransientCorrect`, for any list and
any paging.
`GoodListedCorrect` is about what is listed, for lists and pages of any size.
While no page fails, pages are full and in order, and what lies before the next one
is listed (`Whole`). Around a single bad resource in a listing whose pages are
counted by `idx` and sent as offsets, the arithmetic of halving is followed: before
the resource is isolated, what was attempted is what lies before the next page, and
the saved page is the one it is in (`Ahead`); after it, pages of one resource go to
the end of the saved page, and full pages from there (`Behind`). `Answer` says
what the reply tells of the page that was asked for: a page with a bad resource is
never answered with 200. `ListTypeOKCorrect` gives the ranges.

Of `Orders` (any items, extras, kinds, options, and lists of any length):
`OrdersTypeOKCorrect`, `ReportedOrderMirrorsCorrect`, `ExtrasKeepOrderCorrect`.
The first half is about sequences: `Only`, a recursive function, is what its
recursion says (`OnlyIs`), keeps the members that it should (`OnlyElements`),
distributes over concatenation (`OnlyJoined`) and composes (`OnlyOnly`). Each is an
induction over sequences, which is had without the library's induction theorems:
the sequences for which the claim holds are a set, a set of lengths has a least
member (`LeastOf`), so a set that has the empty sequence and whatever is one
longer than a member has all (`AllSequences`). From these: what merging two
orders, and placing the result, keeps of each (`MergedIs`, `PlacedIs`). The second
half is `OrdersInv`. Unless the order may have changed since (`doubt`), the
destination agrees with the stored order and with the one that was read on what
they share (`ToldOK`); no order names a generation that is not made yet
(`MadeOK`), so a new object is in none of them; and what is to be put is the
merge of the wanted order into one that has every wanted object which the
destination has, or is refused (`ReadyOK`).

**LazyState_proofs** (any resources, references, access lists, processes and
modes). `TypeOKCorrect`, `ListsKeptCorrect`, `CreatedOnceCorrect`,
`AppliedRefsLiveCorrect`. For `ListsKept`: a principal that is not found is
dropped because the process looked it up and got nothing, and such an id is
never looked up again, so the invariant must say what "looked up" is worth later
(`Knows`): one that was not imported is in the destination state, or in no file,
or the process deleted it; one that was imported is in the source state or in
the destination state. A file is written for what
the process has and never removed, so what it had when it was looked up stays.
`CreatedOnce` needs that the processes apply one at a time (`Turns`), that a
process has read the files of all that its graph consists of, after the process
before it wrote them (`Reads`, `Fresh`), and that a counterpart is known to a file
or to the process that applies (`Single`). `AppliedRefsLive` needs that entries
are of what exists, and files too until a cleanup begins (`LiveInv`).

**Accounts_proofs** (any users, teams, roles, permissions, starts and limits).
`RolesAreHeldCorrect`: an entry of a user is never ahead of its account.
`AccountsInv` says the same of the map of existing accounts and of the files, from
which later passes and restarted processes take their entries; accounts keep the
roles they have (`Grows`), which is what carries all three over every step. It
holds in spite of lost answers and crashes because a handler enters a role only
after the answer to its request. `RolesAreHeldWithRoles` is the same of the
composition, whose steps are steps of `Accounts` or leave it alone.
`DiffsConvergeCorrect` and `RolesReachCorrect` rest on `RolesInv`: the entry of a
role that is not `behind` is what the destination has (`EntriesOK`); in a pass
that is clean so far the source state of a role whose turn has not come is what
was read (`ReadOK`), the map is what the destination has of it (`MapOK`), and a
role whose turn is over is reached and finds no difference (`AppliedOK`); and no
turn is left when the pass dumps (`TodoAtEnd`). `AccountsReachCorrect` needs more
of the users than that entries are not ahead: an entry that is not `unsure` says
what the account is (`AsEntered`), for the PATCH is left out when they agree; the
map of accounts is the destination's for those whose turn has not come, however
many the pass has changed (`MapsOK`); and a user's turn is before its seats'
(`TurnsOK`), so that a seat passed over for its user stays so.
`AccessReachesCorrect` puts the two together: in a clean pass nobody waits in vain
for a role, since the roles of users exist (`RolesExist`, an assumption on the
starts) and a role whose turn is over has a counterpart, unless it is built-in and
missing in the destination (`CreatedOK`). `OnlyDroppedIsTakenCorrect` follows from
`DropInv`: the state has entries only of seats that the tool gave, and what a team
that was read to its end does not tell of, the source is, or has been, without.

**Model-checked only.** Liveness (`Termination`, `CleanupEnds`, `PoolEnds`,
`ListEnds`), because fairness and `ENABLED` are beyond the prover.
`MigrateOnlyRemoved` is violated. All other properties of the runs are proved.
`SingleFlight`, `CountersBalance`, `SettledWhenDumped`, `ShutdownWhenDrained`,
`NoDuplicates`, `BackoffGrows`, `AccountsReach`, `RolesReach` and the type
invariants are proved without a run of their own. No module has a recursive
operator: closures are stated as smallest closed sets, and the one recursion over
sequences (`Only`) is a recursive function.

## 5. Findings

A run that violates a property which the repository itself states.

* `lifecycle_emptied`, `MigrateOnlyRemoved`. A failed listing leaves the source
  state of the type empty (RH:792); `migrate --cleanup` goes on and deletes the
  whole type from the destination, which README.md:204 describes as deletion of
  what was removed from the source.

### Disagreements met while modelling

Each can be seen by changing the instance as described in italics; the properties
of the passing runs exclude these cases by the conditions they name.

*Apply and cleanup.*

* `workers.py:80`. `_cancel_worker` asks the sorter in an executor thread whether
  it is active. CPython's `get_ready` clears the ready list before it adds the
  nodes to its counter; a switch between the two, when nothing else is under way,
  shows an inactive sorter. The workers stop with nodes left (RH:582, 1287-1288)
  and the feeder polls for ever, where
  `tests/unit/test_run_sorter_transitive_deps.py:66-67` expects the sorter to
  drain. *`apply` with `gilYields |-> TRUE` in `Scoped` and `ShutdownWhenDrained`
  without `~GilYields`.*
* RH:1290. On a full load, nodes of a type outside `--resources` are dispatched
  without edges of their own; they may fail for a reference that the same pass
  creates. *`apply` with `resourcesArg |-> {"serial"}`, `minimizeReads |-> FALSE`,
  and `Nodes` for `keys` in `VerdictFinal`.*
* RH:1405. A failed reference to a synthetics test becomes a node under the
  public id, which no state has: a suite is not ordered after its test.
  *`apply` with an `EdgeTo` that maps r1 to r3, and r2 referring to r1.*
* RH:1519. The cleanup graph reads destination ids and looks them up among
  source ids: between organizations whose ids differ it has no edges. *`cleanup`
  with `ReadsAs` constantly `NoResource`: `DependentsFirst` fails.*
* RH:1265. A deletion that failed still releases the deletion of its
  dependencies, though RH:1350 says "Resources are only deleted after all their
  dependents are deleted." *`outcome[r] = "success" => q \notin org` for each
  target q that refers to a target r.*
* RH:391. The refresh before apply comes after the cleanup and reads back the
  files of what cleanup deleted. *`CleanedUp` with `refresh = TRUE`.*
* `base_resource.py:478`. A principal that cleanup deleted is read back from its
  file when a restricted resource is applied, and its dead id is sent.
  *`CleanedUp` with `principals = {user}`: `AppliedRefsLive` without
  `NotReadAgain`.*

*Import, state and storage.*

* RH:1452. At a sync, a dependency that has no counterpart yet is looked up in the
  source state by the name the reference has. A synthetics test is named by its
  public id and keyed by public id and monitor id, so it is missing even when it was
  imported a moment ago, and RH:1233 queues it again. Two tests that refer to each
  other, or one that refers to itself (`synthetics_tests.py:31`,
  `steps.params.subtestPublicId`), are imported again and again, and the pool of
  `--force-missing-dependencies` never ends. The import side looks the key up by its
  prefix (RH:1038) and ends. *`missing` with `PoolEnds` as `<>~running`.*
* RH:1231. A forced import adds the name it was asked for to the graph, not the
  key: an imported synthetics test is passed over. *`missing` with
  `~running /\ atSync => source \ before \subseteq keys`.*
* RH:1181. The walk that seeds the import of missing dependencies (RH:1081) scans
  what was in the source state before, the pool what it imports; a resource that
  was there before and is reached only through an imported one is scanned by
  neither, though RH:1084 promises the dependencies of present resources as well:
  with r1 -> r2 missing, r2 -> r3 present, r3 -> r4 missing, r4 is not fetched.
  *`missing` with `AllReachedIsClosed`.*
* RH:742. An import with `--filter` marks its type authoritative, so the dump
  deletes the files of what the filter left out. *`SourceFilesKept` without
  `NothingHidden`, in `Syncing` with `filters = SUBSET Id`.*
* `custom_client.py:375`. A client error in the middle of a listing ends it as a
  success, with the same effect. *The same with `truncates = TRUE`.*
* `state.py:293`. A migrate without cleanup prunes the destination file of a
  counterpart that was not deleted. *`Tracked` without `NothingForgets`, in
  `Syncing` with `commands = {"migrate"}`.*
* `state.py:293`. A sync never prunes, so the destination file of a resource that
  its cleanup deleted stays, though `state.py:265-269` describes the contrary. A
  resource that comes back into scope is then never created again
  (*`MirrorAfterSync` without `NothingLeftOver`, in `Syncing` with
  `filters = SUBSET Id`*), and a later process that meets it as a dependency reads
  the file and sends the dead id (*`AppliedRefsLive` without the last condition of
  `NotReadAgain`, in `CleanedUp` with `scope = PerType`*).
  *`Idle => \A i \in destFile : copies[i] > 0` in `Syncing`.*
* `state.py:245`. A dump writes every entry in memory, those that were only
  loaded included: the entry that another process wrote meanwhile for a type of
  its own gets its old content back. Entries are ids in `LazyState`, which cannot
  tell.
* RH:986. Both listings of the fence of `prune` come after its import: a file
  that another process writes between the import and the first listing, for a
  resource younger than the import, is deleted.
* `state.py:429`. A file whose deletion fails is reported at debug level and in a
  count, and is loaded by the next command like any other; the import that would
  find it stale again removes it. *`ExactAfterImport` with `FilesOf(o)` for
  `FilesOf(o) \ todo[p]` in `Found`.*
* `storage/_base_storage.py:138`. The file of the whole type stays when
  `--resource-per-file` is turned on and is read with the others: what was
  removed comes back. *`Exact` with `switched = TRUE`: `ExactAfterImport`
  without `~Switched`.*

*Commands.*

* RH:274. A reset makes its backup by importing, then uses the imported state as
  the destination's. ^C during the deletions dumps the state like that of a sync
  (`commands/shared/utils.py:20-22`) and so writes the backup again, without what
  is deleted already; README.md:36 says it "backs up those resources first and
  fails if it cannot". The same dump replaces the destination's mapping by
  entries under destination ids. *`commands` with the invariant `BackupCovers`.*
* RH:539. A model may refuse a resource with a `SkipResource`, which is no error: the
  exit code is 0 and the destination has no entry for it. Memberships that exist
  already (`team_memberships.py:272`), built-in roles that the destination lacks
  (`roles.py:97`), objectives with an outdated query (`service_level_objectives.py:46`)
  and downtimes that cannot be created any more are passed over in this way, so exit
  code 0 does not mean that every resource has a counterpart.
  *`commands` with `CleanExitIsComplete` without `skipped`.*
* `configuration.py:728`. `migrate --id-file --cleanup=Force` is accepted: the
  guard covers `--minimize-reads` only. The import has the ids of the file, and
  everything else in the destination is an orphan.
* `--id-file` without `--resource-per-file` replaces the file of the whole type
  by the ids it fetched.
* RH:860. Ids of `--id-file` that failed, below the threshold or for good, are
  counted but not logged as errors, and the exit code is 0.
* `configuration.py`: `--max-concurrent-reads` limits each type and not the
  command; a `reset` of everything with `--json` is refused whatever else is
  given; `--skip-failed-resource-connections` says "Skip resource" and then
  applies the resource with what it has.

*Client.*

* `custom_client.py:371`. With the default page numbers the listing resumes on
  the wrong page after a bad resource was isolated: good resources are skipped,
  and nothing says so, though the comment at `custom_client.py:364` is about
  starting "on the right page number". *`listing` with `AllGoodListed` and
  `Long(ByNumber, 2)`.*
* `custom_client.py:327`. The index saved at the first server error is stale after
  a second bad resource, with notebooks' paging too. *`listing` with
  `AllGoodListed` and `ByIndex`.*
* A server that keeps failing is asked for ever: each failure counts as one more
  bad resource and is followed by another page (`remaining = 1`, line 374). In the
  model `glitches` bounds the failures that are not those of a bad resource.
* `custom_client.py:97`. A call may sleep for a whole rate limit window and end
  without the request it slept for, after logging "retrying request after".
* `custom_client.py:133`. A POST answered with a server error is sent again, though
  the first may have been carried out. What the server did is not modelled.

*Ordered resources.*

* `resource_utils.py:107`. The comparators of orders "exclude extra pipelines in
  destination" from their first argument. `diffs` passes the destination first
  (RH:659), sync passes the source first (RH:507), so in a sync they exclude what
  is new in the source: an item created after the order was stored is never
  ordered, and the order counts as "No differences detected". *`orders` with
  `verdict = "skipped"` for `NothingNew`.*
* `model/logs_indexes_order.py:55`. The order of the destination is read before
  the indexes of the same pass are created; the put then lacks them, though
  `logs_indexes_order.py:96` "requires all logs indexes in the destination org to
  be included", and is refused. As `create_resource` has stored the order it read
  (line 61), the next sync compares with that and may find no difference (previous
  item). *`[][~PutRefused]_ordersVars` with `Kinds = {"logs_indexes"}` and
  `MaxOutside = 0`.*
* `model/logs_indexes.py:90`. Cleanup moves an index that is gone from the source
  to the end of the order and leaves the stored order as it is. If the put of
  that sync fails and the index comes back to the source, the next sync finds the
  stored order equal, "No differences detected", while the destination has the
  index last. Hence `doubt` in `Delete`. *`orders` with `doubt` unchanged by
  `Delete`: four syncs show it, three do not.*
* `model/sensitive_data_scanner_groups_order.py:115`. The retry waits for
  `ClientResponseError`, which the client never lets through: it raises
  `CustomClientHTTPError` (`resource_utils.py:90`). An outdated version is a
  failure at once (`PutFails`).

*Downtimes* (`model/downtime_schedules.py`).

* Lines 605-621: the destination's start and end of a one-time downtime are kept
  whenever the source's are earlier, so shortening it or moving it forward never
  arrives (`Kept`).
* A window that begins within a minute after the plan is in neither part of a
  write: it has not begun, so it is not bridged, and it is before the cutoff of
  the future cadence (`Excused`).
* Line 279: the `current_downtime` of the destination's entry is as old as the
  last write; when it names a window that is over, the bridge is refused at each
  sync until the active window has ended.
* Of two windows that overlap only one is bridged (`WindowsApart`).
* A PATCH whose answer is lost, followed by an edit back in the source, leaves the
  object changed: the diff finds nothing (`doubt`).
* A create whose answer is lost, if the next pass writes another form, leaves an
  orphan (`lost`).

*Accounts* (`model/users.py`, `model/team_memberships.py`).

* A PATCH or DELETE whose answer is lost, or an account changed just before a
  crash, followed by an edit back in the source, is not repaired: entry and source
  agree. *`AccessReaches` without `unsure`.*
* `team_memberships.py:293-295` compares the entry with the seat it found, not with
  the source: a level that changed in the source never arrives. *`holds[s] =
  rows[s]` for s in `made` after a clean pass.*
* `team_memberships.py:188-199`. A team of which a page fails contributes the rows
  before it, with a warning, as `tests/unit/test_team_memberships_id_file.py:151`
  expects; a cleanup of that pass takes the seats behind it.
  *`OnlyDroppedIsTaken` without `whole`.*
* `team_memberships.py:329-334`. The deletion of a seat that is gone fails with 404
  and keeps its entry, at every later cleanup as well.
* `team_memberships.py:272-273`. A seat found in the destination is passed over and
  never tracked, also one that the tool itself gave before a crash; no cleanup
  takes it.

*Roles* (`model/roles.py`).

* Lines 459-461: "The on-disk source state files (written by `import`) are
  intentionally NOT mutated". The trimmed source state is dumped with the rest at
  the end of the pass (RH:409), over what the import wrote. *`accounts` with
  `OnlyImportWritesSource`.*
* Lines 367-373 promise no diff for a built-in role. One that has more permissions
  in the destination, or that the destination lacks, is found different at every
  diff: only what the source has more is trimmed. *`DiffsConverge` without its
  last condition.*
* A list of source permissions that cannot be read leaves the source's ids in the
  role; the hook then leaves all of them out, and the update takes every permission
  away. With `--allow-partial-permissions-roles` a list of destination permissions
  that cannot be read has the same effect, one refused name at a time.
  *`accounts` with `NothingRevoked`.*
* A role whose name was another role's before adopts the counterpart of that
  other, which a later cleanup deletes. Names stand for ids in `Roles`, which
  cannot tell.

Not behaviour, only wording: the help of `--minimize-reads`
(`commands/sync.py:38-44`) says "Must not be combined with --cleanup", and
`configuration.py:706-743` rejects the combination only when single ids are
loaded; the comments at `custom_client.py:27-31` call the overload schedule
jittered, and it is fixed; RH:1137-1144 accepts a window in which the pool for
missing dependencies stops too early, and `ImportIsClosed` shows that what is
enqueued is imported all the same; with the default timeout of 60 s only the
first pause of the overload schedule, 30 s, can be followed by a request.

## 6. Not modelled, and why

* Content: how a class transforms, compares or filters it. It is data that none
  of the properties tells apart. `diffs` reads and prints; logging, metrics,
  reports are output.
* The other resource models: most have no protocol beyond create, update and
  delete; those that have one are in the plan.
* In `BuildConfig`: the options of `prune` and `diffs`, the choice and the keys of
  a storage, `max_workers_per_type`, `--config`. In `Commands`: the semaphore of
  `get_resources_by_ids` (its results are collected before any is used) and the
  fetching of team memberships by id.
* In `Accounts`: handles are unique and never change; DELETE disables an account
  and takes neither roles nor seats; giving a role that is there succeeds; teams
  are mapped already; a listing of users that fails altogether is in
  `StateLifecycle`. In `Roles`: no role is removed or renamed, and nobody else
  edits one in the destination. Service accounts are not there.
* Changes of the organization during one listing: what the API guarantees
  between two pages is not in this code.
* Two applies over the same type at the same time: the code has no protection
  against it and its options give each type to one process.

## 7. Plan

Done: the import by ids and its abort, the combinations of options, reset
(`BuildConfig`, `Commands`), downtimes, users, team memberships and roles. Left,
in this order:

1. Service accounts and mobile application versions; roles that are removed or
   renamed.
2. An abstract `Mirror` (after a clean pass the destination has one counterpart
   per source resource, after any pass none that is unknown), implemented by
   `Orders`, `Accounts` and `StateLifecycle`.
3. Proofs: steps of the components as steps of `Mirror`.
