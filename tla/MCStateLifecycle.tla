-------------------------- MODULE MCStateLifecycle --------------------------
(* Instances of StateLifecycle for TLC.                                    *)
EXTENDS StateLifecycle, TLC

CONSTANTS i1, i2

\* Full imports and syncs, one file per resource.
Syncing ==
  [perFile |-> TRUE, commands |-> {"import", "sync"}, filters |-> {Id},
   failures |-> TRUE, truncates |-> FALSE, lostReplies |-> FALSE,
   stops |-> {"interrupt"}]

\* The same with prunes.
Pruning == [Syncing EXCEPT !.commands = @ \cup {"prune"}]

\* Filters, lost replies, and processes that are killed.
Crashing == [Syncing EXCEPT !.filters = SUBSET Id, !.lostReplies = TRUE,
                            !.stops = {"crash"}]

\* One file for the type, with migrates, filters and truncated lists.
OneFile == [Syncing EXCEPT !.perFile = FALSE, !.filters = SUBSET Id,
                           !.commands = {"import", "sync", "migrate"},
                           !.truncates = TRUE]

FourModes == {Syncing, Pruning, Crashing, OneFile}

\* Migrates with failures.
Migrating == {[Syncing EXCEPT !.commands = {"migrate"}, !.stops = {}]}
=============================================================================
