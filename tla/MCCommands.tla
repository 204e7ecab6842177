----------------------------- MODULE MCCommands -----------------------------
(***************************************************************************)
(* Instances of Commands for TLC: a type whose resources can be fetched by *)
(* id (monitors), one whose state alone can be loaded by id (host_tags),   *)
(* and a pair of a deprecated type and its successor.                      *)
(***************************************************************************)
EXTENDS Commands

CONSTANTS Monitors, HostTags, Downtimes, DowntimeSchedules

AllTypes     == {Monitors, HostTags, Downtimes, DowntimeSchedules}
FetchTypes   == {Monitors}
LoadTypes    == {Monitors, HostTags}
RenamedTypes == {<<Downtimes, DowntimeSchedules>>}

m1 == <<Monitors, 1>>
m2 == <<Monitors, 2>>
h1 == <<HostTags, 1>>
BuiltIn == {h1}

\* What a model may skip: a monitor without a group, tags of a host that is gone.
Refusable == {m2, h1}

NoIds == [t \in AllTypes |-> {}]
Ids(M, H) == [NoIds EXCEPT ![Monitors] = M, ![HostTags] = H]

\* The defaults of the command line.
Default(cmd) ==
  [cmd |-> cmd, resources |-> {Monitors, HostTags}, idFile |-> NoIds,
   filter |-> NoIds, exact |-> FALSE, perFile |-> TRUE, minimize |-> FALSE,
   skipLoad |-> FALSE, json |-> FALSE, backup |-> TRUE, cleanup |-> "false",
   reads |-> 30, threshold |-> 50]

IdFiles == {NoIds, Ids({1, 2}, {}), Ids({1}, {1})}

ImportOptions ==
  {[Default("import") EXCEPT !.idFile = f, !.perFile = p, !.threshold = n]
     : f \in IdFiles, p \in BOOLEAN, n \in {0, 50, 100}}
  \cup {[Default("import") EXCEPT !.idFile = f, !.filter = Ids({1}, {}),
                                  !.skipLoad = TRUE, !.perFile = p, !.reads = r]
          : f \in IdFiles, p \in BOOLEAN, r \in {0, 1, 201}}

\* Filters, and whether they name ids.
Filters == {<<NoIds, FALSE>>, <<Ids({1}, {}), FALSE>>, <<Ids({1}, {}), TRUE>>}

SyncOptions ==
  {[Default("sync") EXCEPT !.resources = R, !.idFile = f, !.filter = g[1],
                           !.exact = g[2], !.perFile = p, !.minimize = n,
                           !.cleanup = c]
     : R \in {{}, {Monitors}, {Monitors, HostTags}, {Monitors, Unknown}},
       f \in IdFiles, g \in Filters, p \in BOOLEAN, n \in BOOLEAN,
       c \in {"false", "true", "force"}}

MigrateOptions ==
  {[Default("migrate") EXCEPT !.resources = R, !.idFile = f, !.cleanup = c,
                              !.perFile = p, !.json = j]
     : R \in {{}, {Monitors}, {Downtimes, DowntimeSchedules}},
       f \in {NoIds, Ids({1}, {})}, c \in {"true", "force"}, p \in BOOLEAN,
       j \in BOOLEAN}

ResetOptions ==
  {[Default("reset") EXCEPT !.resources = R, !.idFile = f, !.backup = b,
                            !.perFile = p, !.json = j]
     : R \in {{Monitors}, {Monitors, HostTags}}, f \in IdFiles,
       b \in BOOLEAN, p \in BOOLEAN, j \in BOOLEAN}

Orgs == {{m1, m2}, {m1, m2, h1}}

\* What a command does not read is empty.
StartsOf(Options, orgs, refused, srcs, dests) ==
  {[option |-> o_, org |-> org_, unwanted |-> w, src |-> s, dest |-> d]
     : o_ \in Options, org_ \in orgs, w \in refused, s \in srcs, d \in dests}

Files == {{}, {m1}, {m2, h1}, {m1, m2, h1}}

AllStarts ==
  StartsOf(ImportOptions, Orgs, {{}, {m2}}, {{}, {m2, h1}}, {{}})
  \cup StartsOf(SyncOptions, {{}}, {{}}, Files, Files \cup {{m1, m2}})
  \cup StartsOf(MigrateOptions, {{m1, m2}}, {{}}, {{}, {m1, h1}},
                {{m2}, {<<Downtimes, 1>>, <<DowntimeSchedules, 1>>}})
  \cup StartsOf(ResetOptions, Orgs, {{m2}}, {{}}, {{}, {m1}})

ResetStarts == StartsOf(ResetOptions, Orgs, {{}}, {{}}, {{}})
=============================================================================
