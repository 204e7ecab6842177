-------------------------------- MODULE Roles --------------------------------
(***************************************************************************)
(* The roles that the users of Accounts have, with their permissions       *)
(* (model/roles.py), in the same migrations: a role is written before the  *)
(* users that wait for it.                                                 *)
(*                                                                         *)
(* A role has one name for life, which stands for its ids, and no role is  *)
(* removed.  A permission has an id in each organization and a name common *)
(* to both: the import turns source ids into names, the hook before an     *)
(* apply turns names into destination ids, and each needs a list that is   *)
(* read once and may fail to be read.  The destination may write less than *)
(* was sent, without an error.                                             *)
(***************************************************************************)
EXTENDS Accounts

CONSTANTS
  Perm,
  Offered,       \* permissions that the destination has
  Gated,         \* those that it may leave out silently
  AllowPartial,  \* --allow-partial-permissions-roles
  Builtin,       \* BUILTIN_ROLE_NAMES
  Managed,       \* roles that the destination manages
  RolesAt        \* the roles of the two organizations, for each of Starts

Roles     == [Role -> {None} \cup SUBSET Perm]
Row       == [perms : SUBSET Perm, raw : BOOLEAN]
RoleStart == [source : Roles, dest : [Role -> {None} \cup SUBSET Offered],
              edited : SUBSET Role]

ASSUME RolesAssumption ==
  /\ None \notin Row /\ \A perms \in SUBSET Perm : perms # None
  /\ Offered \subseteq Perm /\ Gated \subseteq Offered /\ AllowPartial \subseteq Perm
  /\ Builtin \subseteq Role /\ Managed \subseteq Role
  /\ RolesAt \in [Starts -> SUBSET RoleStart]
  /\ \A s \in Starts : \A p \in RolesAt[s] : \A u \in User :
       s.source[u].roles \subseteq Present(p.source)

VARIABLES
  edited,        \* roles that the source edits, a bound
  srcRoles,      \* the source organization
  destRoles,     \* the destination organization
  roleRecords,   \* state.destination["roles"]
  savedRoles,    \* its file
  importedRoles, \* state.source["roles"]
  roleFile,      \* its file
  knownRoles,    \* Roles._existing_resources_map
  fetched,       \* destination_permissions has been read
  roleTodo,      \* what is left of the phase
  behind         \* roles whose entry may be behind

roleOrgs == <<edited, srcRoles, destRoles>>
roleVars == <<roleOrgs, roleRecords, savedRoles, importedRoles, roleFile,
              knownRoles, fetched, roleTodo, behind>>

NoRoles == [r \in Role |-> None]

RolesInit ==
  /\ Init
  /\ \E s \in Starts :
       /\ <<source, seats, accounts, holds, spent>>
            = <<s.source, s.seats, s.accounts, s.holds, s.spent>>
       /\ \E p \in RolesAt[s] :
            srcRoles = p.source /\ destRoles = p.dest /\ edited = p.edited
  /\ roleRecords = NoRoles /\ savedRoles = NoRoles
  /\ importedRoles = NoRoles /\ roleFile = NoRoles
  /\ knownRoles = NoRoles /\ fetched = FALSE
  /\ roleTodo = {} /\ behind = {}

\* A step that is about roles only.
OnlyRoles == UNCHANGED <<orgVars, stateVars, readVars, pc, cleanup, todo, whole,
                         ghostVars>>

-----------------------------------------------------------------------------
(* The source organization, and the import.                                *)

\* A role is made, or gets or loses a permission.
EditRole(r, perms) ==
  /\ pc = "idle" /\ r \in edited /\ perms # srcRoles[r] /\ Spend("edits")
  /\ \/ srcRoles[r] = None
     \/ srcRoles[r] # None /\ \E p \in Perm : srcRoles[r] \ {p} = perms \ {p}
  /\ srcRoles' = [srcRoles EXCEPT ![r] = perms]
  /\ UNCHANGED <<edited, destRoles, roleRecords, savedRoles, importedRoles,
                 roleFile, knownRoles, fetched, roleTodo, behind>>
  /\ OnlyRoles /\ UNCHANGED clean

\* Users have roles that exist.
EditUserOfRoles(u, a) ==
  /\ EditUser(u, a) /\ a.roles \subseteq Present(srcRoles)
  /\ UNCHANGED roleVars

BeginWithRoles ==
  /\ Begin /\ roleTodo' = {"list"}
  /\ UNCHANGED <<roleOrgs, roleRecords, savedRoles, importedRoles, roleFile,
                 knownRoles, fetched, behind>>

\* import_resource: while the list of source permissions cannot be read, a role
\* keeps the ids of the source (raw).
ImportRoles ==
  /\ pc = "list" /\ "list" \in roleTodo
  /\ \E raw \in SUBSET Present(srcRoles) :
       /\ importedRoles' = [r \in Role |->
            IF srcRoles[r] = None THEN None
                                  ELSE [perms |-> srcRoles[r], raw |-> r \in raw]]
       /\ Charge(raw # {})
  /\ roleTodo' = {}
  /\ UNCHANGED <<roleOrgs, roleRecords, savedRoles, roleFile, knownRoles, fetched,
                 behind>>
  /\ OnlyRoles

\* An entry in memory is written, a file without one stays.
Written == [r \in Role |-> IF importedRoles[r] = None THEN roleFile[r]
                                                      ELSE importedRoles[r]]

EndImportOfRoles ==
  /\ roleTodo = {}
  /\ EndImport /\ roleFile' = Written
  /\ UNCHANGED <<roleOrgs, roleRecords, savedRoles, importedRoles, knownRoles,
                 fetched, roleTodo, behind>>

EndCleanupOfRoles ==
  /\ EndCleanup /\ roleTodo' = {"map"}
  /\ UNCHANGED <<roleOrgs, roleRecords, savedRoles, importedRoles, roleFile,
                 knownRoles, fetched, behind>>

\* get_destination_roles_mapping: an error leaves the map empty.
MapRoles ==
  /\ pc = "map" /\ "map" \in roleTodo
  /\ \/ knownRoles' = destRoles /\ UNCHANGED <<spent, clean>>
     \/ knownRoles' = NoRoles /\ Charge(TRUE)
  /\ roleTodo' = {}
  /\ UNCHANGED <<roleOrgs, roleRecords, savedRoles, importedRoles, roleFile,
                 fetched, behind>>
  /\ OnlyRoles

EndMapOfRoles ==
  /\ roleTodo = {}
  /\ EndMap /\ roleTodo' = Present(importedRoles)
  /\ UNCHANGED <<roleOrgs, roleRecords, savedRoles, importedRoles, roleFile,
                 knownRoles, fetched, behind>>

-----------------------------------------------------------------------------
(* The hook, then the create or the update.  What is wanted of a role is a *)
(* set of permissions, valid if they are ids of the destination.           *)

\* remap_permissions: a name that the destination does not have is left out, and
\* so is an id of the source, which is not a name.
Remapped(row, ok) ==
  [perms |-> IF ~ok THEN row.perms
             ELSE IF row.raw THEN {} ELSE row.perms \cap Offered,
   valid |-> ok \/ row.perms = {}]

\* _reconcile_builtin_role_permissions: of a built-in role only what its
\* counterpart has is wanted.
Reconciled(r, want, dest) ==
  IF r \in Builtin /\ dest # None
    THEN [perms |-> IF want.valid THEN want.perms \cap dest ELSE {}, valid |-> TRUE]
    ELSE want

\* It takes the rest out of the source state too.
RowReconciled(row, before, want) ==
  IF want.perms = before.perms THEN row ELSE [row EXCEPT !.perms = want.perms]

Equal(want, entry) == want.valid /\ want.perms = entry

\* (Nothing is taken out of the source state.)
Trimmed_Kept(row, dropped) == row

\* _reconcile_persisted_permissions.
Trimmed(row, dropped) == [row EXCEPT !.perms = @ \ dropped]

Outcome(r, entry, row) ==
  /\ roleRecords' = [roleRecords EXCEPT ![r] = entry]
  /\ importedRoles' = [importedRoles EXCEPT ![r] = row]

NotSent(r, entry, row, ok) ==
  /\ Outcome(r, entry, row) /\ Charge(~ok)
  /\ UNCHANGED <<destRoles, behind>>

\* With --allow-partial-permissions-roles the names that the destination takes for
\* invalid ids are removed one by one, and the request is repeated.
Sendable(row, want) == want.valid \/ (~row.raw /\ want.perms \subseteq AllowPartial)
Sent(want) == IF want.valid THEN want.perms ELSE {}

\* The POST, when entry is None, or the PATCH of the counterpart of r.
Request(r, want, entry, row, ok) ==
  \/ /\ \/ ~Sendable(row, want)
        \/ entry = None /\ destRoles[r] # None    \* the name is taken
        \/ ~want.valid /\ entry = {}              \* nothing is left that differs
     /\ NotSent(r, entry, row, ok)
  \/ /\ Sendable(row, want)
     /\ entry # None \/ destRoles[r] = None
     /\ want.valid \/ entry # {}
     /\ \E a \in Answer : \E dropped \in SUBSET (Gated \cap Sent(want)) :
          LET persisted == Sent(want) \ dropped
          IN  /\ r \in Managed => a = "refused"
              /\ Charge(~ok \/ a # "ok")
              /\ destRoles' = IF Done(a) THEN [destRoles EXCEPT ![r] = persisted]
                                         ELSE destRoles
              /\ IF a = "ok" THEN Outcome(r, persisted, Trimmed(row, dropped))
                             ELSE Outcome(r, entry, row)
              /\ behind' = IF a = "lost" /\ entry # None THEN behind \cup {r}
                                                         ELSE behind

ApplyRole(r) ==
  /\ pc = "apply" /\ r \in roleTodo
  /\ \E ok \in BOOLEAN :  \* the list of destination permissions can be read
       LET entry  == roleRecords[r]
           found  == knownRoles[r]
           mapped == Remapped(importedRoles[r], ok)
           want   == Reconciled(r, mapped, found)
           row    == RowReconciled(importedRoles[r], mapped, want)
       IN  /\ fetched => ok
           /\ fetched' = ok
           /\ \/ /\ entry # None /\ (Equal(want, entry) \/ r \in Builtin)
                 /\ NotSent(r, entry, row, ok)
              \/ /\ entry # None /\ ~Equal(want, entry) /\ r \notin Builtin
                 /\ Request(r, want, entry, row, ok)
              \/ /\ entry = None /\ found = None /\ r \in Builtin
                 /\ NotSent(r, None, row, ok)
              \/ /\ entry = None /\ found = None /\ r \notin Builtin
                 /\ Request(r, want, None, row, ok)
              \/ /\ entry = None /\ found # None
                 /\ (r \in Builtin \cup Managed) \/ Equal(want, found)
                 /\ NotSent(r, found, row, ok)
              \/ /\ entry = None /\ found # None
                 /\ r \notin Builtin \cup Managed /\ ~Equal(want, found)
                 /\ Request(r, want, found, row, ok)
  /\ roleTodo' = roleTodo \ {r}
  /\ UNCHANGED <<edited, srcRoles, savedRoles, roleFile, knownRoles>>
  /\ OnlyRoles

-----------------------------------------------------------------------------
(* Users, and the end of a pass.                                           *)

\* A user waits for the roles without a counterpart.
Unmapped(u) == {r \in imported[u].roles : roleRecords[r] = None}

ApplyUserOfRoles(u) ==
  /\ pc = "apply" /\ u \in todo
  /\ Unmapped(u) \cap roleTodo = {}
  /\ \/ Unmapped(u) = {} /\ ApplyUser(u)
     \/ /\ Unmapped(u) # {}  \* ResourceConnectionError
        /\ todo' = todo \ {u}
        /\ UNCHANGED <<orgVars, stateVars, readVars, pc, cleanup, spent, clean,
                       whole, ghostVars>>
  /\ UNCHANGED roleVars

EndApplyOfRoles == roleTodo = {} /\ EndApply /\ UNCHANGED roleVars

ExitOfRoles ==
  /\ importedRoles' = NoRoles /\ knownRoles' = NoRoles /\ fetched' = FALSE
  /\ roleTodo' = {}
  /\ UNCHANGED roleOrgs

\* dump_state writes the source state as well.
SaveRoles ==
  /\ savedRoles' = roleRecords /\ roleFile' = Written
  /\ UNCHANGED <<roleRecords, behind>>

DumpRoles == (Dump \/ Interrupt) /\ SaveRoles /\ ExitOfRoles

CrashOfRoles ==
  /\ Crash /\ ExitOfRoles
  /\ roleRecords' = savedRoles
  /\ behind' = behind \cup {r \in Role : savedRoles[r] \notin {None, roleRecords[r]}}
  /\ UNCHANGED <<savedRoles, roleFile>>

\* What has nothing to do with roles.  In each phase they go first: neither looks at
\* what the other changes.
OtherStep ==
  /\ pc \in {"list", "map", "apply"} => roleTodo = {}
  /\ \/ \E s \in Seat : \E l \in Level \cup {None} : EditSeat(s, l) \/ EditByHand(s, l)
     \/ MapUsers
     \/ \E t \in Team : ListTeam(t) \/ MapTeam(t)
     \/ \E u \in User : DeleteUser(u)
     \/ \E s \in Seat : DeleteSeat(s) \/ ApplySeat(s)

RolesNext ==
  \/ \E r \in Role : \E perms \in SUBSET Perm : EditRole(r, perms)
  \/ \E u \in User : \E a \in Account : EditUserOfRoles(u, a)
  \/ BeginWithRoles \/ ImportRoles \/ EndImportOfRoles \/ EndCleanupOfRoles
  \/ MapRoles \/ EndMapOfRoles
  \/ \E r \in Role : ApplyRole(r)
  \/ \E u \in User : ApplyUserOfRoles(u)
  \/ EndApplyOfRoles \/ DumpRoles \/ CrashOfRoles
  \/ OtherStep /\ UNCHANGED roleVars

allVars == <<vars, roleVars>>

RolesSpec == RolesInit /\ [][RolesNext]_allVars

-----------------------------------------------------------------------------
(* Properties.                                                             *)

\* Every variable keeps its type.
RolesTypeOK ==
  LET Rows == [Role -> Row \cup {None}]
  IN  /\ {srcRoles, destRoles, roleRecords, savedRoles, knownRoles} \subseteq Roles
      /\ {importedRoles, roleFile} \subseteq Rows
      /\ fetched \in BOOLEAN /\ behind \subseteq Role
      /\ roleTodo \subseteq Role \cup {"list", "map"}

\* After a pass in which no request failed each role that the tool may write has
\* the permissions that it has in the source, as far as the destination has and
\* grants them, and no more, however the passes before ended.
RolesReach ==
  pc = "dump" /\ clean =>
    \A r \in Present(srcRoles) \ (Builtin \cup Managed \cup behind) :
      /\ (srcRoles[r] \cap Offered) \ Gated \subseteq destRoles[r]
      /\ destRoles[r] \subseteq srcRoles[r]

\* A built-in role that the destination lacks is not created, and the users that have
\* it are passed over.
BuiltinShared == \A r \in Builtin \cap Present(srcRoles) : destRoles[r] # None

\* Such a pass gives the users that it read the access that they have in the source:
\* their accounts have their roles, and their roles the permissions.
AccessReaches == (BuiltinShared => AccountsReach) /\ RolesReach

\* After such a pass a diff finds nothing to do, although the destination does not
\* have, refuses or leaves out what the source gives: the source state is trimmed
\* to what was written, by neither too little nor too much.  Built-in roles that the
\* destination lacks, or that have more there, are exempt.
DiffsConverge ==
  pc = "dump" /\ clean =>
    \A r \in Present(importedRoles) \ (Managed \cup behind) :
      (r \in Builtin => destRoles[r] # None /\ destRoles[r] \subseteq srcRoles[r]) =>
        Equal(Reconciled(r, Remapped(importedRoles[r], TRUE), destRoles[r]),
              roleRecords[r])

\* Not so: the source file of a role that is not built-in holds what the import wrote.
OnlyImportWritesSource ==
  [][pc # "list" => \A r \in Role \ Builtin : roleFile'[r] = roleFile[r]]_allVars

\* Not so: a permission that the source gives is not taken away.
NothingRevoked ==
  [][\A r \in Present(destRoles) :
       destRoles[r] \cap srcRoles[r] \subseteq destRoles'[r] \cup Gated]_allVars
=============================================================================
