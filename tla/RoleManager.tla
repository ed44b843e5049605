----------------------------- MODULE RoleManager -----------------------------
(***************************************************************************)
(* The roles of one member (internal/roles, the callers in                 *)
(* commands/moderation and listeners/member.go): temporary roles and their *)
(* sweeper, the jail that takes a member's roles and gives them back, and  *)
(* what happens when the member leaves and returns.                        *)
(*                                                                         *)
(* Discord and the database are outside the lock: every call to one of     *)
(* them is a step, may fail, and the bot may die between two of them.      *)
(* Operations on different members share nothing, so there is one member;  *)
(* the mute role, which a return never restores, and the autoroles, which  *)
(* it restores like saved ones, are left out.                              *)
(***************************************************************************)
EXTENDS Naturals, FiniteSets

CONSTANTS
  Roles,          \* the roles the bot may give and take
  JailRole,
  Threads,        \* goroutines of commands and event handlers
  Sweeper,        \* the periodic worker "temp_roles"
  None,
  MaxStarts,      \* bound: commands and departures
  MaxTime,        \* bound: the clock, in units of a duration
  MaxErrors       \* bound: calls that fail and crashes

Callers == Threads \cup {Sweeper}

ASSUME RolesAssumption ==
  /\ JailRole \notin Roles /\ Sweeper \notin Threads
  /\ \A saved \in SUBSET Roles : saved # None
  /\ IsFiniteSet(Roles) /\ IsFiniteSet(Threads)
  /\ MaxStarts \in Nat /\ MaxTime \in Nat /\ MaxErrors \in Nat

VARIABLES
  present,        \* the member is in the guild
  roles,          \* its roles on Discord
  cache,          \* its roles in the session's state, which follows the gateway
  jailed,         \* jailed_users: the saved roles, or None
  temp,           \* guild_temp_roles: role -> when it expires, 0 without a row
  left,           \* saved_user_roles: what it had when it last left
  now,
  c,              \* the callers
  force,          \* an unjail that missed roles waits for the reply FORCE
  owed,           \* ghost: roles the jail took and nobody else has taken since
  stray,          \* ghost: a return gave the jail role to a member without a row
  starts, errors

discord == <<present, roles, cache>>
db == <<jailed, temp, left>>
ghosts == <<owed, stray>>
vars == <<discord, db, now, c, force, ghosts, starts, errors>>

Idle == [op |-> "idle", pc |-> "idle", role |-> None, until |-> 0,
         todo |-> {}, done |-> {}, kept |-> {}, missed |-> FALSE]

Ops == {"assign", "revoke", "jail", "unjail", "force", "rejoin", "leave", "sweep"}
Locked == {"add", "saveTemp", "undo", "remove", "forget", "snapshot", "record", "strip", "cell",
           "rollback", "look", "restore", "release", "erase", "return", "grant", "claim", "take"}

TypeOK ==
  /\ present \in BOOLEAN /\ roles \subseteq Roles \cup {JailRole}
  /\ cache \subseteq Roles \cup {JailRole} /\ (~present => roles = {})
  /\ (jailed = None \/ jailed \in SUBSET Roles) /\ left \in SUBSET Roles
  /\ temp \in [Roles -> 0..(MaxTime + 1)] /\ now \in 0..MaxTime
  /\ c \in [Callers -> [op : Ops \cup {"idle"}, pc : Locked \cup {"idle", "save", "enter"},
                        role : Roles \cup {None}, until : 0..(MaxTime + 1),
                        todo : SUBSET Roles, done : SUBSET Roles, kept : SUBSET Roles, missed : BOOLEAN]]
  /\ force \in BOOLEAN /\ owed \subseteq Roles /\ stray \in BOOLEAN /\ starts \in 0..MaxStarts
  /\ errors \in 0..MaxErrors

Init ==
  /\ present = TRUE /\ roles \in SUBSET Roles /\ cache = roles
  /\ temp \in [Roles -> 0..MaxTime] /\ \A r \in Roles : temp[r] > 0 => r \in roles
  /\ jailed = None /\ left = {} /\ now = 0
  /\ c = [t \in Callers |-> Idle]
  /\ force = FALSE /\ owed = {} /\ stray = FALSE /\ starts = 0 /\ errors = 0

(***************************************************************************)
(* Calls.                                                                  *)
(***************************************************************************)

Fails == errors < MaxErrors /\ errors' = errors + 1
Expired(r) == temp[r] # 0 /\ temp[r] <= now
Active == {r \in Roles : temp[r] > now}

At(t, pc) == c[t].pc = pc
To(t, pc) == c' = [c EXCEPT ![t].pc = pc]
Go(t, next) == c' = [c EXCEPT ![t] = next]

\* GuildMemberRoleAdd succeeds, the member being there.
AddRole(r) == present /\ roles' = roles \cup {r} /\ UNCHANGED <<present, cache, errors>>

\* A call to Discord fails, always when the member is not there.
CallFails ==
  /\ \/ ~present /\ UNCHANGED errors
     \/ Fails
  /\ UNCHANGED discord

RemoveRole(r) == present /\ roles' = roles \ {r} /\ UNCHANGED <<present, cache, errors>>

\* GetActiveTempRolesForUser: nothing if it fails.
ReadActive(read) == (read = Active /\ UNCHANGED errors) \/ (read = {} /\ Fails)

\* A read or a write of the database fails.
StoreFails == Fails /\ UNCHANGED db

(***************************************************************************)
(* The lock. Every operation takes it after what it reads without it.      *)
(***************************************************************************)

FirstStep(op) ==
  CASE op = "assign" -> "add" [] op = "revoke" -> "remove" [] op = "jail" -> "snapshot"
    [] op \in {"unjail", "force"} -> "look" [] op = "rejoin" -> "return" [] op = "sweep" -> "claim"

\* Whoever is past it holds the lock of the member (RoleLocks).
Free == \A t \in Callers : c[t].pc \notin Locked

Enter(t) ==
  /\ At(t, "enter") /\ Free
  /\ IF t # Sweeper THEN To(t, FirstStep(c[t].op))
     ELSE \E r \in c[t].todo : Go(t, [c[t] EXCEPT !.pc = "claim", !.role = r, !.todo = @ \ {r}])
  /\ UNCHANGED <<discord, db, now, force, ghosts, errors, starts>>

\* The last step of an operation unlocks; the sweeper goes on with its list.
Done(t) ==
  Go(t, IF t = Sweeper /\ c[t].todo # {} THEN [c[t] EXCEPT !.pc = "enter", !.role = None] ELSE Idle)

Starts(t) == c[t] = Idle /\ starts < MaxStarts /\ starts' = starts + 1

(***************************************************************************)
(* Assign and Revoke.                                                      *)
(***************************************************************************)

\* d is the duration, 0 for good: mute, role add, temprole, reaction roles.
StartAssign(t, r, d) ==
  /\ Starts(t)
  /\ Go(t, [Idle EXCEPT !.op = "assign", !.pc = "enter", !.role = r, !.until = d])
  /\ UNCHANGED <<discord, db, now, force, ghosts, errors>>

\* A role given for good keeps the expiry it had.
Give(t) ==
  /\ At(t, "add")
  /\ \/ /\ AddRole(c[t].role)
        /\ IF c[t].until = 0 THEN Done(t) ELSE To(t, "saveTemp")
     \/ /\ CallFails
        /\ Done(t)
  /\ UNCHANGED <<db, now, force, ghosts, starts>>

SaveTemp(t) ==
  /\ At(t, "saveTemp")
  /\ \/ /\ temp' = [temp EXCEPT ![c[t].role] = now + c[t].until]
        /\ Done(t) /\ UNCHANGED <<jailed, left, errors>>
     \/ StoreFails /\ To(t, "undo")
  /\ UNCHANGED <<discord, now, force, ghosts, starts>>

UndoGive(t) ==
  /\ At(t, "undo")
  /\ \/ RemoveRole(c[t].role) /\ owed' = owed \ {c[t].role}
     \/ CallFails /\ UNCHANGED owed
  /\ Done(t)
  /\ UNCHANGED <<db, now, force, stray, starts>>

StartRevoke(t, r) ==
  /\ Starts(t)
  /\ Go(t, [Idle EXCEPT !.op = "revoke", !.pc = "enter", !.role = r])
  /\ UNCHANGED <<discord, db, now, force, ghosts, errors>>

Revoke(t) ==
  /\ At(t, "remove")
  /\ \/ RemoveRole(c[t].role) /\ owed' = owed \ {c[t].role} /\ To(t, "forget")
     \/ CallFails /\ Done(t) /\ UNCHANGED owed
  /\ UNCHANGED <<db, now, force, stray, starts>>

ForgetTemp(t) ==
  /\ At(t, "forget")
  /\ \/ temp' = [temp EXCEPT ![c[t].role] = 0] /\ UNCHANGED <<jailed, left, errors>>
     \/ StoreFails
  /\ Done(t)
  /\ UNCHANGED <<discord, now, force, ghosts, starts>>

(***************************************************************************)
(* Jail.                                                                   *)
(***************************************************************************)

\* JailCmd.Execute looks for a row before it asks the manager.
StartJail(t) ==
  /\ Starts(t) /\ present /\ jailed = None
  /\ Go(t, [Idle EXCEPT !.op = "jail", !.pc = "enter"])
  /\ UNCHANGED <<discord, db, now, force, ghosts, errors>>

\* The roles to strip are those of the session's state; temporary ones are not
\* saved, unless the query for them failed.
Snapshot(t) ==
  /\ At(t, "snapshot")
  /\ \/ /\ present
        /\ \/ UNCHANGED errors /\ Go(t, [c[t] EXCEPT !.pc = "record", !.todo = cache \ {JailRole},
                                            !.kept = {r \in cache \ {JailRole} : temp[r] = 0}])
           \/ Fails /\ Go(t, [c[t] EXCEPT !.pc = "record", !.todo = cache \ {JailRole},
                                            !.kept = cache \ {JailRole}])
     \/ ~present /\ UNCHANGED errors /\ Done(t)
     \/ Fails /\ Done(t)
  /\ UNCHANGED <<discord, db, now, force, ghosts, starts>>

\* Mutant: the row of a member who is jailed already is replaced.
RecordAgain(t) ==
  /\ At(t, "record")
  /\ jailed' = c[t].kept /\ owed' = owed \cup (c[t].kept \cap roles)
  /\ To(t, "strip")
  /\ UNCHANGED <<discord, temp, left, now, force, stray, errors, starts>>

\* SaveJailedUser: ON CONFLICT DO NOTHING, and nothing is stripped before it.
Record(t) ==
  /\ At(t, "record")
  /\ \/ /\ jailed = None /\ jailed' = c[t].kept /\ owed' = c[t].kept \cap roles
        /\ To(t, "strip") /\ UNCHANGED <<temp, left, errors>>
     \/ /\ jailed # None \/ errors < MaxErrors
        /\ errors' = IF jailed = None THEN errors + 1 ELSE errors
        /\ Done(t) /\ UNCHANGED <<db, owed>>
  /\ UNCHANGED <<discord, now, force, stray, starts>>

Strip(t) ==
  /\ At(t, "strip")
  /\ \/ \E r \in c[t].todo :
          \/ RemoveRole(r) /\ Go(t, [c[t] EXCEPT !.todo = @ \ {r}, !.done = @ \cup {r}])
          \/ CallFails /\ Go(t, [c[t] EXCEPT !.pc = "rollback", !.todo = {}])
     \/ c[t].todo = {} /\ To(t, "cell") /\ UNCHANGED <<discord, errors>>
  /\ UNCHANGED <<db, now, force, ghosts, starts>>

Imprison(t) ==
  /\ At(t, "cell")
  /\ \/ AddRole(JailRole) /\ Done(t)
     \/ CallFails /\ To(t, "rollback")
  /\ UNCHANGED <<db, now, force, ghosts, starts>>

\* What was stripped is given back, as far as Discord lets it; then the row goes.
RollBack(t) ==
  /\ At(t, "rollback")
  /\ \/ \E r \in c[t].done :
          /\ Go(t, [c[t] EXCEPT !.done = @ \ {r}])
          /\ \/ AddRole(r) /\ UNCHANGED owed
             \/ CallFails /\ owed' = owed \ {r}
          /\ UNCHANGED db
     \/ /\ c[t].done = {} /\ Done(t) /\ UNCHANGED <<discord, owed>>
        /\ \/ jailed' = None /\ UNCHANGED <<temp, left, errors>>
           \/ StoreFails
  /\ UNCHANGED <<now, force, stray, starts>>

(***************************************************************************)
(* Unjail, and the reply FORCE to one that missed roles.                   *)
(***************************************************************************)

StartUnjail(t) ==
  /\ Starts(t)
  /\ Go(t, [Idle EXCEPT !.op = "unjail", !.pc = "enter"])
  /\ UNCHANGED <<discord, db, now, force, ghosts, errors>>

StartForce(t) ==
  /\ force /\ c[t] = Idle
  /\ force' = FALSE
  /\ Go(t, [Idle EXCEPT !.op = "force", !.pc = "enter"])
  /\ UNCHANGED <<discord, db, now, ghosts, errors, starts>>

\* A forced unjail that ends with an error or with roles missed may be forced again.
Reoffer(t) == force' = (force \/ c[t].op = "force")

Look(t) ==
  /\ At(t, "look")
  /\ \/ /\ jailed # None /\ UNCHANGED force
        /\ \E soon \in {Active, {}} :
             /\ ReadActive(soon)
             /\ Go(t, [c[t] EXCEPT !.pc = "restore", !.todo = jailed, !.kept = soon])
     \/ /\ \/ jailed = None /\ UNCHANGED errors
           \/ Fails
        /\ Done(t) /\ Reoffer(t)
  /\ UNCHANGED <<discord, db, now, ghosts, starts>>

\* The saved roles first, then the temporary ones that have not expired; a saved
\* role that cannot be given back, or is deleted or above the bot's own, is missed.
Restore(t) ==
  /\ At(t, "restore")
  /\ \/ \E r \in c[t].todo :
          \/ AddRole(r) /\ Go(t, [c[t] EXCEPT !.todo = @ \ {r}, !.kept = @ \ {r}])
          \/ /\ CallFails \/ UNCHANGED <<discord, errors>>
             /\ Go(t, [c[t] EXCEPT !.todo = @ \ {r}, !.missed = TRUE])
     \/ /\ c[t].todo = {}
        /\ \E r \in c[t].kept : (AddRole(r) \/ CallFails) /\ Go(t, [c[t] EXCEPT !.kept = @ \ {r}])
     \/ /\ c[t].todo \cup c[t].kept = {} /\ To(t, "release")
        /\ UNCHANGED <<discord, errors>>
  /\ UNCHANGED <<db, now, force, ghosts, starts>>

\* Mutant: the row goes although the jail role may stay.
ReleaseEarly(t) ==
  /\ At(t, "release")
  /\ \/ /\ c[t].missed /\ c[t].op = "unjail"
        /\ force' = TRUE /\ Done(t) /\ UNCHANGED <<discord, stray, jailed, errors>>
     \/ /\ ~c[t].missed \/ c[t].op = "force"
        /\ jailed' = None
        /\ \/ RemoveRole(JailRole) /\ stray' = FALSE /\ To(t, "erase") /\ UNCHANGED force
           \/ CallFails /\ Done(t) /\ Reoffer(t) /\ UNCHANGED stray
  /\ UNCHANGED <<temp, left, now, owed, starts>>

Release(t) ==
  /\ At(t, "release")
  /\ \/ /\ c[t].missed /\ c[t].op = "unjail"
        /\ force' = TRUE /\ Done(t) /\ UNCHANGED <<discord, stray, errors>>
     \/ /\ ~c[t].missed \/ c[t].op = "force"
        /\ \/ RemoveRole(JailRole) /\ stray' = FALSE /\ To(t, "erase") /\ UNCHANGED force
           \/ CallFails /\ Done(t) /\ Reoffer(t) /\ UNCHANGED stray
  /\ UNCHANGED <<db, now, owed, starts>>

\* The row goes, with the roles a forced unjail has missed; an error is ignored.
Erase(t) ==
  /\ At(t, "erase")
  /\ \/ /\ jailed' = None /\ UNCHANGED <<temp, left, errors>>
        /\ owed' = IF c[t].missed THEN owed \cap roles ELSE owed
     \/ StoreFails /\ UNCHANGED owed
  /\ force' = (force \/ c[t].missed)
  /\ Done(t)
  /\ UNCHANGED <<discord, now, stray, starts>>

(***************************************************************************)
(* Leaving and returning (OnGuildMemberRemove, OnGuildMemberAdd).          *)
(***************************************************************************)

\* What the member had, the jail role excepted, is saved, if it is anything.
Leave(t) ==
  /\ Starts(t) /\ present
  /\ present' = FALSE /\ roles' = {} /\ cache' = {}
  /\ owed' = owed \ roles /\ stray' = FALSE
  /\ Go(t, IF cache \subseteq {JailRole} THEN Idle
           ELSE [Idle EXCEPT !.op = "leave", !.pc = "save", !.kept = cache \ {JailRole}])
  /\ UNCHANGED <<db, now, force, errors>>

SaveLeft(t) ==
  /\ At(t, "save")
  /\ \/ left' = c[t].kept /\ UNCHANGED <<jailed, temp, errors>>
     \/ StoreFails
  /\ Go(t, Idle)
  /\ UNCHANGED <<discord, now, force, ghosts, starts>>

\* The handler of the return reads whether the member is jailed before it locks;
\* if it cannot, it takes it for free.
Rejoin(t) ==
  /\ c[t] = Idle /\ ~present
  /\ present' = TRUE /\ UNCHANGED <<roles, cache>>
  /\ \E known \in BOOLEAN :
       /\ (known /\ UNCHANGED errors) \/ (~known /\ Fails)
       /\ Go(t, [Idle EXCEPT !.op = "rejoin", !.pc = "enter", !.kept = left,
                             !.missed = (known /\ jailed # None)])
  /\ UNCHANGED <<db, now, force, ghosts, starts>>

Return(t) ==
  /\ At(t, "return")
  /\ \/ /\ c[t].missed
        /\ Done(t)
        /\ \/ AddRole(JailRole) /\ stray' = (stray \/ jailed = None)
           \/ CallFails /\ UNCHANGED stray
     \/ /\ ~c[t].missed
        /\ \E soon \in {Active, {}} :
             ReadActive(soon) /\ Go(t, [c[t] EXCEPT !.pc = "grant", !.todo = c[t].kept \cup soon])
        /\ UNCHANGED <<discord, stray>>
  /\ UNCHANGED <<db, now, force, owed, starts>>

Grant(t) ==
  /\ At(t, "grant")
  /\ \/ \E r \in c[t].todo : (AddRole(r) \/ CallFails) /\ Go(t, [c[t] EXCEPT !.todo = @ \ {r}])
     \/ c[t].todo = {} /\ Done(t) /\ UNCHANGED <<discord, errors>>
  /\ UNCHANGED <<db, now, force, ghosts, starts>>

(***************************************************************************)
(* SweepExpired: a list read without the lock, then one row after another. *)
(***************************************************************************)

StartSweep ==
  /\ c[Sweeper] = Idle /\ \E r \in Roles : Expired(r)
  /\ Go(Sweeper, [Idle EXCEPT !.op = "sweep", !.pc = "enter", !.until = now,
                              !.todo = {r \in Roles : Expired(r)}])
  /\ UNCHANGED <<discord, db, now, force, ghosts, errors, starts>>

\* Mutant: the row is deleted whatever it says by now.
ClaimAny ==
  /\ At(Sweeper, "claim")
  /\ temp' = [temp EXCEPT ![c[Sweeper].role] = 0] /\ To(Sweeper, "take")
  /\ UNCHANGED <<discord, jailed, left, now, force, ghosts, starts, errors>>

\* DeleteExpiredTempRole: a row whose expiry was put off since is left alone.
Claim ==
  /\ At(Sweeper, "claim")
  /\ LET r == c[Sweeper].role
         listed == temp[r] # 0 /\ temp[r] <= c[Sweeper].until IN
     \/ listed /\ temp' = [temp EXCEPT ![r] = 0] /\ To(Sweeper, "take") /\ UNCHANGED <<jailed, left, errors>>
     \/ ~listed /\ Done(Sweeper) /\ UNCHANGED <<db, errors>>
     \/ StoreFails /\ Done(Sweeper)
  /\ UNCHANGED <<discord, now, force, ghosts, starts>>

\* The role is taken; if that fails nobody will try again.
Take ==
  /\ At(Sweeper, "take")
  /\ \/ RemoveRole(c[Sweeper].role) /\ owed' = owed \ {c[Sweeper].role}
     \/ CallFails /\ UNCHANGED owed
  /\ Done(Sweeper)
  /\ UNCHANGED <<db, now, force, stray, starts>>

(***************************************************************************)
(* The world.                                                              *)
(***************************************************************************)

\* GuildMemberUpdate reaches the session's state.
Gateway ==
  /\ cache # roles /\ cache' = roles
  /\ UNCHANGED <<present, roles, db, now, c, force, ghosts, errors, starts>>

Tick ==
  /\ now < MaxTime /\ now' = now + 1
  /\ UNCHANGED <<discord, db, c, force, ghosts, errors, starts>>

\* The process ends and starts again.
Crash ==
  /\ Fails /\ \E t \in Callers : c[t] # Idle
  /\ c' = [t \in Callers |-> Idle]
  /\ cache' = roles /\ force' = FALSE
  /\ UNCHANGED <<present, roles, db, now, ghosts, starts>>

(***************************************************************************)
(* The specification.                                                      *)
(***************************************************************************)

ThreadStep(t) ==
  \/ Give(t) \/ SaveTemp(t) \/ UndoGive(t) \/ Revoke(t) \/ ForgetTemp(t)
  \/ Snapshot(t) \/ Record(t) \/ Strip(t) \/ Imprison(t) \/ RollBack(t)
  \/ Look(t) \/ Restore(t) \/ Release(t) \/ Erase(t) \/ SaveLeft(t) \/ Return(t) \/ Grant(t)

SweepStep == StartSweep \/ Claim \/ Take

Next ==
  \/ \E t \in Threads :
       \/ ThreadStep(t) \/ StartJail(t) \/ StartUnjail(t) \/ StartForce(t) \/ Leave(t) \/ Rejoin(t)
       \/ \E r \in Roles : StartRevoke(t, r) \/ \E d \in 0..1 : StartAssign(t, r, d)
  \/ \E t \in Callers : Enter(t)
  \/ SweepStep
  \/ Gateway \/ Tick \/ Crash

Spec == Init /\ [][Next]_vars

(***************************************************************************)
(* Properties.                                                             *)
(***************************************************************************)

\* No role that the jail took is lost, whatever fails and whenever the bot dies:
\* the member has it or the row does, until somebody else takes it, a rollback
\* cannot give it back, or a forced unjail gives it up (manager.go:153-223, 225-325).
JailKeepsRoles == owed \subseteq roles \cup (IF jailed = None THEN {} ELSE jailed)

\* Nobody is left with the jail role without a row, which an unjail needs, unless
\* a return that read the row before it locked gave it after the unjail
\* (member.go:47-52, manager.go:327-336).
JailHasRecord == JailRole \in roles => jailed # None \/ stray

\* A temporary role that was given again after the sweeper listed its row keeps
\* the row until it expires or is revoked (manager.go:86-123, 372-416).
ExtendedRowStays ==
  [][\A r \in Roles : temp[r] > now /\ temp'[r] = 0
       => \E t \in Threads : c[t].op = "revoke" /\ c[t].role = r]_vars

\* The jail and its record agree, in what is taken and in who is in it.
JailIsRecorded == JailKeepsRoles /\ JailHasRecord
=============================================================================
