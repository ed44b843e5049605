----------------------------- MODULE Nicknames -----------------------------
(***************************************************************************)
(* The locked nickname of one member (commands/moderation forcenick,       *)
(* listeners.OnGuildMemberUpdateNickname): a moderator locks or resets it, *)
(* the member changes it, and a handler puts it back.  Every update event  *)
(* has a goroutine of its own, so a handler may act on a row that has been *)
(* replaced since it read it.                                              *)
(***************************************************************************)
EXTENDS Naturals, Sequences, FiniteSets

CONSTANTS
  Names, Blank,
  Mods,
  Handlers,     \* bound: handlers at a time
  Idle,
  MaxChanges,   \* bound: changes by the member, and commands
  MaxErrors     \* bound: calls that fail

VARIABLES
  nick,         \* at Discord
  row,          \* guild_locked_nicknames, Blank when there is none
  events,       \* updates on their way, the nickname each brings
  handlers,     \* handler -> the locked nickname it read
  mods,         \* moderator -> the command it runs
  changes, errors,
  version,      \* ghost: writes of the row
  changedAt     \* ghost: the row's version when the nickname last changed

vars == <<nick, row, events, handlers, mods, changes, errors, version, changedAt>>

TypeOK ==
  /\ nick \in Names \cup {Blank} /\ row \in Names \cup {Blank}
  /\ events \in Seq(Names \cup {Blank})
  /\ handlers \in [Handlers -> Names \cup {Idle}]
  /\ mods \in [Mods -> {Idle} \cup ({"set", "save", "delete", "blank"} \X (Names \cup {Blank}))]
  /\ changes \in 0..MaxChanges /\ errors \in 0..MaxErrors
  /\ version \in Nat /\ changedAt \in 0..version

Init ==
  /\ nick = Blank /\ row = Blank /\ events = <<>>
  /\ handlers = [h \in Handlers |-> Idle] /\ mods = [m \in Mods |-> Idle]
  /\ changes = 0 /\ errors = 0 /\ version = 0 /\ changedAt = 0

Fails == errors < MaxErrors /\ errors' = errors + 1
Change == changes < MaxChanges /\ changes' = changes + 1

\* GuildMemberNickname: Discord tells of a nickname that changed.
SetNick(n) ==
  /\ nick' = n
  /\ IF n = nick THEN UNCHANGED <<events, changedAt>>
     ELSE events' = Append(events, n) /\ changedAt' = version

WriteRow(n) == row' = n /\ version' = version + 1

Rename(n) ==
  /\ Change /\ n # nick /\ SetNick(n)
  /\ UNCHANGED <<row, handlers, mods, errors, version>>

(***************************************************************************)
(* forcenick.                                                              *)
(***************************************************************************)

Step(m) == IF mods[m] = Idle THEN "" ELSE mods[m][1]

Forcenick(m, n) ==
  /\ mods[m] = Idle /\ Change
  /\ mods' = [mods EXCEPT ![m] = IF n = Blank THEN <<"delete", n>> ELSE <<"set", n>>]
  /\ UNCHANGED <<nick, row, events, handlers, errors, version, changedAt>>

\* The nickname first, and the lock even if it cannot be saved.
Apply(m) ==
  /\ Step(m) = "set"
  /\ \/ /\ SetNick(mods[m][2]) /\ mods' = [mods EXCEPT ![m][1] = "save"]
        /\ UNCHANGED errors
     \/ /\ Fails /\ mods' = [mods EXCEPT ![m] = Idle]
        /\ UNCHANGED <<nick, events, changedAt>>
  /\ UNCHANGED <<row, handlers, changes, version>>

LockUserNickname(m) ==
  /\ Step(m) = "save"
  /\ \/ WriteRow(mods[m][2]) /\ UNCHANGED errors
     \/ Fails /\ UNCHANGED <<row, version>>
  /\ mods' = [mods EXCEPT ![m] = Idle]
  /\ UNCHANGED <<nick, events, handlers, changes, changedAt>>

\* A reset takes the lock away first, and goes on if it cannot.
UnlockUserNickname(m) ==
  /\ Step(m) = "delete"
  /\ \/ WriteRow(Blank) /\ UNCHANGED errors
     \/ Fails /\ UNCHANGED <<row, version>>
  /\ mods' = [mods EXCEPT ![m][1] = "blank"]
  /\ UNCHANGED <<nick, events, handlers, changes, changedAt>>

ResetNickname(m) ==
  /\ Step(m) = "blank"
  /\ \/ SetNick(Blank) /\ UNCHANGED errors
     \/ Fails /\ UNCHANGED <<nick, events, changedAt>>
  /\ mods' = [mods EXCEPT ![m] = Idle]
  /\ UNCHANGED <<row, handlers, changes, version>>

(***************************************************************************)
(* OnGuildMemberUpdateNickname.                                            *)
(***************************************************************************)

\* Mutant: a nickname that was taken off is not put back.
HandleNamesOnly(h) ==
  /\ handlers[h] = Idle /\ events # <<>> /\ events' = Tail(events)
  /\ handlers' = IF row # Blank /\ Head(events) # row /\ Head(events) # Blank
                 THEN [handlers EXCEPT ![h] = row] ELSE handlers
  /\ UNCHANGED <<nick, row, mods, changes, errors, version, changedAt>>

Handle(h) ==
  /\ handlers[h] = Idle /\ events # <<>> /\ events' = Tail(events)
  /\ \/ /\ handlers' = IF row # Blank /\ Head(events) # row
                       THEN [handlers EXCEPT ![h] = row] ELSE handlers
        /\ UNCHANGED errors
     \/ Fails /\ UNCHANGED handlers
  /\ UNCHANGED <<nick, row, mods, changes, version, changedAt>>

PutBack(h) ==
  /\ handlers[h] # Idle
  /\ \/ SetNick(handlers[h]) /\ UNCHANGED errors
     \/ Fails /\ UNCHANGED <<nick, events, changedAt>>
  /\ handlers' = [handlers EXCEPT ![h] = Idle]
  /\ UNCHANGED <<row, mods, changes, version>>

Next ==
  \/ \E n \in Names \cup {Blank} :
       Rename(n) \/ \E m \in Mods : Forcenick(m, n)
  \/ \E m \in Mods :
       Apply(m) \/ LockUserNickname(m) \/ UnlockUserNickname(m) \/ ResetNickname(m)
  \/ \E h \in Handlers : Handle(h) \/ PutBack(h)

Spec == Init /\ [][Next]_vars

(***************************************************************************)
(* Properties.                                                             *)
(***************************************************************************)

Quiet ==
  /\ events = <<>> /\ \A h \in Handlers : handlers[h] = Idle
  /\ \A m \in Mods : mods[m] = Idle

\* A lock holds once everything has settled: a nickname other than the locked one was
\* there before the lock was written (a member may slip in between the two halves of
\* forcenick, and so may a second moderator), or a call failed.
LockHolds ==
  Quiet /\ row # Blank /\ nick # row => changedAt # version \/ errors > 0
=============================================================================
