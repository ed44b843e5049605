----------------------------- MODULE RoleLocks -----------------------------
(***************************************************************************)
(* sharedRoleLocks (internal/roles/locks.go): a mutex per member, made by  *)
(* the first who asks for it and dropped by the last who refers to it.     *)
(* The map has a mutex of its own, under which nothing waits: what is done *)
(* under it is one step.                                                   *)
(***************************************************************************)
EXTENDS Naturals, FiniteSets

CONSTANTS
  Threads,    \* goroutines with a role operation
  Members,    \* keys: guild and user
  Addresses,  \* where roleLockEntry values live
  None

ASSUME LocksAssumption ==
  /\ IsFiniteSet(Threads)
  /\ None \notin Threads /\ None \notin Addresses

VARIABLES
  entries,    \* roleLockSet.entries: member -> the entry, or None
  refs,       \* roleLockEntry.refs
  holder,     \* roleLockEntry.mu
  at,         \* thread -> where it is
  member,     \* thread -> the member it asked for
  mine        \* thread -> the entry it refers to, or None

lockVars == <<entries, refs, holder, at, member, mine>>

LocksTypeOK ==
  /\ entries \in [Members -> Addresses \cup {None}]
  /\ refs \in [Addresses -> Nat] /\ holder \in [Addresses -> Threads \cup {None}]
  /\ at \in [Threads -> {"idle", "waiting", "inside", "leaving"}]
  /\ member \in [Threads -> Members] /\ mine \in [Threads -> Addresses \cup {None}]

LocksInit ==
  /\ entries = [m \in Members |-> None]
  /\ refs = [a \in Addresses |-> 0] /\ holder = [a \in Addresses |-> None]
  /\ at = [t \in Threads |-> "idle"]
  /\ member \in [Threads -> Members] /\ mine = [t \in Threads |-> None]

\* An entry nobody refers to, the map included: a new one.
Unused(a) == (\A t \in Threads : mine[t] # a) /\ (\A m \in Members : entries[m] # a)

Reach(t, m, a) ==
  /\ at[t] = "idle"
  /\ at' = [at EXCEPT ![t] = "waiting"]
  /\ member' = [member EXCEPT ![t] = m]
  /\ mine' = [mine EXCEPT ![t] = a]
  /\ UNCHANGED holder

Find(t, m) ==
  /\ entries[m] # None
  /\ refs' = [refs EXCEPT ![entries[m]] = @ + 1]
  /\ Reach(t, m, entries[m])
  /\ UNCHANGED entries

Make(t, m) ==
  /\ entries[m] = None
  /\ \E a \in Addresses :
       /\ Unused(a)
       /\ entries' = [entries EXCEPT ![m] = a]
       /\ refs' = [refs EXCEPT ![a] = 1]
       /\ Reach(t, m, a)

Obtain(t) ==
  /\ at[t] = "waiting" /\ holder[mine[t]] = None
  /\ holder' = [holder EXCEPT ![mine[t]] = t]
  /\ at' = [at EXCEPT ![t] = "inside"]
  /\ UNCHANGED <<entries, refs, member, mine>>

Unlock(t) ==
  /\ at[t] = "inside"
  /\ holder' = [holder EXCEPT ![mine[t]] = None]
  /\ at' = [at EXCEPT ![t] = "leaving"]
  /\ UNCHANGED <<entries, refs, member, mine>>

\* Mutant: the entry goes with whoever leaves first.
DropAlways(t) ==
  /\ at[t] = "leaving"
  /\ refs' = [refs EXCEPT ![mine[t]] = @ - 1]
  /\ entries' = [entries EXCEPT ![member[t]] = None]
  /\ at' = [at EXCEPT ![t] = "idle"] /\ mine' = [mine EXCEPT ![t] = None]
  /\ UNCHANGED <<holder, member>>

\* Mutant: the entry is never dropped.
DropNever(t) ==
  /\ at[t] = "leaving"
  /\ refs' = [refs EXCEPT ![mine[t]] = @ - 1]
  /\ at' = [at EXCEPT ![t] = "idle"] /\ mine' = [mine EXCEPT ![t] = None]
  /\ UNCHANGED <<entries, holder, member>>

\* The last to refer to the entry drops it, whoever holds the map's key by now.
Drop(t) ==
  /\ at[t] = "leaving"
  /\ refs' = [refs EXCEPT ![mine[t]] = @ - 1]
  /\ entries' = IF refs[mine[t]] = 1 THEN [entries EXCEPT ![member[t]] = None] ELSE entries
  /\ at' = [at EXCEPT ![t] = "idle"] /\ mine' = [mine EXCEPT ![t] = None]
  /\ UNCHANGED <<holder, member>>

Lock(t) == \E m \in Members : Find(t, m) \/ Make(t, m)

LocksNext == \E t \in Threads : Lock(t) \/ Obtain(t) \/ Unlock(t) \/ Drop(t)

LocksSpec == LocksInit /\ [][LocksNext]_lockVars

(***************************************************************************)
(* Properties.                                                             *)
(***************************************************************************)

\* The entries that come and go are one mutex per member to those who use them:
\* no two operations on a member overlap (locks.go:19-40).
Mutex == INSTANCE KeyedMutex WITH
  wants <- [m \in Members |-> {t \in Threads : at[t] = "waiting" /\ member[t] = m}],
  inside <- [m \in Members |-> {t \in Threads : at[t] = "inside" /\ member[t] = m}]

ImplementsMutex == Mutex!Spec

\* The map holds a member while somebody refers to its entry and no longer: it does
\* not grow with the members the bot has seen (locks.go:34-38).
NoEntryLeaks ==
  \A m \in Members :
    entries[m] # None <=> \E t \in Threads : at[t] # "idle" /\ member[t] = m
=============================================================================
