-------------------------- MODULE RoleManagerProofs --------------------------
(***************************************************************************)
(* What the role manager promises of the jail and of temporary roles, for  *)
(* any roles, goroutines and bounds.                                       *)
(*                                                                         *)
(* JailIsRecorded is not inductive.  An unjail deletes the row one step    *)
(* after it has removed the jail role, a jail strips roles one by one and  *)
(* rolls back: what makes the last step safe is what the steps before it   *)
(* have left behind (Work), and that nobody else was at work meanwhile     *)
(* (OneHolder), for the member may leave, and the bot die, at any time.    *)
(***************************************************************************)
EXTENDS RoleManager, TLAPS

Caller == [op : Ops \cup {"idle"}, pc : Locked \cup {"idle", "save", "enter"},
           role : Roles \cup {None}, until : 0..(MaxTime + 1),
           todo : SUBSET Roles, done : SUBSET Roles, kept : SUBSET Roles, missed : BOOLEAN]

\* What a caller says of itself.
Fits(t) ==
  /\ t \in Threads /\ c[t].pc = "enter" => c[t].op \in {"assign", "revoke", "jail", "unjail", "force", "rejoin"}
  /\ c[t].op \in {"assign", "revoke"} => c[t].role \in Roles
  /\ c[t].pc \in {"add", "saveTemp", "undo"} => c[t].op = "assign"
  /\ c[t].pc \in {"remove", "forget"} => c[t].op = "revoke"
  /\ c[t].pc \in {"claim", "take"} => t = Sweeper /\ c[t].role \in Roles
  /\ c[t].pc = "saveTemp" => c[t].until > 0
  /\ t \in Threads => c[t].until <= 1
  /\ t = Sweeper => c[t].op \in {"idle", "sweep"} /\ c[t].until <= now

\* What the operation of the holder of the lock has done so far.
Work(t) ==
  /\ c[t].pc \in {"strip", "cell", "rollback"} =>
       jailed # None /\ owed \subseteq roles \cup c[t].done /\ (JailRole \in roles => stray)
  /\ c[t].pc \in {"restore", "release", "erase"} =>
       jailed # None /\ (c[t].missed \/ owed \subseteq roles \cup c[t].todo)
  /\ c[t].pc \in {"release", "erase"} => c[t].todo = {}
  /\ c[t].pc = "erase" => JailRole \notin roles

OneHolder == \A t, u \in Callers : c[t].pc \in Locked /\ c[u].pc \in Locked => t = u

\* The row has what is owed; without a row the member does.
OwedIsKept == IF jailed = None THEN owed \subseteq roles ELSE owed \subseteq jailed

RolesInv ==
  /\ TypeOK
  /\ OneHolder
  /\ \A t \in Callers : Fits(t)
  /\ \A t \in Callers : Work(t)
  /\ OwedIsKept
  /\ JailHasRecord

World ==
  /\ present \in BOOLEAN /\ roles \subseteq Roles \cup {JailRole}
  /\ cache \subseteq Roles \cup {JailRole} /\ (~present => roles = {})
  /\ (jailed = None \/ jailed \in SUBSET Roles) /\ left \in SUBSET Roles
  /\ temp \in [Roles -> 0..(MaxTime + 1)] /\ now \in 0..MaxTime
  /\ force \in BOOLEAN /\ owed \subseteq Roles /\ stray \in BOOLEAN /\ starts \in 0..MaxStarts
  /\ errors \in 0..MaxErrors

LEMMA TypeParts == TypeOK <=> World /\ c \in [Callers -> Caller]
  BY DEF TypeOK, World, Caller

\* The same of the next state.
LEMMA TypePartsNext == TypeOK' <=> World' /\ c' \in [Callers -> Caller]
  BY DEF TypeOK, World, Caller

LEMMA IdleFacts ==
  /\ Idle \in Caller
  /\ Idle.op = "idle" /\ Idle.pc = "idle" /\ Idle.role = None /\ Idle.until = 0
  /\ Idle.todo = {} /\ Idle.done = {} /\ Idle.kept = {} /\ Idle.missed = FALSE
<1>1. 0 \in 0..(MaxTime + 1)
  BY RolesAssumption
<1> QED
  BY <1>1 DEF Idle, Caller, Ops, Locked

(***************************************************************************)
(* Changes of one caller.                                                  *)
(***************************************************************************)

LEMMA GoFacts ==
  ASSUME c \in [Callers -> Caller], NEW t \in Callers, NEW n \in Caller, Go(t, n)
  PROVE  /\ c' \in [Callers -> Caller] /\ c'[t] = n
         /\ \A u \in Callers : u # t => c'[u] = c[u]
  BY DEF Go

LEMMA ToFacts ==
  ASSUME c \in [Callers -> Caller], NEW t \in Callers,
         NEW pc \in Locked \cup {"idle", "save", "enter"}, To(t, pc)
  PROVE  /\ c' \in [Callers -> Caller]
         /\ \A u \in Callers : u # t => c'[u] = c[u]
         /\ c'[t].pc = pc /\ c'[t].op = c[t].op /\ c'[t].role = c[t].role
         /\ c'[t].until = c[t].until /\ c'[t].todo = c[t].todo /\ c'[t].done = c[t].done
         /\ c'[t].kept = c[t].kept /\ c'[t].missed = c[t].missed
<1> DEFINE n == [c[t] EXCEPT !.pc = pc]
<1>1. c[t] \in Caller
  OBVIOUS
<1>2. /\ n \in Caller /\ n.pc = pc /\ n.op = c[t].op /\ n.role = c[t].role
      /\ n.until = c[t].until /\ n.todo = c[t].todo /\ n.done = c[t].done
      /\ n.kept = c[t].kept /\ n.missed = c[t].missed
  BY <1>1 DEF Caller
<1>3. c' = [c EXCEPT ![t] = n]
  BY DEF To
<1> HIDE DEF n
<1>4. c'[t] = n /\ c' \in [Callers -> Caller] /\ \A u \in Callers : u # t => c'[u] = c[u]
  BY <1>2, <1>3
<1> QED
  BY <1>2, <1>4

\* The end of an operation: the caller rests, or the sweeper asks for the lock again.
LEMMA DoneFacts ==
  ASSUME c \in [Callers -> Caller], NEW t \in Callers, Fits(t), Done(t), now' = now, now \in Nat
  PROVE  /\ c' \in [Callers -> Caller]
         /\ \A u \in Callers : u # t => c'[u] = c[u]
         /\ c'[t].pc \in {"idle", "enter"} /\ Fits(t)' /\ Work(t)'
<1> DEFINE n == [c[t] EXCEPT !.pc = "enter", !.role = None]
<1>1. c[t] \in Caller
  OBVIOUS
<1>2. n \in Caller /\ n.pc = "enter" /\ n.op = c[t].op /\ n.until = c[t].until
  BY <1>1 DEF Caller
<1>3. CASE t = Sweeper /\ c[t].todo # {}
  <2>1. Go(t, n)
    BY <1>3 DEF Done
  <2> HIDE DEF n
  <2>2. c' \in [Callers -> Caller] /\ c'[t] = n /\ \A u \in Callers : u # t => c'[u] = c[u]
    BY <1>2, <2>1, GoFacts
  <2> QED
    BY <1>2, <1>3, <2>2, RolesAssumption DEF Fits, Work
<1>4. CASE ~(t = Sweeper /\ c[t].todo # {})
  <2>1. Go(t, Idle)
    BY <1>4 DEF Done
  <2>2. c' \in [Callers -> Caller] /\ c'[t] = Idle /\ \A u \in Callers : u # t => c'[u] = c[u]
    BY <2>1, GoFacts, IdleFacts
  <2> QED
    BY <2>2, IdleFacts DEF Fits, Work
<1> QED
  BY <1>3, <1>4

LEMMA HolderFacts ==
  ASSUME RolesInv, NEW t \in Callers
  PROVE  /\ World /\ c \in [Callers -> Caller] /\ c[t] \in Caller /\ Fits(t) /\ Work(t)
         /\ now \in Nat /\ OwedIsKept /\ JailHasRecord
<1>1. World /\ c \in [Callers -> Caller] /\ Fits(t) /\ Work(t) /\ OwedIsKept /\ JailHasRecord
  BY TypeParts DEF RolesInv
<1> QED
  BY <1>1, RolesAssumption DEF World

(***************************************************************************)
(* Steps of one caller.                                                    *)
(***************************************************************************)

Others(t) == \A u \in Callers : u # t => c'[u] = c[u]

\* While one caller holds the lock nobody else has work to lose.
LEMMA HolderStep ==
  ASSUME RolesInv, NEW t \in Callers, c[t].pc \in Locked, World', c' \in [Callers -> Caller], Others(t),
         UNCHANGED now, Fits(t)', Work(t)', OwedIsKept', JailHasRecord'
  PROVE  RolesInv'
<1>1. TypeOK'
  BY TypePartsNext
<1>2. \A u \in Callers : u # t => c'[u] = c[u] /\ c[u].pc \notin Locked
  BY DEF RolesInv, OneHolder, Others
<1>3. OneHolder'
  BY <1>2 DEF OneHolder, Callers
<1>4. ASSUME NEW u \in Callers PROVE Fits(u)' /\ Work(u)'
  <2>1. CASE u = t
    BY <2>1
  <2>2. CASE u # t
    <3>1. c'[u] = c[u] /\ c[u].pc \notin Locked /\ Fits(u)
      BY <1>2, <2>2 DEF RolesInv
    <3>2. Fits(u)'
      BY <3>1 DEF Fits
    <3>3. Work(u)'
      BY <3>1 DEF Work, Locked
    <3> QED
      BY <3>2, <3>3
  <2> QED
    BY <2>1, <2>2
<1> QED
  BY <1>1, <1>3, <1>4 DEF RolesInv, Callers

\* The holder gives the lock back.
LEMMA HolderEnds ==
  ASSUME RolesInv, NEW t \in Callers, c[t].pc \in Locked, Done(t), World', UNCHANGED now,
         OwedIsKept', JailHasRecord'
  PROVE  RolesInv'
<1>1. c \in [Callers -> Caller] /\ Fits(t) /\ now \in Nat
  BY HolderFacts
<1>2. c' \in [Callers -> Caller] /\ Others(t) /\ Fits(t)' /\ Work(t)'
  BY <1>1, DoneFacts DEF Others
<1> QED
  BY <1>2, HolderStep

\* What a step does not touch of the member and its row.
LEMMA Untouched ==
  ASSUME RolesInv, UNCHANGED <<roles, jailed, owed, stray>>
  PROVE  OwedIsKept' /\ JailHasRecord'
BY DEF RolesInv, OwedIsKept, JailHasRecord

\* A caller without the lock takes up or ends something; the member may leave at that.
LEMMA OtherStep ==
  ASSUME RolesInv, NEW t \in Callers, c[t].pc \notin Locked, c'[t].pc \notin Locked,
         World', c' \in [Callers -> Caller], Others(t), UNCHANGED <<now, jailed>>, Fits(t)',
         \/ UNCHANGED <<roles, owed, stray>>
         \/ roles' = {} /\ owed' = owed \ roles /\ stray' = FALSE
  PROVE  RolesInv'
<1>1. TypeOK'
  BY TypePartsNext
<1>2. \A u \in Callers : u # t => c'[u] = c[u]
  BY DEF Others
<1>3. OneHolder'
  <2> SUFFICES ASSUME NEW u \in Callers', NEW v \in Callers', c'[u].pc \in Locked, c'[v].pc \in Locked
               PROVE  u = v
    BY DEF OneHolder, Locked, Callers
  <2>1. u # t /\ v # t /\ u \in Callers /\ v \in Callers
    BY DEF Callers
  <2> QED
    BY <1>2, <2>1 DEF RolesInv, OneHolder
<1>4. ASSUME NEW u \in Callers PROVE Fits(u)' /\ Work(u)'
  <2>1. CASE u = t
    <3>1. Work(t)'
      BY DEF Work, Locked
    <3> QED
      BY <2>1, <3>1
  <2>2. CASE u # t
    <3>1. c'[u] = c[u] /\ Fits(u) /\ Work(u)
      BY <1>2, <2>2 DEF RolesInv
    <3>2. Fits(u)'
      BY <3>1 DEF Fits
    <3>3. Work(u)'
      BY <3>1 DEF Work
    <3> QED
      BY <3>2, <3>3
  <2> QED
    BY <2>1, <2>2
<1>5. OwedIsKept' /\ JailHasRecord'
  BY DEF RolesInv, OwedIsKept, JailHasRecord
<1> QED
  BY <1>1, <1>3, <1>4, <1>5 DEF RolesInv, Callers

(***************************************************************************)
(* Calls.                                                                  *)
(***************************************************************************)

LEMMA AddRoleFacts ==
  ASSUME World, NEW r \in Roles \cup {JailRole}, AddRole(r), UNCHANGED <<db, now, force, owed, starts>>,
         stray' \in BOOLEAN
  PROVE  World' /\ roles' = roles \cup {r}
BY DEF World, AddRole, db

LEMMA RemoveRoleFacts ==
  ASSUME World, NEW r \in Roles \cup {JailRole}, RemoveRole(r), UNCHANGED <<db, now, starts>>,
         force' \in BOOLEAN, stray' \in BOOLEAN, owed' \subseteq Roles
  PROVE  World' /\ roles' = roles \ {r}
BY DEF World, RemoveRole, db

LEMMA FailsFacts ==
  ASSUME World, Fails PROVE errors' \in 0..MaxErrors
BY RolesAssumption DEF World, Fails

LEMMA CallFailsFacts ==
  ASSUME World, CallFails, UNCHANGED <<db, now, starts>>,
         force' \in BOOLEAN, stray' \in BOOLEAN, owed' \subseteq Roles
  PROVE  World' /\ UNCHANGED roles
<1>1. errors' \in 0..MaxErrors
  BY FailsFacts DEF World, CallFails
<1> QED
  BY <1>1 DEF World, CallFails, db, discord

LEMMA StoreFailsFacts ==
  ASSUME World, StoreFails, UNCHANGED <<discord, now, starts>>,
         force' \in BOOLEAN, stray' \in BOOLEAN, owed' \subseteq Roles
  PROVE  World' /\ UNCHANGED <<roles, jailed>>
<1>1. errors' \in 0..MaxErrors
  BY FailsFacts DEF StoreFails
<1> QED
  BY <1>1 DEF World, StoreFails, db, discord

(***************************************************************************)
(* What a step does to what is owed and to the record.                     *)
(***************************************************************************)

LEMMA Given ==
  ASSUME RolesInv, NEW r \in Roles, roles' = roles \cup {r}, UNCHANGED <<jailed, owed, stray>>
  PROVE  OwedIsKept' /\ JailHasRecord'
BY RolesAssumption DEF RolesInv, OwedIsKept, JailHasRecord

LEMMA Taken ==
  ASSUME RolesInv, NEW r \in Roles, roles' = roles \ {r}, owed' = owed \ {r}, UNCHANGED <<jailed, stray>>
  PROVE  OwedIsKept' /\ JailHasRecord'
BY DEF RolesInv, OwedIsKept, JailHasRecord

LEMMA OwedLess ==
  ASSUME World, NEW r
  PROVE  owed \ {r} \subseteq Roles /\ owed \subseteq Roles /\ stray \in BOOLEAN /\ force \in BOOLEAN
BY DEF World

(***************************************************************************)
(* Assign and Revoke.                                                      *)
(***************************************************************************)

LEMMA GiveKeeps ==
  ASSUME RolesInv, NEW t \in Threads, Give(t) PROVE RolesInv'
<1> DEFINE r == c[t].role
<1>1. /\ t \in Callers /\ c[t].pc = "add" /\ c[t].pc \in Locked
      /\ UNCHANGED <<db, now, force, owed, stray, starts, jailed>>
  BY DEF Give, At, Callers, Locked, ghosts, db
<1>2. World /\ c \in [Callers -> Caller] /\ c[t] \in Caller /\ Fits(t) /\ now \in Nat
  BY <1>1, HolderFacts
<1>3. r \in Roles /\ c[t].op = "assign"
  BY <1>1, <1>2 DEF Fits
<1>4. CASE AddRole(c[t].role) /\ IF c[t].until = 0 THEN Done(t) ELSE To(t, "saveTemp")
  <2>1. World' /\ roles' = roles \cup {r}
    BY <1>1, <1>2, <1>3, <1>4, OwedLess, AddRoleFacts
  <2>2. OwedIsKept' /\ JailHasRecord'
    BY <1>1, <1>3, <2>1, Given
  <2>3. CASE c[t].until = 0
    BY <1>1, <1>4, <2>1, <2>2, <2>3, HolderEnds
  <2>4. CASE c[t].until # 0
    <3>1. To(t, "saveTemp") /\ "saveTemp" \in Locked
      BY <1>4, <2>4 DEF Locked
    <3>2. /\ c' \in [Callers -> Caller] /\ Others(t) /\ c'[t].pc = "saveTemp" /\ c'[t].op = c[t].op
          /\ c'[t].role = r /\ c'[t].until = c[t].until
      BY <1>1, <1>2, <3>1, ToFacts DEF Others
    <3>3. c'[t].until > 0
      BY <1>2, <2>4, <3>2, RolesAssumption DEF Caller
    <3>4. Fits(t)' /\ Work(t)'
      BY <1>1, <1>2, <1>3, <3>2, <3>3 DEF Fits, Work
    <3> QED
      BY <1>1, <2>1, <2>2, <3>2, <3>4, HolderStep
  <2> QED
    BY <2>3, <2>4
<1>5. CASE CallFails /\ Done(t)
  <2>1. World' /\ UNCHANGED roles
    BY <1>1, <1>2, <1>5, OwedLess, CallFailsFacts
  <2>2. OwedIsKept' /\ JailHasRecord'
    BY <1>1, <2>1, Untouched
  <2> QED
    BY <1>1, <1>5, <2>1, <2>2, HolderEnds
<1> QED
  BY <1>4, <1>5 DEF Give

LEMMA SaveTempKeeps ==
  ASSUME RolesInv, NEW t \in Threads, SaveTemp(t) PROVE RolesInv'
<1> DEFINE r == c[t].role
<1>1. /\ t \in Callers /\ c[t].pc = "saveTemp" /\ c[t].pc \in Locked
      /\ UNCHANGED <<discord, roles, now, force, owed, stray, starts>>
  BY DEF SaveTemp, At, Callers, Locked, ghosts, discord
<1>2. World /\ c \in [Callers -> Caller] /\ c[t] \in Caller /\ Fits(t) /\ now \in Nat
  BY <1>1, HolderFacts
<1>3. r \in Roles /\ c[t].op = "assign" /\ c[t].until \in 0..(MaxTime + 1) /\ c[t].until <= 1
  BY <1>1, <1>2 DEF Fits, Caller
<1>4. CASE /\ temp' = [temp EXCEPT ![c[t].role] = now + c[t].until]
           /\ Done(t) /\ UNCHANGED <<jailed, left, errors>>
  <2>1. now + c[t].until \in 0..(MaxTime + 1)
    BY <1>2, <1>3, RolesAssumption DEF World
  <2>2. World'
    BY <1>1, <1>2, <1>3, <1>4, <2>1 DEF World, discord
  <2>3. OwedIsKept' /\ JailHasRecord'
    BY <1>1, <1>4, Untouched
  <2> QED
    BY <1>1, <1>4, <2>2, <2>3, HolderEnds
<1>5. CASE StoreFails /\ To(t, "undo")
  <2>1. World' /\ UNCHANGED <<roles, jailed>>
    BY <1>1, <1>2, <1>5, OwedLess, StoreFailsFacts
  <2>2. OwedIsKept' /\ JailHasRecord'
    BY <1>1, <2>1, Untouched
  <2>3. "undo" \in Locked
    BY DEF Locked
  <2>4. /\ c' \in [Callers -> Caller] /\ Others(t) /\ c'[t].pc = "undo" /\ c'[t].op = c[t].op
        /\ c'[t].role = r /\ c'[t].until = c[t].until
    BY <1>1, <1>2, <1>5, <2>3, ToFacts DEF Others
  <2>5. Fits(t)' /\ Work(t)'
    BY <1>1, <1>2, <1>3, <2>4 DEF Fits, Work
  <2> QED
    BY <1>1, <2>1, <2>2, <2>4, <2>5, HolderStep
<1> QED
  BY <1>4, <1>5 DEF SaveTemp

LEMMA UndoGiveKeeps ==
  ASSUME RolesInv, NEW t \in Threads, UndoGive(t) PROVE RolesInv'
<1>1. /\ t \in Callers /\ c[t].pc = "undo" /\ c[t].pc \in Locked /\ Done(t)
      /\ UNCHANGED <<db, jailed, now, force, stray, starts>>
  BY DEF UndoGive, At, Callers, Locked, db
<1>2. World /\ Fits(t)
  BY <1>1, HolderFacts
<1>3. c[t].role \in Roles
  BY <1>1, <1>2 DEF Fits
<1>4. World' /\ OwedIsKept' /\ JailHasRecord'
  <2>1. CASE RemoveRole(c[t].role) /\ owed' = owed \ {c[t].role}
    BY <1>1, <1>2, <1>3, <2>1, OwedLess, RemoveRoleFacts, Taken
  <2>2. CASE CallFails /\ UNCHANGED owed
    BY <1>1, <1>2, <2>2, OwedLess, CallFailsFacts, Untouched
  <2> QED
    BY <2>1, <2>2 DEF UndoGive
<1> QED
  BY <1>1, <1>4, HolderEnds

LEMMA RevokeKeeps ==
  ASSUME RolesInv, NEW t \in Threads, Revoke(t) PROVE RolesInv'
<1>1. /\ t \in Callers /\ c[t].pc = "remove" /\ c[t].pc \in Locked
      /\ UNCHANGED <<db, jailed, now, force, stray, starts>>
  BY DEF Revoke, At, Callers, Locked, db
<1>2. World /\ c \in [Callers -> Caller] /\ c[t] \in Caller /\ Fits(t) /\ now \in Nat
  BY <1>1, HolderFacts
<1>3. c[t].role \in Roles /\ c[t].op = "revoke"
  BY <1>1, <1>2 DEF Fits
<1>4. CASE RemoveRole(c[t].role) /\ owed' = owed \ {c[t].role} /\ To(t, "forget")
  <2>1. World' /\ OwedIsKept' /\ JailHasRecord'
    BY <1>1, <1>2, <1>3, <1>4, OwedLess, RemoveRoleFacts, Taken
  <2>2. "forget" \in Locked
    BY DEF Locked
  <2>3. /\ c' \in [Callers -> Caller] /\ Others(t) /\ c'[t].pc = "forget" /\ c'[t].op = c[t].op
        /\ c'[t].role = c[t].role /\ c'[t].until = c[t].until
    BY <1>1, <1>2, <1>4, <2>2, ToFacts DEF Others
  <2>4. Fits(t)' /\ Work(t)'
    BY <1>1, <1>2, <1>3, <2>3 DEF Fits, Work
  <2> QED
    BY <1>1, <2>1, <2>3, <2>4, HolderStep
<1>5. CASE CallFails /\ Done(t) /\ UNCHANGED owed
  <2>1. World' /\ OwedIsKept' /\ JailHasRecord'
    BY <1>1, <1>2, <1>5, OwedLess, CallFailsFacts, Untouched
  <2> QED
    BY <1>1, <1>5, <2>1, HolderEnds
<1> QED
  BY <1>4, <1>5 DEF Revoke

LEMMA ForgetTempKeeps ==
  ASSUME RolesInv, NEW t \in Threads, ForgetTemp(t) PROVE RolesInv'
<1>1. /\ t \in Callers /\ c[t].pc = "forget" /\ c[t].pc \in Locked /\ Done(t)
      /\ UNCHANGED <<discord, roles, now, force, owed, stray, starts>>
  BY DEF ForgetTemp, At, Callers, Locked, ghosts, discord
<1>2. World /\ Fits(t)
  BY <1>1, HolderFacts
<1>3. World' /\ UNCHANGED <<roles, jailed, owed, stray>>
  <2>1. CASE temp' = [temp EXCEPT ![c[t].role] = 0] /\ UNCHANGED <<jailed, left, errors>>
    <3>1. 0 \in 0..(MaxTime + 1)
      BY RolesAssumption
    <3>2. temp' \in [Roles -> 0..(MaxTime + 1)]
      BY <1>2, <2>1, <3>1 DEF World
    <3> QED
      BY <1>1, <1>2, <2>1, <3>2 DEF World, discord
  <2>2. CASE StoreFails
    BY <1>1, <1>2, <2>2, OwedLess, StoreFailsFacts
  <2> QED
    BY <2>1, <2>2 DEF ForgetTemp
<1> QED
  BY <1>1, <1>3, Untouched, HolderEnds

(***************************************************************************)
(* Jail.                                                                   *)
(***************************************************************************)

LEMMA SnapshotKeeps ==
  ASSUME RolesInv, NEW t \in Threads, Snapshot(t) PROVE RolesInv'
<1>1. /\ t \in Callers /\ c[t].pc = "snapshot" /\ c[t].pc \in Locked
      /\ UNCHANGED <<discord, roles, db, jailed, now, force, owed, stray, starts>>
  BY DEF Snapshot, At, Callers, Locked, ghosts, discord, db
<1>2. World /\ c \in [Callers -> Caller] /\ c[t] \in Caller /\ Fits(t) /\ now \in Nat
  BY <1>1, HolderFacts
<1>3. errors' \in 0..MaxErrors
  BY <1>2, FailsFacts DEF Snapshot, World
<1>4. World'
  BY <1>1, <1>2, <1>3 DEF World, discord, db
<1>5. OwedIsKept' /\ JailHasRecord'
  BY <1>1, Untouched
<1>6. ASSUME NEW kept \in SUBSET Roles,
             Go(t, [c[t] EXCEPT !.pc = "record", !.todo = cache \ {JailRole}, !.kept = kept])
      PROVE  RolesInv'
  <2> DEFINE n == [c[t] EXCEPT !.pc = "record", !.todo = cache \ {JailRole}, !.kept = kept]
  <2>1. cache \ {JailRole} \in SUBSET Roles
    BY <1>2 DEF World
  <2>2. n \in Caller /\ n.pc = "record" /\ n.op = c[t].op /\ n.role = c[t].role /\ n.until = c[t].until
    BY <1>2, <2>1 DEF Caller, Locked
  <2>3. Go(t, n)
    BY <1>6
  <2> HIDE DEF n
  <2>4. c' \in [Callers -> Caller] /\ c'[t] = n /\ Others(t)
    BY <1>1, <1>2, <2>2, <2>3, GoFacts DEF Others
  <2>5. Fits(t)' /\ Work(t)'
    BY <1>1, <1>2, <2>2, <2>4 DEF Fits, Work
  <2> QED
    BY <1>1, <1>4, <1>5, <2>4, <2>5, HolderStep
<1>7. {r \in cache \ {JailRole} : temp[r] = 0} \in SUBSET Roles /\ cache \ {JailRole} \in SUBSET Roles
  BY <1>2 DEF World
<1>8. CASE Done(t)
  BY <1>1, <1>4, <1>5, <1>8, HolderEnds
<1> QED
  BY <1>6, <1>7, <1>8 DEF Snapshot

LEMMA RecordKeeps ==
  ASSUME RolesInv, NEW t \in Threads, Record(t) PROVE RolesInv'
<1>1. /\ t \in Callers /\ c[t].pc = "record" /\ c[t].pc \in Locked
      /\ UNCHANGED <<discord, roles, now, force, stray, starts>>
  BY DEF Record, At, Callers, Locked, discord
<1>2. /\ World /\ c \in [Callers -> Caller] /\ c[t] \in Caller /\ Fits(t) /\ now \in Nat
      /\ OwedIsKept /\ JailHasRecord
  BY <1>1, HolderFacts
<1>3. CASE /\ jailed = None /\ jailed' = c[t].kept /\ owed' = c[t].kept \cap roles
           /\ To(t, "strip") /\ UNCHANGED <<temp, left, errors>>
  <2>1. c[t].kept \in SUBSET Roles /\ c[t].kept # None
    BY <1>2, RolesAssumption DEF Caller
  <2>2. World'
    BY <1>1, <1>2, <1>3, <2>1 DEF World, discord
  <2>3. "strip" \in Locked
    BY DEF Locked
  <2>4. /\ c' \in [Callers -> Caller] /\ Others(t) /\ c'[t].pc = "strip" /\ c'[t].op = c[t].op
        /\ c'[t].role = c[t].role /\ c'[t].until = c[t].until
    BY <1>1, <1>2, <1>3, <2>3, ToFacts DEF Others
  <2>5. Fits(t)'
    BY <1>1, <1>2, <2>4 DEF Fits
  <2>6. jailed' # None /\ owed' \subseteq roles' /\ (JailRole \in roles' => stray')
    BY <1>1, <1>2, <1>3, <2>1 DEF JailHasRecord
  <2>7. Work(t)'
    BY <2>4, <2>6 DEF Work
  <2>8. OwedIsKept' /\ JailHasRecord'
    BY <1>3, <2>6 DEF OwedIsKept, JailHasRecord
  <2> QED
    BY <1>1, <2>2, <2>4, <2>5, <2>7, <2>8, HolderStep
<1>4. CASE /\ jailed # None \/ errors < MaxErrors
           /\ errors' = IF jailed = None THEN errors + 1 ELSE errors
           /\ Done(t) /\ UNCHANGED <<db, owed>>
  <2>1. errors' \in 0..MaxErrors
    BY <1>2, <1>4, RolesAssumption DEF World
  <2>2. World' /\ UNCHANGED jailed
    BY <1>1, <1>2, <1>4, <2>1 DEF World, discord, db
  <2>3. OwedIsKept' /\ JailHasRecord'
    BY <1>1, <1>4, <2>2, Untouched
  <2> QED
    BY <1>1, <1>4, <2>2, <2>3, HolderEnds
<1> QED
  BY <1>3, <1>4 DEF Record

LEMMA StripKeeps ==
  ASSUME RolesInv, NEW t \in Threads, Strip(t) PROVE RolesInv'
<1>1. /\ t \in Callers /\ c[t].pc = "strip" /\ c[t].pc \in Locked
      /\ UNCHANGED <<db, jailed, now, force, owed, stray, starts>>
  BY DEF Strip, At, Callers, Locked, ghosts, db
<1>2. /\ World /\ c \in [Callers -> Caller] /\ c[t] \in Caller /\ Fits(t) /\ now \in Nat
      /\ OwedIsKept /\ JailHasRecord
  BY <1>1, HolderFacts
<1>3. jailed # None /\ owed \subseteq roles \cup c[t].done /\ (JailRole \in roles => stray)
  BY <1>1, HolderFacts DEF Work
<1>4. c[t].todo \in SUBSET Roles /\ c[t].done \in SUBSET Roles
  BY <1>2 DEF Caller
\* The row has what is owed, so only Work matters.
<1>5. ASSUME roles' \subseteq roles PROVE OwedIsKept' /\ JailHasRecord'
  BY <1>1, <1>2, <1>3, <1>5 DEF OwedIsKept, JailHasRecord
<1>6. ASSUME NEW r \in c[t].todo, RemoveRole(r),
             Go(t, [c[t] EXCEPT !.todo = @ \ {r}, !.done = @ \cup {r}])
      PROVE  RolesInv'
  <2> DEFINE n == [c[t] EXCEPT !.todo = @ \ {r}, !.done = @ \cup {r}]
  <2>1. World' /\ roles' = roles \ {r}
    BY <1>1, <1>2, <1>4, <1>6, OwedLess, RemoveRoleFacts
  <2>2. /\ n \in Caller /\ n.pc = "strip" /\ n.op = c[t].op /\ n.role = c[t].role /\ n.until = c[t].until
        /\ n.done = c[t].done \cup {r}
    BY <1>1, <1>2, <1>4, <1>6 DEF Caller
  <2>3. Go(t, n)
    BY <1>6
  <2> HIDE DEF n
  <2>4. c' \in [Callers -> Caller] /\ c'[t] = n /\ Others(t)
    BY <1>1, <1>2, <2>2, <2>3, GoFacts DEF Others
  <2>5. Fits(t)'
    BY <1>1, <1>2, <2>2, <2>4 DEF Fits
  <2>6. owed' \subseteq roles' \cup c'[t].done
    BY <1>1, <1>3, <2>1, <2>2, <2>4
  <2>7. Work(t)'
    BY <1>1, <1>3, <2>1, <2>2, <2>4, <2>6 DEF Work
  <2> QED
    BY <1>1, <1>5, <2>1, <2>4, <2>5, <2>7, HolderStep
<1>7. ASSUME CallFails, Go(t, [c[t] EXCEPT !.pc = "rollback", !.todo = {}])
      PROVE  RolesInv'
  <2> DEFINE n == [c[t] EXCEPT !.pc = "rollback", !.todo = {}]
  <2>1. World' /\ UNCHANGED roles
    BY <1>1, <1>2, <1>7, OwedLess, CallFailsFacts
  <2>2. /\ n \in Caller /\ n.pc = "rollback" /\ n.op = c[t].op /\ n.role = c[t].role /\ n.until = c[t].until
        /\ n.done = c[t].done
    BY <1>1, <1>2, <1>4 DEF Caller, Locked
  <2>3. Go(t, n)
    BY <1>7
  <2> HIDE DEF n
  <2>4. c' \in [Callers -> Caller] /\ c'[t] = n /\ Others(t)
    BY <1>1, <1>2, <2>2, <2>3, GoFacts DEF Others
  <2>5. Fits(t)' /\ Work(t)'
    BY <1>1, <1>2, <1>3, <2>1, <2>2, <2>4 DEF Fits, Work
  <2> QED
    BY <1>1, <1>5, <2>1, <2>4, <2>5, HolderStep
<1>8. ASSUME c[t].todo = {}, To(t, "cell"), UNCHANGED <<discord, errors>>
      PROVE  RolesInv'
  <2>1. World' /\ UNCHANGED roles
    BY <1>1, <1>2, <1>8 DEF World, discord, db
  <2>2. "cell" \in Locked
    BY DEF Locked
  <2>3. /\ c' \in [Callers -> Caller] /\ Others(t) /\ c'[t].pc = "cell" /\ c'[t].op = c[t].op
        /\ c'[t].role = c[t].role /\ c'[t].until = c[t].until /\ c'[t].done = c[t].done
    BY <1>1, <1>2, <1>8, <2>2, ToFacts DEF Others
  <2>4. Fits(t)' /\ Work(t)'
    BY <1>1, <1>2, <1>3, <2>1, <2>3 DEF Fits, Work
  <2> QED
    BY <1>1, <1>5, <2>1, <2>3, <2>4, HolderStep
<1> QED
  BY <1>6, <1>7, <1>8 DEF Strip

LEMMA ImprisonKeeps ==
  ASSUME RolesInv, NEW t \in Threads, Imprison(t) PROVE RolesInv'
<1>1. /\ t \in Callers /\ c[t].pc = "cell" /\ c[t].pc \in Locked
      /\ UNCHANGED <<db, jailed, now, force, owed, stray, starts>>
  BY DEF Imprison, At, Callers, Locked, ghosts, db
<1>2. /\ World /\ c \in [Callers -> Caller] /\ c[t] \in Caller /\ Fits(t) /\ now \in Nat
      /\ OwedIsKept /\ JailHasRecord
  BY <1>1, HolderFacts
<1>3. jailed # None /\ owed \subseteq roles \cup c[t].done /\ (JailRole \in roles => stray)
  BY <1>1, HolderFacts DEF Work
<1>4. OwedIsKept' /\ JailHasRecord'
  BY <1>1, <1>2, <1>3 DEF OwedIsKept, JailHasRecord
<1>5. CASE AddRole(JailRole) /\ Done(t)
  <2>1. World'
    BY <1>1, <1>2, <1>5, OwedLess, AddRoleFacts
  <2> QED
    BY <1>1, <1>4, <1>5, <2>1, HolderEnds
<1>6. CASE CallFails /\ To(t, "rollback")
  <2>1. World' /\ UNCHANGED roles
    BY <1>1, <1>2, <1>6, OwedLess, CallFailsFacts
  <2>2. "rollback" \in Locked
    BY DEF Locked
  <2>3. /\ c' \in [Callers -> Caller] /\ Others(t) /\ c'[t].pc = "rollback" /\ c'[t].op = c[t].op
        /\ c'[t].role = c[t].role /\ c'[t].until = c[t].until /\ c'[t].done = c[t].done
    BY <1>1, <1>2, <1>6, <2>2, ToFacts DEF Others
  <2>4. Fits(t)' /\ Work(t)'
    BY <1>1, <1>2, <1>3, <2>1, <2>3 DEF Fits, Work
  <2> QED
    BY <1>1, <1>4, <2>1, <2>3, <2>4, HolderStep
<1> QED
  BY <1>5, <1>6 DEF Imprison

\* A role the rollback cannot give back is owed no longer; the others are.
LEMMA RollBackKeeps ==
  ASSUME RolesInv, NEW t \in Threads, RollBack(t) PROVE RolesInv'
<1>1. /\ t \in Callers /\ c[t].pc = "rollback" /\ c[t].pc \in Locked
      /\ UNCHANGED <<now, force, stray, starts>>
  BY DEF RollBack, At, Callers, Locked
<1>2. /\ World /\ c \in [Callers -> Caller] /\ c[t] \in Caller /\ Fits(t) /\ now \in Nat
      /\ OwedIsKept /\ JailHasRecord
  BY <1>1, HolderFacts
<1>3. jailed # None /\ owed \subseteq roles \cup c[t].done /\ (JailRole \in roles => stray)
  BY <1>1, HolderFacts DEF Work
<1>4. c[t].done \in SUBSET Roles
  BY <1>2 DEF Caller
<1>5. ASSUME NEW r \in c[t].done, Go(t, [c[t] EXCEPT !.done = @ \ {r}]), UNCHANGED db,
             \/ AddRole(r) /\ UNCHANGED owed
             \/ CallFails /\ owed' = owed \ {r}
      PROVE  RolesInv'
  <2> DEFINE n == [c[t] EXCEPT !.done = @ \ {r}]
  <2>1. r \in Roles /\ UNCHANGED jailed
    BY <1>4, <1>5 DEF db
  <2>2. /\ World'
        /\ \/ roles' = roles \cup {r} /\ owed' = owed
           \/ roles' = roles /\ owed' = owed \ {r}
    <3>1. CASE AddRole(r) /\ UNCHANGED owed
      BY <1>1, <1>2, <1>5, <2>1, <3>1, OwedLess, AddRoleFacts
    <3>2. CASE CallFails /\ owed' = owed \ {r}
      BY <1>1, <1>2, <1>5, <3>2, OwedLess, CallFailsFacts
    <3> QED
      BY <1>5, <3>1, <3>2
  <2>3. /\ n \in Caller /\ n.pc = "rollback" /\ n.op = c[t].op /\ n.role = c[t].role /\ n.until = c[t].until
        /\ n.done = c[t].done \ {r}
    BY <1>1, <1>2, <1>4 DEF Caller
  <2>4. Go(t, n)
    BY <1>5
  <2> HIDE DEF n
  <2>5. c' \in [Callers -> Caller] /\ c'[t] = n /\ Others(t)
    BY <1>1, <1>2, <2>3, <2>4, GoFacts DEF Others
  <2>6. Fits(t)'
    BY <1>1, <1>2, <2>3, <2>5 DEF Fits
  <2>7. owed' \subseteq roles' \cup c'[t].done /\ owed' \subseteq owed
    BY <1>3, <2>2, <2>3, <2>5
  <2>8. JailRole \in roles' => stray'
    BY <1>1, <1>3, <2>1, <2>2, RolesAssumption
  <2>9. Work(t)' /\ OwedIsKept' /\ JailHasRecord'
    BY <1>2, <1>3, <2>1, <2>3, <2>5, <2>7, <2>8 DEF Work, OwedIsKept, JailHasRecord
  <2> QED
    BY <1>1, <2>2, <2>5, <2>6, <2>9, HolderStep
<1>6. ASSUME c[t].done = {}, Done(t), UNCHANGED <<discord, owed>>,
             \/ jailed' = None /\ UNCHANGED <<temp, left, errors>>
             \/ StoreFails
      PROVE  RolesInv'
  <2>1. World' /\ (jailed' = None \/ jailed' = jailed)
    <3>1. CASE jailed' = None /\ UNCHANGED <<temp, left, errors>>
      BY <1>1, <1>2, <1>6, <3>1 DEF World, discord
    <3>2. CASE StoreFails
      BY <1>1, <1>2, <1>6, <3>2, OwedLess, StoreFailsFacts
    <3> QED
      BY <1>6, <3>1, <3>2
  <2>2. owed \subseteq roles /\ UNCHANGED <<roles, owed, stray>>
    BY <1>1, <1>3, <1>6 DEF discord
  <2>3. OwedIsKept' /\ JailHasRecord'
    BY <1>2, <1>3, <2>1, <2>2 DEF OwedIsKept, JailHasRecord
  <2> QED
    BY <1>1, <1>6, <2>1, <2>3, HolderEnds
<1> QED
  BY <1>5, <1>6 DEF RollBack

(***************************************************************************)
(* Unjail.                                                                 *)
(***************************************************************************)

LEMMA LookKeeps ==
  ASSUME RolesInv, NEW t \in Threads, Look(t) PROVE RolesInv'
<1>1. /\ t \in Callers /\ c[t].pc = "look" /\ c[t].pc \in Locked
      /\ UNCHANGED <<discord, roles, db, jailed, now, owed, stray, starts>>
  BY DEF Look, At, Callers, Locked, ghosts, discord, db
<1>2. /\ World /\ c \in [Callers -> Caller] /\ c[t] \in Caller /\ Fits(t) /\ now \in Nat
      /\ OwedIsKept
  BY <1>1, HolderFacts
<1>3. errors' \in 0..MaxErrors
  BY <1>2, FailsFacts DEF Look, ReadActive, World
<1>4. force' \in BOOLEAN
  BY <1>2 DEF Look, Reoffer, World
<1>5. World'
  BY <1>1, <1>2, <1>3, <1>4 DEF World, discord, db
<1>6. OwedIsKept' /\ JailHasRecord'
  BY <1>1, Untouched
<1>7. ASSUME jailed # None, NEW soon \in {Active, {}},
             Go(t, [c[t] EXCEPT !.pc = "restore", !.todo = jailed, !.kept = soon])
      PROVE  RolesInv'
  <2> DEFINE n == [c[t] EXCEPT !.pc = "restore", !.todo = jailed, !.kept = soon]
  <2>1. soon \in SUBSET Roles /\ jailed \in SUBSET Roles /\ owed \subseteq jailed
    BY <1>2, <1>7 DEF World, Active, OwedIsKept
  <2>2. /\ n \in Caller /\ n.pc = "restore" /\ n.op = c[t].op /\ n.role = c[t].role /\ n.until = c[t].until
        /\ n.todo = jailed
    BY <1>2, <2>1 DEF Caller, Locked
  <2>3. Go(t, n)
    BY <1>7
  <2> HIDE DEF n
  <2>4. c' \in [Callers -> Caller] /\ c'[t] = n /\ Others(t)
    BY <1>1, <1>2, <2>2, <2>3, GoFacts DEF Others
  <2>5. Fits(t)' /\ Work(t)'
    BY <1>1, <1>2, <1>7, <2>1, <2>2, <2>4 DEF Fits, Work
  <2> QED
    BY <1>1, <1>5, <1>6, <2>4, <2>5, HolderStep
<1>8. CASE Done(t)
  BY <1>1, <1>5, <1>6, <1>8, HolderEnds
<1> QED
  BY <1>7, <1>8 DEF Look

LEMMA RestoreKeeps ==
  ASSUME RolesInv, NEW t \in Threads, Restore(t) PROVE RolesInv'
<1>1. /\ t \in Callers /\ c[t].pc = "restore" /\ c[t].pc \in Locked
      /\ UNCHANGED <<db, jailed, now, force, owed, stray, starts>>
  BY DEF Restore, At, Callers, Locked, ghosts, db
<1>2. /\ World /\ c \in [Callers -> Caller] /\ c[t] \in Caller /\ Fits(t) /\ now \in Nat
      /\ OwedIsKept /\ JailHasRecord
  BY <1>1, HolderFacts
<1>3. jailed # None /\ (c[t].missed \/ owed \subseteq roles \cup c[t].todo)
  BY <1>1, HolderFacts DEF Work
<1>4. c[t].todo \in SUBSET Roles /\ c[t].kept \in SUBSET Roles
  BY <1>2 DEF Caller
\* Whatever the caller has become, if only it is still restoring.
<1>5. ASSUME NEW n \in Caller, Go(t, n), World',
             n.pc = "restore", n.op = c[t].op, n.role = c[t].role, n.until = c[t].until,
             n.missed \/ owed \subseteq roles' \cup n.todo,
             JailRole \in roles' => JailRole \in roles
      PROVE  RolesInv'
  <2>1. c' \in [Callers -> Caller] /\ c'[t] = n /\ Others(t)
    BY <1>1, <1>2, <1>5, GoFacts DEF Others
  <2>2. Fits(t)' /\ Work(t)'
    BY <1>1, <1>2, <1>3, <1>5, <2>1 DEF Fits, Work
  <2>3. OwedIsKept' /\ JailHasRecord'
    BY <1>1, <1>2, <1>3, <1>5 DEF OwedIsKept, JailHasRecord
  <2> QED
    BY <1>1, <1>5, <2>1, <2>2, <2>3, HolderStep
<1>6. ASSUME NEW r \in c[t].todo, AddRole(r), Go(t, [c[t] EXCEPT !.todo = @ \ {r}, !.kept = @ \ {r}])
      PROVE  RolesInv'
  <2> DEFINE n == [c[t] EXCEPT !.todo = @ \ {r}, !.kept = @ \ {r}]
  <2>1. World' /\ roles' = roles \cup {r} /\ r \in Roles
    BY <1>1, <1>2, <1>4, <1>6, OwedLess, AddRoleFacts
  <2>2. /\ n \in Caller /\ n.pc = "restore" /\ n.op = c[t].op /\ n.role = c[t].role /\ n.until = c[t].until
        /\ n.missed = c[t].missed /\ n.todo = c[t].todo \ {r}
    BY <1>1, <1>2, <1>4 DEF Caller
  <2>3. Go(t, n)
    BY <1>6
  <2> HIDE DEF n
  <2>4. n.missed \/ owed \subseteq roles' \cup n.todo
    BY <1>3, <2>1, <2>2
  <2>5. JailRole \in roles' => JailRole \in roles
    BY <2>1, RolesAssumption
  <2> QED
    BY <1>5, <2>1, <2>2, <2>3, <2>4, <2>5
<1>7. ASSUME NEW r \in c[t].todo, CallFails \/ UNCHANGED <<discord, errors>>,
             Go(t, [c[t] EXCEPT !.todo = @ \ {r}, !.missed = TRUE])
      PROVE  RolesInv'
  <2> DEFINE n == [c[t] EXCEPT !.todo = @ \ {r}, !.missed = TRUE]
  <2>1. World' /\ UNCHANGED roles
    <3>1. CASE CallFails
      BY <1>1, <1>2, <3>1, OwedLess, CallFailsFacts
    <3>2. CASE UNCHANGED <<discord, errors>>
      BY <1>1, <1>2, <3>2 DEF World, discord, db
    <3> QED
      BY <1>7, <3>1, <3>2
  <2>2. /\ n \in Caller /\ n.pc = "restore" /\ n.op = c[t].op /\ n.role = c[t].role /\ n.until = c[t].until
        /\ n.missed
    BY <1>1, <1>2, <1>4 DEF Caller
  <2>3. Go(t, n)
    BY <1>7
  <2> HIDE DEF n
  <2> QED
    BY <1>5, <2>1, <2>2, <2>3
<1>8. ASSUME NEW r \in c[t].kept, AddRole(r) \/ CallFails, Go(t, [c[t] EXCEPT !.kept = @ \ {r}])
      PROVE  RolesInv'
  <2> DEFINE n == [c[t] EXCEPT !.kept = @ \ {r}]
  <2>1. World' /\ roles \subseteq roles' /\ (JailRole \in roles' => JailRole \in roles)
    <3>1. CASE AddRole(r)
      BY <1>1, <1>2, <1>4, <3>1, OwedLess, AddRoleFacts, RolesAssumption
    <3>2. CASE CallFails
      BY <1>1, <1>2, <3>2, OwedLess, CallFailsFacts
    <3> QED
      BY <1>8, <3>1, <3>2
  <2>2. /\ n \in Caller /\ n.pc = "restore" /\ n.op = c[t].op /\ n.role = c[t].role /\ n.until = c[t].until
        /\ n.missed = c[t].missed /\ n.todo = c[t].todo
    BY <1>1, <1>2, <1>4 DEF Caller
  <2>3. Go(t, n)
    BY <1>8
  <2> HIDE DEF n
  <2>4. n.missed \/ owed \subseteq roles' \cup n.todo
    BY <1>3, <2>1, <2>2
  <2> QED
    BY <1>5, <2>1, <2>2, <2>3, <2>4
<1>9. ASSUME c[t].todo \cup c[t].kept = {}, To(t, "release"), UNCHANGED <<discord, errors>>
      PROVE  RolesInv'
  <2>1. World' /\ UNCHANGED roles
    BY <1>1, <1>2, <1>9 DEF World, discord, db
  <2>2. "release" \in Locked
    BY DEF Locked
  <2>3. /\ c' \in [Callers -> Caller] /\ Others(t) /\ c'[t].pc = "release" /\ c'[t].op = c[t].op
        /\ c'[t].role = c[t].role /\ c'[t].until = c[t].until /\ c'[t].todo = c[t].todo
        /\ c'[t].missed = c[t].missed
    BY <1>1, <1>2, <1>9, <2>2, ToFacts DEF Others
  <2>4. c[t].todo = {}
    BY <1>9
  <2>5. Fits(t)' /\ Work(t)'
    BY <1>1, <1>2, <1>3, <2>1, <2>3, <2>4 DEF Fits, Work
  <2>6. OwedIsKept' /\ JailHasRecord'
    BY <1>1, <2>1, Untouched
  <2> QED
    BY <1>1, <2>1, <2>3, <2>5, <2>6, HolderStep
<1> QED
  BY <1>6, <1>7, <1>8, <1>9 DEF Restore

LEMMA ReleaseKeeps ==
  ASSUME RolesInv, NEW t \in Threads, Release(t) PROVE RolesInv'
<1>1. /\ t \in Callers /\ c[t].pc = "release" /\ c[t].pc \in Locked
      /\ UNCHANGED <<db, jailed, now, owed, starts>>
  BY DEF Release, At, Callers, Locked, db
<1>2. /\ World /\ c \in [Callers -> Caller] /\ c[t] \in Caller /\ Fits(t) /\ now \in Nat
      /\ OwedIsKept /\ JailHasRecord
  BY <1>1, HolderFacts
<1>3. /\ jailed # None /\ (c[t].missed \/ owed \subseteq roles \cup c[t].todo)
      /\ c[t].todo = {}
  BY <1>1, HolderFacts DEF Work
<1>4. OwedIsKept' /\ JailHasRecord'
  BY <1>1, <1>2, <1>3 DEF OwedIsKept, JailHasRecord
<1>5. CASE force' = TRUE /\ Done(t) /\ UNCHANGED <<discord, stray, errors>>
  <2>1. World'
    BY <1>1, <1>2, <1>5 DEF World, discord, db
  <2> QED
    BY <1>1, <1>4, <1>5, <2>1, HolderEnds
<1>6. CASE RemoveRole(JailRole) /\ stray' = FALSE /\ To(t, "erase") /\ UNCHANGED force
  <2>1. World' /\ roles' = roles \ {JailRole}
    BY <1>1, <1>2, <1>6, OwedLess, RemoveRoleFacts
  <2>2. "erase" \in Locked
    BY DEF Locked
  <2>3. /\ c' \in [Callers -> Caller] /\ Others(t) /\ c'[t].pc = "erase" /\ c'[t].op = c[t].op
        /\ c'[t].role = c[t].role /\ c'[t].until = c[t].until /\ c'[t].todo = c[t].todo
        /\ c'[t].missed = c[t].missed
    BY <1>1, <1>2, <1>6, <2>2, ToFacts DEF Others
  <2>4. c[t].missed \/ owed' \subseteq roles'
    <3>1. JailRole \notin owed
      BY <1>2, RolesAssumption DEF World
    <3> QED
      BY <1>1, <1>3, <2>1, <3>1
  <2>5. Fits(t)' /\ Work(t)'
    BY <1>1, <1>2, <1>3, <2>1, <2>3, <2>4 DEF Fits, Work
  <2> QED
    BY <1>1, <1>4, <2>1, <2>3, <2>5, HolderStep
<1>7. CASE CallFails /\ Done(t) /\ Reoffer(t) /\ UNCHANGED stray
  <2>1. force' \in BOOLEAN
    BY <1>2, <1>7 DEF Reoffer, World
  <2>2. World'
    BY <1>1, <1>2, <1>7, <2>1, OwedLess, CallFailsFacts
  <2> QED
    BY <1>1, <1>4, <1>7, <2>2, HolderEnds
<1> QED
  BY <1>5, <1>6, <1>7 DEF Release

LEMMA EraseKeeps ==
  ASSUME RolesInv, NEW t \in Threads, Erase(t) PROVE RolesInv'
<1>1. /\ t \in Callers /\ c[t].pc = "erase" /\ c[t].pc \in Locked /\ Done(t)
      /\ UNCHANGED <<discord, roles, now, stray, starts>>
  BY DEF Erase, At, Callers, Locked, discord
<1>2. /\ World /\ c[t] \in Caller /\ OwedIsKept /\ JailHasRecord
  BY <1>1, HolderFacts
<1>3. /\ c[t].missed \/ owed \subseteq roles \cup c[t].todo
      /\ c[t].todo = {} /\ JailRole \notin roles
  BY <1>1, HolderFacts DEF Work
<1>4. force' \in BOOLEAN
  BY <1>2 DEF Erase, World, Caller
<1>5. CASE /\ jailed' = None /\ UNCHANGED <<temp, left, errors>>
           /\ owed' = IF c[t].missed THEN owed \cap roles ELSE owed
  <2>1. owed' \subseteq roles /\ owed' \subseteq owed
    BY <1>3, <1>5
  <2>2. World'
    BY <1>1, <1>2, <1>4, <1>5, <2>1 DEF World, discord
  <2>3. OwedIsKept' /\ JailHasRecord'
    BY <1>1, <1>3, <1>5, <2>1 DEF OwedIsKept, JailHasRecord
  <2> QED
    BY <1>1, <2>2, <2>3, HolderEnds
<1>6. CASE StoreFails /\ UNCHANGED owed
  <2>1. World' /\ UNCHANGED <<roles, jailed>>
    BY <1>1, <1>2, <1>4, <1>6, OwedLess, StoreFailsFacts
  <2>2. OwedIsKept' /\ JailHasRecord'
    BY <1>1, <1>6, <2>1, Untouched
  <2> QED
    BY <1>1, <2>1, <2>2, HolderEnds
<1> QED
  BY <1>5, <1>6 DEF Erase

(***************************************************************************)
(* Commands and events, which do not hold the lock yet.                    *)
(***************************************************************************)

\* What a caller may be once it has begun.
Begun(t, n) ==
  /\ n \in Caller /\ n.pc \in {"idle", "save", "enter"}
  /\ t \in Threads /\ n.pc = "enter" => n.op \in {"assign", "revoke", "jail", "unjail", "force", "rejoin"}
  /\ n.op \in {"assign", "revoke"} => n.role \in Roles
  /\ t \in Threads => n.until <= 1
  /\ t = Sweeper => n.op \in {"idle", "sweep"} /\ n.until <= now

LEMMA Begins ==
  ASSUME RolesInv, NEW t \in Callers, c[t].pc \notin Locked, NEW n, Begun(t, n), Go(t, n),
         World', UNCHANGED <<now, jailed>>,
         \/ UNCHANGED <<roles, owed, stray>>
         \/ roles' = {} /\ owed' = owed \ roles /\ stray' = FALSE
  PROVE  RolesInv'
<1>1. c \in [Callers -> Caller] /\ n \in Caller /\ n.pc \notin Locked
  BY HolderFacts DEF Begun, Locked
<1>2. c' \in [Callers -> Caller] /\ c'[t] = n /\ Others(t)
  BY <1>1, GoFacts DEF Others
<1>3. Fits(t)'
  BY <1>2 DEF Begun, Fits
<1>4. c'[t].pc \notin Locked
  BY <1>1, <1>2
<1> QED
  BY <1>2, <1>3, <1>4, OtherStep

LEMMA StartsFacts ==
  ASSUME World, NEW t \in Threads, Starts(t)
  PROVE  starts' \in 0..MaxStarts /\ c[t].pc \notin Locked /\ t \in Callers
<1>1. starts' \in 0..MaxStarts
  BY RolesAssumption DEF World, Starts
<1> QED
  BY <1>1, IdleFacts DEF Starts, Locked, Callers

\* A field or two of a resting caller change.
LEMMA BegunFacts ==
  ASSUME NEW t \in Threads
  PROVE  /\ \A r \in Roles, d \in 0..1 :
              Begun(t, [Idle EXCEPT !.op = "assign", !.pc = "enter", !.role = r, !.until = d])
         /\ \A r \in Roles : Begun(t, [Idle EXCEPT !.op = "revoke", !.pc = "enter", !.role = r])
         /\ \A op \in {"jail", "unjail", "force"} : Begun(t, [Idle EXCEPT !.op = op, !.pc = "enter"])
         /\ \A kept \in SUBSET Roles : Begun(t, [Idle EXCEPT !.op = "leave", !.pc = "save", !.kept = kept])
         /\ \A kept \in SUBSET Roles, known \in BOOLEAN :
              Begun(t, [Idle EXCEPT !.op = "rejoin", !.pc = "enter", !.kept = kept, !.missed = known])
         /\ Begun(t, Idle)
<1>1. t # Sweeper /\ \A d \in 0..1 : d \in 0..(MaxTime + 1)
  BY RolesAssumption
<1>2. ASSUME NEW r \in Roles, NEW d \in 0..1
      PROVE  Begun(t, [Idle EXCEPT !.op = "assign", !.pc = "enter", !.role = r, !.until = d])
  <2> DEFINE n == [Idle EXCEPT !.op = "assign", !.pc = "enter", !.role = r, !.until = d]
  <2>1. n \in Caller /\ n.op = "assign" /\ n.pc = "enter" /\ n.role = r /\ n.until = d
    BY <1>1, IdleFacts DEF Caller, Ops
  <2> HIDE DEF n
  <2>2. Begun(t, n)
    BY <1>1, <2>1 DEF Begun
  <2> QED
    BY <2>2 DEF n
<1>3. ASSUME NEW r \in Roles
      PROVE  Begun(t, [Idle EXCEPT !.op = "revoke", !.pc = "enter", !.role = r])
  <2> DEFINE n == [Idle EXCEPT !.op = "revoke", !.pc = "enter", !.role = r]
  <2>1. n \in Caller /\ n.op = "revoke" /\ n.pc = "enter" /\ n.role = r /\ n.until = 0
    BY <1>1, IdleFacts DEF Caller, Ops
  <2> HIDE DEF n
  <2>2. Begun(t, n)
    BY <1>1, <2>1 DEF Begun
  <2> QED
    BY <2>2 DEF n
<1>4. ASSUME NEW op \in {"jail", "unjail", "force"}
      PROVE  Begun(t, [Idle EXCEPT !.op = op, !.pc = "enter"])
  <2> DEFINE n == [Idle EXCEPT !.op = op, !.pc = "enter"]
  <2>1. n \in Caller /\ n.op = op /\ n.pc = "enter" /\ n.until = 0
    BY <1>1, IdleFacts DEF Caller, Ops
  <2> HIDE DEF n
  <2>2. Begun(t, n)
    BY <1>1, <2>1 DEF Begun
  <2> QED
    BY <2>2 DEF n
<1>5. ASSUME NEW kept \in SUBSET Roles
      PROVE  Begun(t, [Idle EXCEPT !.op = "leave", !.pc = "save", !.kept = kept])
  <2> DEFINE n == [Idle EXCEPT !.op = "leave", !.pc = "save", !.kept = kept]
  <2>1. n \in Caller /\ n.op = "leave" /\ n.pc = "save" /\ n.until = 0
    BY <1>1, IdleFacts DEF Caller, Ops
  <2> HIDE DEF n
  <2>2. Begun(t, n)
    BY <1>1, <2>1 DEF Begun
  <2> QED
    BY <2>2 DEF n
<1>6. ASSUME NEW kept \in SUBSET Roles, NEW known \in BOOLEAN
      PROVE  Begun(t, [Idle EXCEPT !.op = "rejoin", !.pc = "enter", !.kept = kept, !.missed = known])
  <2> DEFINE n == [Idle EXCEPT !.op = "rejoin", !.pc = "enter", !.kept = kept, !.missed = known]
  <2>1. n \in Caller /\ n.op = "rejoin" /\ n.pc = "enter" /\ n.until = 0
    BY <1>1, IdleFacts DEF Caller, Ops
  <2> HIDE DEF n
  <2>2. Begun(t, n)
    BY <1>1, <2>1 DEF Begun
  <2> QED
    BY <2>2 DEF n
<1>7. Begun(t, Idle)
  BY <1>1, IdleFacts DEF Begun
<1> QED
  BY <1>2, <1>3, <1>4, <1>5, <1>6, <1>7

LEMMA CommandKeeps ==
  ASSUME RolesInv, NEW t \in Threads,
         \/ StartJail(t) \/ StartUnjail(t)
         \/ \E r \in Roles : StartRevoke(t, r) \/ \E d \in 0..1 : StartAssign(t, r, d)
  PROVE  RolesInv'
<1>1. PICK n : Starts(t) /\ Go(t, n) /\ Begun(t, n) /\ UNCHANGED <<discord, db, now, force, ghosts, errors>>
  <2>1. CASE \E r \in Roles : StartRevoke(t, r)
    BY <2>1, BegunFacts DEF StartRevoke
  <2>2. CASE \E r \in Roles : \E d \in 0..1 : StartAssign(t, r, d)
    BY <2>2, BegunFacts DEF StartAssign
  <2>3. CASE StartJail(t)
    BY <2>3, BegunFacts DEF StartJail
  <2>4. CASE StartUnjail(t)
    BY <2>4, BegunFacts DEF StartUnjail
  <2> QED
    BY <2>1, <2>2, <2>3, <2>4
<1>2. World
  BY TypeParts DEF RolesInv
<1>3. starts' \in 0..MaxStarts /\ c[t].pc \notin Locked /\ t \in Callers
  BY <1>1, <1>2, StartsFacts
<1>4. World' /\ UNCHANGED <<now, jailed, roles, owed, stray>>
  BY <1>1, <1>2, <1>3 DEF World, discord, db, ghosts
<1> QED
  BY <1>1, <1>3, <1>4, Begins

LEMMA StartForceKeeps ==
  ASSUME RolesInv, NEW t \in Threads, StartForce(t) PROVE RolesInv'
<1>1. World
  BY TypeParts DEF RolesInv
<1>2. c[t].pc \notin Locked /\ t \in Callers
  BY IdleFacts DEF StartForce, Locked, Callers
<1>3. World' /\ UNCHANGED <<now, jailed, roles, owed, stray>>
  BY <1>1 DEF StartForce, World, discord, db, ghosts
<1>4. PICK n : Go(t, n) /\ Begun(t, n)
  BY BegunFacts DEF StartForce
<1> QED
  BY <1>2, <1>3, <1>4, Begins

LEMMA LeaveKeeps ==
  ASSUME RolesInv, NEW t \in Threads, Leave(t) PROVE RolesInv'
<1>1. World
  BY TypeParts DEF RolesInv
<1>2. starts' \in 0..MaxStarts /\ c[t].pc \notin Locked /\ t \in Callers
  BY <1>1, StartsFacts DEF Leave
<1>3. World' /\ UNCHANGED <<now, jailed>> /\ roles' = {} /\ owed' = owed \ roles /\ stray' = FALSE
  BY <1>1, <1>2 DEF Leave, World, db
<1>4. cache \ {JailRole} \in SUBSET Roles
  BY <1>1 DEF World
<1>5. PICK n : Go(t, n) /\ Begun(t, n)
  BY <1>4, BegunFacts DEF Leave
<1> QED
  BY <1>2, <1>3, <1>5, Begins

LEMMA SaveLeftKeeps ==
  ASSUME RolesInv, NEW t \in Threads, SaveLeft(t) PROVE RolesInv'
<1>1. t \in Callers /\ c[t].pc \notin Locked
  BY DEF SaveLeft, At, Locked, Callers
<1>2. World /\ c[t] \in Caller
  BY <1>1, HolderFacts
<1>3. UNCHANGED <<discord, now, force, owed, stray, starts>>
  BY DEF SaveLeft, ghosts
<1>4. World' /\ UNCHANGED <<now, jailed, roles, owed, stray>>
  <2>1. CASE left' = c[t].kept /\ UNCHANGED <<jailed, temp, errors>>
    BY <1>2, <1>3, <2>1 DEF World, Caller, discord
  <2>2. CASE StoreFails
    BY <1>2, <1>3, <2>2, OwedLess, StoreFailsFacts
  <2> QED
    BY <2>1, <2>2 DEF SaveLeft
<1> QED
  BY <1>1, <1>4, BegunFacts, Begins DEF SaveLeft

LEMMA RejoinKeeps ==
  ASSUME RolesInv, NEW t \in Threads, Rejoin(t) PROVE RolesInv'
<1>1. World
  BY TypeParts DEF RolesInv
<1>2. c[t].pc \notin Locked /\ t \in Callers
  BY IdleFacts DEF Rejoin, Locked, Callers
<1>3. errors' \in 0..MaxErrors
  BY <1>1, FailsFacts DEF Rejoin, World
<1>4. World' /\ UNCHANGED <<now, jailed, roles, owed, stray>>
  BY <1>1, <1>3 DEF Rejoin, World, db, ghosts
<1>5. PICK n : Go(t, n) /\ Begun(t, n)
  <2>1. PICK known \in BOOLEAN :
          Go(t, [Idle EXCEPT !.op = "rejoin", !.pc = "enter", !.kept = left,
                             !.missed = (known /\ jailed # None)])
    BY DEF Rejoin
  <2>2. left \in SUBSET Roles /\ (known /\ jailed # None) \in BOOLEAN
    BY <1>1 DEF World
  <2>3. \A m \in BOOLEAN :
          Begun(t, [Idle EXCEPT !.op = "rejoin", !.pc = "enter", !.kept = left, !.missed = m])
    BY <2>2, BegunFacts
  <2> QED
    BY <2>1, <2>2, <2>3
<1> QED
  BY <1>2, <1>4, <1>5, Begins

(***************************************************************************)
(* The return of the member.                                               *)
(***************************************************************************)

LEMMA ReturnKeeps ==
  ASSUME RolesInv, NEW t \in Threads, Return(t) PROVE RolesInv'
<1>1. /\ t \in Callers /\ c[t].pc = "return" /\ c[t].pc \in Locked
      /\ UNCHANGED <<db, jailed, now, force, owed, starts>>
  BY DEF Return, At, Callers, Locked, db
<1>2. /\ World /\ c \in [Callers -> Caller] /\ c[t] \in Caller /\ Fits(t) /\ now \in Nat
      /\ OwedIsKept /\ JailHasRecord
  BY <1>1, HolderFacts
<1>3. ASSUME Done(t), AddRole(JailRole), stray' = (stray \/ jailed = None) PROVE RolesInv'
  <2>1. stray' \in BOOLEAN
    BY <1>2, <1>3 DEF World
  <2>2. World' /\ roles' = roles \cup {JailRole}
    BY <1>1, <1>2, <1>3, <2>1, OwedLess, AddRoleFacts
  <2>3. OwedIsKept' /\ JailHasRecord'
    BY <1>1, <1>2, <1>3, <2>2 DEF OwedIsKept, JailHasRecord
  <2> QED
    BY <1>1, <1>3, <2>2, <2>3, HolderEnds
<1>4. ASSUME Done(t), CallFails, UNCHANGED stray PROVE RolesInv'
  <2>1. World' /\ UNCHANGED roles
    BY <1>1, <1>2, <1>4, OwedLess, CallFailsFacts
  <2>2. OwedIsKept' /\ JailHasRecord'
    BY <1>1, <1>4, <2>1, Untouched
  <2> QED
    BY <1>1, <1>4, <2>1, <2>2, HolderEnds
<1>5. ASSUME NEW soon \in {Active, {}}, ReadActive(soon),
             Go(t, [c[t] EXCEPT !.pc = "grant", !.todo = c[t].kept \cup soon]), UNCHANGED <<discord, stray>>
      PROVE  RolesInv'
  <2> DEFINE n == [c[t] EXCEPT !.pc = "grant", !.todo = c[t].kept \cup soon]
  <2>1. errors' \in 0..MaxErrors
    BY <1>2, <1>5, FailsFacts DEF ReadActive, World
  <2>2. World' /\ UNCHANGED roles
    BY <1>1, <1>2, <1>5, <2>1 DEF World, discord, db
  <2>3. c[t].kept \cup soon \in SUBSET Roles
    BY <1>2 DEF Caller, Active
  <2>4. n \in Caller /\ n.pc = "grant" /\ n.op = c[t].op /\ n.role = c[t].role /\ n.until = c[t].until
    BY <1>2, <2>3 DEF Caller, Locked
  <2>5. Go(t, n)
    BY <1>5
  <2> HIDE DEF n
  <2>6. c' \in [Callers -> Caller] /\ c'[t] = n /\ Others(t)
    BY <1>1, <1>2, <2>4, <2>5, GoFacts DEF Others
  <2>7. Fits(t)' /\ Work(t)'
    BY <1>1, <1>2, <2>4, <2>6 DEF Fits, Work
  <2>8. OwedIsKept' /\ JailHasRecord'
    BY <1>1, <1>5, <2>2, Untouched
  <2> QED
    BY <1>1, <2>2, <2>6, <2>7, <2>8, HolderStep
<1> QED
  BY <1>3, <1>4, <1>5 DEF Return

LEMMA GrantKeeps ==
  ASSUME RolesInv, NEW t \in Threads, Grant(t) PROVE RolesInv'
<1>1. /\ t \in Callers /\ c[t].pc = "grant" /\ c[t].pc \in Locked
      /\ UNCHANGED <<db, jailed, now, force, owed, stray, starts>>
  BY DEF Grant, At, Callers, Locked, db, ghosts
<1>2. World /\ c \in [Callers -> Caller] /\ c[t] \in Caller /\ Fits(t) /\ now \in Nat
  BY <1>1, HolderFacts
<1>3. ASSUME NEW r \in c[t].todo, AddRole(r) \/ CallFails, Go(t, [c[t] EXCEPT !.todo = @ \ {r}])
      PROVE  RolesInv'
  <2> DEFINE n == [c[t] EXCEPT !.todo = @ \ {r}]
  <2>1. c[t].todo \in SUBSET Roles
    BY <1>2 DEF Caller
  <2>2. World' /\ OwedIsKept' /\ JailHasRecord'
    <3>1. CASE AddRole(r)
      BY <1>1, <1>2, <2>1, <3>1, OwedLess, AddRoleFacts, Given
    <3>2. CASE CallFails
      BY <1>1, <1>2, <3>2, OwedLess, CallFailsFacts, Untouched
    <3> QED
      BY <1>3, <3>1, <3>2
  <2>3. n \in Caller /\ n.pc = "grant" /\ n.op = c[t].op /\ n.role = c[t].role /\ n.until = c[t].until
    BY <1>1, <1>2, <2>1 DEF Caller
  <2>4. Go(t, n)
    BY <1>3
  <2> HIDE DEF n
  <2>5. c' \in [Callers -> Caller] /\ c'[t] = n /\ Others(t)
    BY <1>1, <1>2, <2>3, <2>4, GoFacts DEF Others
  <2>6. Fits(t)' /\ Work(t)'
    BY <1>1, <1>2, <2>3, <2>5 DEF Fits, Work
  <2> QED
    BY <1>1, <2>2, <2>5, <2>6, HolderStep
<1>4. ASSUME Done(t), UNCHANGED <<discord, errors>> PROVE RolesInv'
  <2>1. World' /\ UNCHANGED roles
    BY <1>1, <1>2, <1>4 DEF World, discord, db
  <2>2. OwedIsKept' /\ JailHasRecord'
    BY <1>1, <2>1, Untouched
  <2> QED
    BY <1>1, <1>4, <2>1, <2>2, HolderEnds
<1> QED
  BY <1>3, <1>4 DEF Grant

(***************************************************************************)
(* The lock and the sweeper.                                               *)
(***************************************************************************)

\* The first step of an operation has nothing to rest on.
LEMMA EnterKeeps ==
  ASSUME RolesInv, NEW t \in Callers, Enter(t) PROVE RolesInv'
<1>1. /\ c[t].pc = "enter" /\ UNCHANGED <<discord, db, roles, jailed, now, force, owed, stray, errors, starts>>
      /\ \A u \in Callers : c[u].pc \notin Locked
  BY DEF Enter, At, Free, discord, db, ghosts
<1>2. World /\ c \in [Callers -> Caller] /\ c[t] \in Caller /\ Fits(t) /\ now \in Nat
  BY HolderFacts
<1>3. World' /\ OwedIsKept' /\ JailHasRecord'
  BY <1>1, <1>2, Untouched DEF World, discord, db
<1>4. c' \in [Callers -> Caller] /\ Others(t) /\ Fits(t)' /\ Work(t)'
  <2>1. CASE t # Sweeper
    <3>1. t \in Threads /\ c[t].op \in {"assign", "revoke", "jail", "unjail", "force", "rejoin"}
      BY <1>1, <1>2, <2>1 DEF Callers, Fits
    <3>2. /\ FirstStep(c[t].op) \in {"add", "remove", "snapshot", "look", "return"}
          /\ FirstStep(c[t].op) = "add" => c[t].op = "assign"
          /\ FirstStep(c[t].op) = "remove" => c[t].op = "revoke"
      BY <3>1 DEF FirstStep
    <3> DEFINE pc == FirstStep(c[t].op)
    <3>3. To(t, pc)
      BY <2>1 DEF Enter
    <3>4. pc \in Locked
      BY <3>2 DEF Locked
    <3>5. PICK first \in Locked : first = pc
      BY <3>4
    <3>6. /\ c' \in [Callers -> Caller] /\ Others(t) /\ c'[t].pc = first /\ c'[t].op = c[t].op
          /\ c'[t].role = c[t].role /\ c'[t].until = c[t].until
      BY <1>2, <3>3, <3>5, ToFacts DEF Others
    <3> HIDE DEF pc
    <3>7. Fits(t)' /\ Work(t)'
      <4>1. first \in {"add", "remove", "snapshot", "look", "return"}
        BY <3>2, <3>5 DEF pc
      <4>2. (first = "add" => c[t].op = "assign") /\ (first = "remove" => c[t].op = "revoke")
        BY <3>2, <3>5 DEF pc
      <4> QED
        BY <1>1, <1>2, <3>6, <4>1, <4>2 DEF Fits, Work
    <3> QED
      BY <3>6, <3>7
  <2>2. CASE t = Sweeper
    <3>1. PICK r \in c[t].todo : Go(t, [c[t] EXCEPT !.pc = "claim", !.role = r, !.todo = @ \ {r}])
      BY <2>2 DEF Enter
    <3> DEFINE n == [c[t] EXCEPT !.pc = "claim", !.role = r, !.todo = @ \ {r}]
    <3>2. c[t].todo \in SUBSET Roles
      BY <1>2 DEF Caller
    <3>3. n \in Caller /\ n.pc = "claim" /\ n.op = c[t].op /\ n.role = r /\ n.until = c[t].until
      BY <1>2, <3>2 DEF Caller, Locked
    <3>4. Go(t, n)
      BY <3>1
    <3> HIDE DEF n
    <3>5. c' \in [Callers -> Caller] /\ c'[t] = n /\ Others(t)
      BY <1>2, <3>3, <3>4, GoFacts DEF Others
    <3>6. Fits(t)' /\ Work(t)'
      BY <1>1, <1>2, <2>2, <3>2, <3>3, <3>5, RolesAssumption DEF Fits, Work
    <3> QED
      BY <3>5, <3>6
  <2> QED
    BY <2>1, <2>2
<1>5. TypeOK'
  BY <1>3, <1>4, TypePartsNext
<1>6. OneHolder'
  <2> SUFFICES ASSUME NEW u \in Callers', NEW v \in Callers', c'[u].pc \in Locked, c'[v].pc \in Locked
               PROVE  u = v
    BY DEF OneHolder, Locked, Callers
  <2> QED
    BY <1>1, <1>4 DEF Others, Callers
<1>7. ASSUME NEW u \in Callers PROVE Fits(u)' /\ Work(u)'
  <2>1. CASE u = t
    BY <1>4, <2>1
  <2>2. CASE u # t
    <3>1. c'[u] = c[u] /\ c[u].pc \notin Locked /\ Fits(u)
      BY <1>1, <1>4, <2>2 DEF RolesInv, Others
    <3>2. Fits(u)'
      BY <1>1, <3>1 DEF Fits
    <3>3. Work(u)'
      BY <3>1 DEF Work, Locked
    <3> QED
      BY <3>2, <3>3
  <2> QED
    BY <2>1, <2>2
<1> QED
  BY <1>3, <1>5, <1>6, <1>7 DEF RolesInv, Callers

LEMMA StartSweepKeeps ==
  ASSUME RolesInv, StartSweep PROVE RolesInv'
<1> DEFINE due == {r \in Roles : Expired(r)}
           n == [Idle EXCEPT !.op = "sweep", !.pc = "enter", !.until = now, !.todo = due]
<1>1. Sweeper \in Callers /\ Sweeper \notin Threads /\ c[Sweeper].pc \notin Locked
  BY IdleFacts, RolesAssumption DEF StartSweep, Callers, Locked
<1>2. World /\ now \in Nat
  BY <1>1, HolderFacts
<1>3. World' /\ UNCHANGED <<now, jailed, roles, owed, stray>>
  BY <1>2 DEF StartSweep, World, discord, db, ghosts
<1>4. now \in 0..(MaxTime + 1) /\ now <= now
  BY <1>2, RolesAssumption DEF World
<1>5. n \in Caller /\ n.pc = "enter" /\ n.op = "sweep" /\ n.until = now
  <2>1. due \in SUBSET Roles
    OBVIOUS
  <2> HIDE DEF due
  <2> QED
    BY <1>4, <2>1, IdleFacts DEF Caller, Ops
<1>6. Go(Sweeper, n)
  BY DEF StartSweep
<1> HIDE DEF n
<1>7. Begun(Sweeper, n)
  BY <1>1, <1>4, <1>5 DEF Begun
<1> QED
  BY <1>1, <1>3, <1>6, <1>7, Begins

LEMMA ClaimKeeps ==
  ASSUME RolesInv, Claim PROVE RolesInv'
<1> DEFINE r == c[Sweeper].role
<1>1. /\ Sweeper \in Callers /\ c[Sweeper].pc = "claim" /\ c[Sweeper].pc \in Locked
      /\ UNCHANGED <<discord, roles, now, force, owed, stray, starts>>
  BY DEF Claim, At, Callers, Locked, discord, ghosts
<1>2. World /\ c \in [Callers -> Caller] /\ c[Sweeper] \in Caller /\ Fits(Sweeper) /\ now \in Nat
  BY <1>1, HolderFacts
<1>3. ASSUME temp' = [temp EXCEPT ![r] = 0], To(Sweeper, "take"), UNCHANGED <<jailed, left, errors>>
      PROVE  RolesInv'
  <2>1. 0 \in 0..(MaxTime + 1)
    BY RolesAssumption
  <2>2. temp' \in [Roles -> 0..(MaxTime + 1)]
    BY <1>2, <1>3, <2>1 DEF World
  <2>3. World'
    BY <1>1, <1>2, <1>3, <2>2 DEF World, discord
  <2>4. "take" \in Locked
    BY DEF Locked
  <2>5. /\ c' \in [Callers -> Caller] /\ Others(Sweeper) /\ c'[Sweeper].pc = "take"
        /\ c'[Sweeper].op = c[Sweeper].op /\ c'[Sweeper].role = c[Sweeper].role
        /\ c'[Sweeper].until = c[Sweeper].until
    BY <1>1, <1>2, <1>3, <2>4, ToFacts DEF Others
  <2>6. Fits(Sweeper)' /\ Work(Sweeper)'
    BY <1>1, <1>2, <2>5 DEF Fits, Work
  <2>7. OwedIsKept' /\ JailHasRecord'
    BY <1>1, <1>3, Untouched
  <2> QED
    BY <1>1, <2>3, <2>5, <2>6, <2>7, HolderStep
<1>4. ASSUME Done(Sweeper), UNCHANGED <<db, errors>> PROVE RolesInv'
  <2>1. World' /\ UNCHANGED jailed
    BY <1>1, <1>2, <1>4 DEF World, discord, db
  <2> QED
    BY <1>1, <1>4, <2>1, Untouched, HolderEnds
<1>5. ASSUME Done(Sweeper), StoreFails PROVE RolesInv'
  <2>1. World' /\ UNCHANGED <<roles, jailed>>
    BY <1>1, <1>2, <1>5, OwedLess, StoreFailsFacts
  <2> QED
    BY <1>1, <1>5, <2>1, Untouched, HolderEnds
<1> QED
  BY <1>3, <1>4, <1>5 DEF Claim

LEMMA TakeKeeps ==
  ASSUME RolesInv, Take PROVE RolesInv'
<1>1. /\ Sweeper \in Callers /\ c[Sweeper].pc = "take" /\ c[Sweeper].pc \in Locked /\ Done(Sweeper)
      /\ UNCHANGED <<db, jailed, now, force, stray, starts>>
  BY DEF Take, At, Callers, Locked, db
<1>2. World /\ Fits(Sweeper)
  BY <1>1, HolderFacts
<1>3. c[Sweeper].role \in Roles
  BY <1>1, <1>2 DEF Fits
<1>4. World' /\ OwedIsKept' /\ JailHasRecord'
  <2>1. CASE RemoveRole(c[Sweeper].role) /\ owed' = owed \ {c[Sweeper].role}
    BY <1>1, <1>2, <1>3, <2>1, OwedLess, RemoveRoleFacts, Taken
  <2>2. CASE CallFails /\ UNCHANGED owed
    BY <1>1, <1>2, <2>2, OwedLess, CallFailsFacts, Untouched
  <2> QED
    BY <2>1, <2>2 DEF Take
<1> QED
  BY <1>1, <1>4, HolderEnds

(***************************************************************************)
(* The world.                                                              *)
(***************************************************************************)

\* Nobody acts, and time does not run backwards.
LEMMA WorldStep ==
  ASSUME RolesInv, UNCHANGED <<c, roles, jailed, owed, stray>>, World', now <= now'
  PROVE  RolesInv'
<1>1. TypeOK'
  BY TypePartsNext DEF RolesInv, TypeOK, Caller
<1>2. now \in Nat /\ now' \in Nat
  BY TypeParts, RolesAssumption DEF RolesInv, World
<1>3. OneHolder' /\ OwedIsKept' /\ JailHasRecord'
  BY DEF RolesInv, OneHolder, OwedIsKept, JailHasRecord, Callers
<1>4. ASSUME NEW u \in Callers PROVE Fits(u)' /\ Work(u)'
  <2>1. c \in [Callers -> Caller] /\ c[u] \in Caller /\ Fits(u) /\ Work(u)
    BY HolderFacts
  <2>2. c[u].until \in 0..(MaxTime + 1)
    BY <2>1 DEF Caller
  <2>3. c[u].until <= now => c[u].until <= now'
    BY <1>2, <2>2, RolesAssumption
  <2>4. Fits(u)'
    BY <2>1, <2>3 DEF Fits
  <2>5. Work(u)'
    BY <2>1 DEF Work
  <2> QED
    BY <2>4, <2>5
<1> QED
  BY <1>1, <1>3, <1>4 DEF RolesInv, Callers

LEMMA GatewayKeeps ==
  ASSUME RolesInv, Gateway PROVE RolesInv'
<1>1. World /\ now \in Nat
  BY TypeParts, RolesAssumption DEF RolesInv, World
<1>2. World' /\ UNCHANGED <<c, roles, jailed, owed, stray>> /\ now <= now'
  BY <1>1 DEF Gateway, World, db, ghosts
<1> QED
  BY <1>2, WorldStep

LEMMA TickKeeps ==
  ASSUME RolesInv, Tick PROVE RolesInv'
<1>1. World /\ now \in Nat
  BY TypeParts, RolesAssumption DEF RolesInv, World
<1>2. now' \in 0..MaxTime /\ now <= now'
  BY <1>1, RolesAssumption DEF Tick, World
<1>3. World' /\ UNCHANGED <<c, roles, jailed, owed, stray>>
  BY <1>1, <1>2 DEF Tick, World, discord, db, ghosts
<1> QED
  BY <1>2, <1>3, WorldStep

\* A crash between two steps leaves only the row and the member behind.
LEMMA CrashKeeps ==
  ASSUME RolesInv, Crash PROVE RolesInv'
<1>1. World /\ now \in Nat
  BY TypeParts, RolesAssumption DEF RolesInv, World
<1>2. errors' \in 0..MaxErrors /\ UNCHANGED <<roles, jailed, owed, stray, now>>
  BY <1>1, FailsFacts DEF Crash, db, ghosts
<1>3. World'
  BY <1>1, <1>2 DEF Crash, World, db, ghosts
<1>4. c' \in [Callers -> Caller] /\ \A u \in Callers : c'[u] = Idle
  BY IdleFacts DEF Crash
<1>5. TypeOK'
  BY <1>3, <1>4, TypePartsNext
<1>6. ASSUME NEW u \in Callers PROVE Fits(u)' /\ Work(u)' /\ c'[u].pc \notin Locked
  <2>1. c'[u] = Idle
    BY <1>4
  <2>2. Fits(u)'
    BY <1>1, <1>2, <2>1, IdleFacts DEF Fits
  <2>3. Work(u)' /\ c'[u].pc \notin Locked
    BY <2>1, IdleFacts DEF Work, Locked
  <2> QED
    BY <2>2, <2>3
<1>7. OneHolder'
  BY <1>6 DEF OneHolder, Callers, Locked
<1>8. OwedIsKept' /\ JailHasRecord'
  BY <1>2, Untouched
<1> QED
  BY <1>5, <1>6, <1>7, <1>8 DEF RolesInv, Callers

(***************************************************************************)
(* The theorems.                                                           *)
(***************************************************************************)

LEMMA RolesInit == Init => RolesInv
<1> SUFFICES ASSUME Init PROVE RolesInv
  OBVIOUS
<1>1. World
  <2>1. \A i \in 0..MaxTime : i \in 0..(MaxTime + 1)
    BY RolesAssumption
  <2>2. temp \in [Roles -> 0..(MaxTime + 1)]
    BY <2>1 DEF Init
  <2>3. 0 \in 0..MaxTime /\ 0 \in 0..MaxStarts /\ 0 \in 0..MaxErrors
    BY RolesAssumption
  <2> QED
    BY <2>2, <2>3 DEF Init, World
<1>2. c \in [Callers -> Caller] /\ \A u \in Callers : c[u] = Idle
  BY IdleFacts DEF Init
<1>3. TypeOK
  BY <1>1, <1>2, TypeParts
<1>4. ASSUME NEW u \in Callers PROVE Fits(u) /\ Work(u) /\ c[u].pc \notin Locked
  <2>1. Fits(u)
    BY <1>2, IdleFacts DEF Fits, Init
  <2>2. Work(u) /\ c[u].pc \notin Locked
    BY <1>2, IdleFacts DEF Work, Locked
  <2> QED
    BY <2>1, <2>2
<1>5. OneHolder
  BY <1>4 DEF OneHolder
<1>6. OwedIsKept /\ JailHasRecord
  BY RolesAssumption DEF Init, OwedIsKept, JailHasRecord
<1> QED
  BY <1>3, <1>4, <1>5, <1>6 DEF RolesInv

LEMMA RolesStep == RolesInv /\ [Next]_vars => RolesInv'
<1> SUFFICES ASSUME RolesInv, [Next]_vars PROVE RolesInv'
  OBVIOUS
<1>1. ASSUME NEW t \in Threads,
             \/ ThreadStep(t) \/ StartJail(t) \/ StartUnjail(t) \/ StartForce(t) \/ Leave(t) \/ Rejoin(t)
             \/ \E r \in Roles : StartRevoke(t, r) \/ \E d \in 0..1 : StartAssign(t, r, d)
      PROVE  RolesInv'
  <2>1. CASE ThreadStep(t)
    BY <2>1, GiveKeeps, SaveTempKeeps, UndoGiveKeeps, RevokeKeeps, ForgetTempKeeps, SnapshotKeeps,
       RecordKeeps, StripKeeps, ImprisonKeeps, RollBackKeeps, LookKeeps, RestoreKeeps, ReleaseKeeps,
       EraseKeeps, SaveLeftKeeps, ReturnKeeps, GrantKeeps DEF ThreadStep
  <2>2. CASE \/ StartJail(t) \/ StartUnjail(t)
             \/ \E r \in Roles : StartRevoke(t, r) \/ \E d \in 0..1 : StartAssign(t, r, d)
    BY <2>2, CommandKeeps
  <2>3. CASE StartForce(t) \/ Leave(t) \/ Rejoin(t)
    BY <2>3, StartForceKeeps, LeaveKeeps, RejoinKeeps
  <2> QED
    BY <1>1, <2>1, <2>2, <2>3
<1>2. CASE \E t \in Callers : Enter(t)
  BY <1>2, EnterKeeps
<1>3. CASE SweepStep
  BY <1>3, StartSweepKeeps, ClaimKeeps, TakeKeeps DEF SweepStep
<1>4. CASE Gateway \/ Tick \/ Crash
  BY <1>4, GatewayKeeps, TickKeeps, CrashKeeps
<1>5. CASE UNCHANGED vars
  <2>1. World /\ now \in Nat
    BY TypeParts, RolesAssumption DEF RolesInv, World
  <2>2. World' /\ UNCHANGED <<c, roles, jailed, owed, stray>> /\ now <= now'
    BY <1>5, <2>1 DEF vars, World, discord, db, ghosts
  <2> QED
    BY <2>2, WorldStep
<1> QED
  BY <1>1, <1>2, <1>3, <1>4, <1>5 DEF Next

\* RolesInv holds of every reachable state (internal/roles/manager.go).
THEOREM RolesInvAlways == Spec => []RolesInv
BY RolesInit, RolesStep, PTL DEF Spec

\* Every variable keeps its type; a member who is away has no roles.
THEOREM TypeCorrect == Spec => []TypeOK
<1>1. RolesInv => TypeOK
  BY DEF RolesInv
<1> QED
  BY <1>1, RolesInvAlways, PTL

\* What the jail took is on the member or in its row, and the jail role comes with
\* a row, whatever fails and whenever the bot dies (manager.go:153-325).
THEOREM JailIsRecordedAlways == Spec => []JailIsRecorded
<1>1. RolesInv => JailIsRecorded
  BY DEF RolesInv, OwedIsKept, JailIsRecorded, JailKeepsRoles
<1> QED
  BY <1>1, RolesInvAlways, PTL

\* Only a revocation deletes a row that has not expired: the sweeper's list is
\* never younger than its claim (manager.go:86-123, 372-416).
LEMMA RowGoes ==
  ASSUME RolesInv, [Next]_vars, NEW r \in Roles, temp[r] > now, temp'[r] = 0
  PROVE  \E t \in Threads : c[t].op = "revoke" /\ c[t].role = r
<1>1. World /\ now \in Nat /\ temp \in [Roles -> 0..(MaxTime + 1)] /\ temp'[r] # temp[r]
  <2>1. World /\ now \in Nat /\ temp \in [Roles -> 0..(MaxTime + 1)]
    BY TypeParts, RolesAssumption DEF RolesInv, World
  <2> QED
    BY <2>1
<1>2. ASSUME NEW t \in Threads, SaveTemp(t) PROVE FALSE
  <2>1. t \in Callers /\ c[t].pc = "saveTemp"
    BY <1>2 DEF SaveTemp, At, Callers
  <2>2. Fits(t) /\ c[t] \in Caller
    BY <2>1, HolderFacts
  <2>3. c[t].until > 0 /\ c[t].until \in 0..(MaxTime + 1)
    BY <2>1, <2>2 DEF Fits, Caller
  <2>4. temp' = [temp EXCEPT ![c[t].role] = now + c[t].until]
    BY <1>1, <1>2 DEF SaveTemp, StoreFails, db
  <2>5. temp'[r] = now + c[t].until
    BY <1>1, <2>4
  <2> QED
    BY <1>1, <2>3, <2>5, RolesAssumption
<1>3. ASSUME NEW t \in Threads, ForgetTemp(t) PROVE c[t].op = "revoke" /\ c[t].role = r
  <2>1. t \in Callers /\ c[t].pc = "forget"
    BY <1>3 DEF ForgetTemp, At, Callers
  <2>2. c[t].op = "revoke"
    BY <2>1, HolderFacts DEF Fits
  <2>3. temp' = [temp EXCEPT ![c[t].role] = 0]
    BY <1>1, <1>3 DEF ForgetTemp, StoreFails, db
  <2> QED
    BY <1>1, <2>2, <2>3
<1>4. ASSUME Claim PROVE FALSE
  <2>1. Sweeper \in Callers /\ Fits(Sweeper) /\ c[Sweeper] \in Caller
    BY HolderFacts DEF Callers
  <2>2. c[Sweeper].until <= now /\ c[Sweeper].until \in 0..(MaxTime + 1)
    BY <2>1 DEF Fits, Caller
  <2>3. /\ temp[c[Sweeper].role] <= c[Sweeper].until
        /\ temp' = [temp EXCEPT ![c[Sweeper].role] = 0]
    BY <1>1, <1>4 DEF Claim, StoreFails, db
  <2>4. r = c[Sweeper].role
    BY <1>1, <2>3
  <2>5. temp[r] \in 0..(MaxTime + 1) /\ temp[r] <= c[Sweeper].until
    BY <1>1, <2>3, <2>4
  <2> QED
    BY <1>1, <2>2, <2>5, RolesAssumption
<1>5. ASSUME NEW t \in Threads, ThreadStep(t), ~SaveTemp(t), ~ForgetTemp(t) PROVE FALSE
  <2>1. UNCHANGED temp
    BY <1>5 DEF ThreadStep, Give, UndoGive, Revoke, Snapshot, Record, Strip, Imprison, RollBack, Look,
       Restore, Release, Erase, SaveLeft, Return, Grant, StoreFails, db
  <2> QED
    BY <1>1, <2>1
<1>6. ASSUME NEW t \in Threads,
             \/ StartJail(t) \/ StartUnjail(t) \/ StartForce(t) \/ Leave(t) \/ Rejoin(t)
             \/ \E q \in Roles : StartRevoke(t, q) \/ \E d \in 0..1 : StartAssign(t, q, d)
      PROVE  FALSE
  <2>1. UNCHANGED temp
    BY <1>6 DEF StartJail, StartUnjail, StartForce, Leave, Rejoin, StartRevoke, StartAssign, db
  <2> QED
    BY <1>1, <2>1
<1>7. ASSUME \/ \E t \in Callers : Enter(t)
             \/ StartSweep \/ Take \/ Gateway \/ Tick \/ Crash \/ UNCHANGED vars
      PROVE  FALSE
  <2>1. UNCHANGED temp
    BY <1>7 DEF Enter, StartSweep, Take, Gateway, Tick, Crash, vars, db
  <2> QED
    BY <1>1, <2>1
<1> QED
  BY <1>2, <1>3, <1>4, <1>5, <1>6, <1>7 DEF Next, SweepStep

\* A temporary role that was given again keeps its row until it expires or is revoked.
THEOREM ExtendedRowStaysAlways == Spec => ExtendedRowStays
<1>1. RolesInv /\ [Next]_vars
        => [\A r \in Roles : temp[r] > now /\ temp'[r] = 0
              => \E t \in Threads : c[t].op = "revoke" /\ c[t].role = r]_vars
  BY RowGoes
<1> QED
  BY <1>1, RolesInvAlways, PTL DEF Spec, ExtendedRowStays
=============================================================================
