--------------------------- MODULE ServicesProofs ---------------------------
(***************************************************************************)
(* Proofs about the services of a guild.  Giveaway, for any members,       *)
(* winners count, handlers and number of restarts: it ends once, a reroll  *)
(* is recorded and what is final stays.  RoleLocks, for any members and    *)
(* finitely many threads: the map keeps exactly the members that are in    *)
(* use, and the locks implement one mutex per member.  The others are      *)
(* instances, each with its own specification, and a theorem is about one  *)
(* of them: a locked nickname holds, a lockdown is remembered, a cooldown  *)
(* and a penalty hold, a case stands for one punishment, a level follows   *)
(* from its experience.                                                    *)
(***************************************************************************)
EXTENDS Giveaway, MCServices, FiniteSetTheorems, SequenceTheorems, TLAPS

-----------------------------------------------------------------------------
(* What starting and moving a handler does.                                *)

Pcs == {"done", "publish", "rollback", "schedule", "insert", "delete", "read",
        "finalize", "announce", "stop", "lock", "write"}
Ops == {"idle", "create", "join", "leave", "end", "cancel", "reroll"}

LEMMA BecomesWhat ==
    ASSUME NEW h \in Handlers, NEW t \in Tasks, handler \in [Handlers -> Tasks],
           Becomes(h, t)
    PROVE  /\ handler' \in [Handlers -> Tasks]
           /\ handler'[h] = t
           /\ \A g \in Handlers \ {h} : handler'[g] = handler[g]
BY DEF Becomes

LEMMA MovesWhere ==
    ASSUME NEW h \in Handlers, NEW pc \in Pcs, handler \in [Handlers -> Tasks],
           Moves(h, pc)
    PROVE  /\ handler' \in [Handlers -> Tasks]
           /\ handler'[h].op = handler[h].op /\ handler'[h].pc = pc
           /\ handler'[h].winners = handler[h].winners
           /\ handler'[h].user = handler[h].user
           /\ \A g \in Handlers \ {h} : handler'[g] = handler[g]
<1>1. DEFINE t == [handler[h] EXCEPT !.pc = pc]
<1>2. t \in Tasks /\ t.op = handler[h].op /\ t.pc = pc
      /\ t.winners = handler[h].winners /\ t.user = handler[h].user
  BY DEF Tasks, Pcs
<1>3. handler' = [handler EXCEPT ![h] = t]
  BY DEF Moves
<1> QED
  BY <1>2, <1>3

LEMMA DrawsWhat ==
    ASSUME NEW h \in Handlers, NEW pc \in Pcs, NEW drawn \in SUBSET Users,
           handler \in [Handlers -> Tasks], Draws(h, drawn, pc)
    PROVE  /\ handler' \in [Handlers -> Tasks]
           /\ handler'[h].op = handler[h].op /\ handler'[h].pc = pc
           /\ handler'[h].winners = drawn
           /\ \A g \in Handlers \ {h} : handler'[g] = handler[g]
<1>1. DEFINE t == [handler[h] EXCEPT !.pc = pc, !.winners = drawn]
<1>2. t \in Tasks /\ t.op = handler[h].op /\ t.pc = pc /\ t.winners = drawn
  BY DEF Tasks, Pcs
<1>3. handler' = [handler EXCEPT ![h] = t]
  BY DEF Draws
<1> QED
  BY <1>2, <1>3

LEMMA IdleIsTask == Idle \in Tasks /\ Idle.op = "idle"
BY DEF Idle, Task, Started, Tasks

LEMMA AutoEndIsTask == AutoEnd \in Tasks /\ AutoEnd.op = "end" /\ AutoEnd.pc = "read"
BY DEF AutoEnd, Started, Tasks

LEMMA TaskIsTask ==
    ASSUME NEW op \in Ops, NEW pc \in Pcs
    PROVE  Task(op, pc) \in Tasks /\ Task(op, pc).op = op /\ Task(op, pc).pc = pc
BY DEF Task, Started, Tasks, Ops, Pcs

LEMMA EntryIsTask ==
    ASSUME NEW op \in Ops, NEW pc \in Pcs, NEW u \in Users
    PROVE  /\ Entry(op, pc, u) \in Tasks
           /\ Entry(op, pc, u).op = op /\ Entry(op, pc, u).pc = pc
           /\ Entry(op, pc, u).user = u
BY DEF Entry, Started, Tasks, Ops, Pcs

LEMMA EndsIdle ==
    ASSUME NEW h \in Handlers, handler \in [Handlers -> Tasks], Ends(h)
    PROVE  /\ handler' \in [Handlers -> Tasks]
           /\ handler'[h].op = "idle"
           /\ \A g \in Handlers \ {h} : handler'[g] = handler[g]
BY IdleIsTask, BecomesWhat DEF Ends

-----------------------------------------------------------------------------
(* Types.                                                                  *)

\* An entry about to be inserted is that of a member.
JoinsAreOfUsers ==
    \A h \in Handlers : At(h, "join", "insert") => handler[h].user \in Users

TypeInv == TypeOK /\ JoinsAreOfUsers

LEMMA TypeInit == Init => TypeInv
<1> SUFFICES ASSUME Init PROVE TypeInv
  OBVIOUS
<1>1. handler \in [Handlers -> Tasks] /\ \A h \in Handlers : handler[h].op = "idle"
  BY IdleIsTask DEF Init
<1> QED
  BY <1>1 DEF Init, TypeInv, TypeOK, JoinsAreOfUsers, At, NoReroll

LEMMA TypeStep == TypeInv /\ [Next]_vars => TypeInv'
<1> SUFFICES ASSUME TypeInv, [Next]_vars PROVE TypeInv'
  OBVIOUS
<1> USE DEF TypeInv, TypeOK, JoinsAreOfUsers, At, Arrives, row, world, scheduler, ghosts,
            Fails, Succeeds, Stopped, Ops, Pcs
<1>1. ASSUME NEW h \in Handlers, CreateInserts(h) PROVE TypeInv'
  BY <1>1, TaskIsTask, BecomesWhat DEF CreateInserts
<1>2. ASSUME NEW h \in Handlers, NEW u \in Users, JoinReads(h, u) PROVE TypeInv'
  <2>1. /\ handler' \in [Handlers -> Tasks] /\ handler'[h].user = u
        /\ \A g \in Handlers \ {h} : handler'[g] = handler[g]
    BY <1>2, EntryIsTask, BecomesWhat DEF JoinReads
  <2>2. TypeOK'
    BY <1>2, <2>1 DEF JoinReads
  <2>3. JoinsAreOfUsers'
    BY <2>1
  <2> QED
    BY <2>2, <2>3
<1>3. ASSUME NEW h \in Handlers, NEW u \in Users, LeaveReads(h, u) PROVE TypeInv'
  BY <1>3, EntryIsTask, BecomesWhat DEF LeaveReads
<1>4. ASSUME NEW h \in Handlers, EndArrives(h) PROVE TypeInv'
  BY <1>4, TaskIsTask, BecomesWhat DEF EndArrives
<1>5. ASSUME NEW h \in Handlers, CancelReads(h) PROVE TypeInv'
  BY <1>5, TaskIsTask, BecomesWhat DEF CancelReads
<1>6. ASSUME NEW h \in Handlers, RerollArrives(h) PROVE TypeInv'
  BY <1>6, TaskIsTask, BecomesWhat DEF RerollArrives
<1>7. ASSUME NEW h \in Handlers, CreatePublishes(h) PROVE TypeInv'
  BY <1>7, MovesWhere DEF CreatePublishes
<1>8. ASSUME NEW h \in Handlers, CreateRollsBack(h) PROVE TypeInv'
  BY <1>8, EndsIdle DEF CreateRollsBack
<1>9. ASSUME NEW h \in Handlers, CreateSchedules(h) PROVE TypeInv'
  BY <1>9, EndsIdle, AutoEndIsTask, BecomesWhat DEF CreateSchedules
<1>10. ASSUME NEW h \in Handlers, JoinInserts(h) PROVE TypeInv'
  BY <1>10, EndsIdle DEF JoinInserts
<1>11. ASSUME NEW h \in Handlers, LeaveDeletes(h) PROVE TypeInv'
  BY <1>11, EndsIdle DEF LeaveDeletes
<1>12. ASSUME NEW h \in Handlers, EndDraws(h) PROVE TypeInv'
  <2>1. CASE Fails /\ Ends(h)
    BY <1>12, <2>1, EndsIdle DEF EndDraws
  <2>2. ASSUME NEW drawn \in SUBSET participants, Draws(h, drawn, "finalize"), Succeeds
        PROVE  TypeInv'
    <3>1. drawn \in SUBSET Users
      OBVIOUS
    <3> QED
      BY <1>12, <2>2, <3>1, DrawsWhat DEF EndDraws
  <2> QED
    BY <1>12, <2>1, <2>2 DEF EndDraws
<1>13. ASSUME NEW h \in Handlers, EndFinalizes(h) PROVE TypeInv'
  BY <1>13, MovesWhere DEF EndFinalizes, Tasks
<1>14. ASSUME NEW h \in Handlers, EndGivesUp(h) PROVE TypeInv'
  BY <1>14, EndsIdle DEF EndGivesUp
<1>15. ASSUME NEW h \in Handlers, EndAnnounces(h) PROVE TypeInv'
  BY <1>15, EndsIdle DEF EndAnnounces
<1>16. ASSUME NEW h \in Handlers, CancelStopsTimer(h) PROVE TypeInv'
  BY <1>16, MovesWhere DEF CancelStopsTimer
<1>17. ASSUME NEW h \in Handlers, CancelWrites(h) PROVE TypeInv'
  BY <1>17, EndsIdle DEF CancelWrites
<1>18. ASSUME NEW h \in Handlers, RerollLocks(h) PROVE TypeInv'
  BY <1>18, EndsIdle, MovesWhere DEF RerollLocks
<1>19. ASSUME NEW h \in Handlers, RerollDraws(h) PROVE TypeInv'
  <2>1. CASE RerollEnds(h)
    BY <1>19, <2>1, EndsIdle DEF RerollDraws, RerollEnds
  <2>2. ASSUME NEW drawn \in SUBSET participants, Draws(h, drawn, "write"), UNCHANGED rerolling
        PROVE  TypeInv'
    <3>1. drawn \in SUBSET Users
      OBVIOUS
    <3> QED
      BY <1>19, <2>2, <3>1, DrawsWhat DEF RerollDraws
  <2> QED
    BY <1>19, <2>1, <2>2 DEF RerollDraws
<1>20. ASSUME NEW h \in Handlers, RerollWrites(h) PROVE TypeInv'
  <2>1. CASE Moves(h, "announce")
    <3>1. /\ handler' \in [Handlers -> Tasks] /\ ~At(h, "join", "insert")'
          /\ \A g \in Handlers \ {h} : handler'[g] = handler[g]
      BY <2>1, MovesWhere
    <3>2. JoinsAreOfUsers'
      BY <3>1
    <3> QED
      BY <1>20, <3>1, <3>2 DEF RerollWrites, RerollEnds, Tasks
  <2>2. CASE RerollEnds(h)
    BY <1>20, <2>2, EndsIdle DEF RerollWrites, RerollEnds, Tasks
  <2> QED
    BY <1>20, <2>1, <2>2 DEF RerollWrites
<1>21. ASSUME NEW h \in Handlers, RerollAnnounces(h) PROVE TypeInv'
  BY <1>21, EndsIdle DEF RerollAnnounces, RerollEnds, Tasks
<1>22. CASE TimerFires \/ EndTimePasses \/ SchedulerStops \/ Restart
  BY <1>22 DEF TimerFires, EndTimePasses, SchedulerStops, Restart
<1>23. CASE TimerCallback
  <2>1. /\ handler' \in [Handlers -> Tasks]
        /\ JoinsAreOfUsers'
    BY <1>23, AutoEndIsTask, BecomesWhat DEF TimerCallback
  <2> QED
    BY <1>23, <2>1 DEF TimerCallback
<1>24. CASE SchedulerInit
  <2>1. /\ handler' \in [Handlers -> Tasks]
        /\ JoinsAreOfUsers'
    BY <1>24, AutoEndIsTask, BecomesWhat DEF SchedulerInit
  <2> QED
    BY <1>24, <2>1 DEF SchedulerInit
<1>25. CASE Exit \/ Crash
  <2>1. /\ handler' \in [Handlers -> Tasks]
        /\ \A h \in Handlers : handler'[h].op = "idle"
    BY <1>25, IdleIsTask DEF Exit, Crash, Down
  <2>2. /\ process' = "down" /\ timer' = "none" /\ rerolling' = FALSE
        /\ failed' = FALSE /\ crashes' \in Nat
        /\ status' = status /\ winners' = winners /\ participants' = participants
        /\ due' = due /\ button' = button /\ announced' = announced
    BY <1>25 DEF Exit, Crash, Down
  <2>3. rerolled' \in SUBSET (Users \cup {NoUser})
    BY <1>25 DEF Exit, Crash, Down, NoReroll
  <2>4. TypeOK'
    BY <2>1, <2>2, <2>3
  <2>5. JoinsAreOfUsers'
    BY <2>1
  <2> QED
    BY <2>4, <2>5
<1>26. CASE UNCHANGED vars
  BY <1>26 DEF vars
<1> QED
  BY <1>1, <1>2, <1>3, <1>4, <1>5, <1>6, <1>7, <1>8, <1>9, <1>10, <1>11, <1>12, <1>13,
     <1>14, <1>15, <1>16, <1>17, <1>18, <1>19, <1>20, <1>21, <1>22, <1>23, <1>24, <1>25,
     <1>26
  DEF Next, Arrival, HandlerStep, SchedulerStep

\* The variables always have their types: in particular only members enter.
THEOREM TypeCorrect == Spec => []TypeOK
<1>1. TypeInv => TypeOK
  BY DEF TypeInv
<1> QED
  BY <1>1, TypeInit, TypeStep, PTL DEF Spec
-----------------------------------------------------------------------------
(* One end.                                                                *)

\* Of the handlers that end the giveaway, one gets to announce it, once.
OneEnd ==
    /\ announced \in {0, 1}
    /\ announced = 1 => status = "ended"
    /\ \A h \in Announcing : announced = 0 /\ status = "ended"
    /\ \A g, h \in Announcing : g = h

\* A reroll finds the giveaway ended, and nothing changes that.
RerollsAreOfEnded == \A h \in Handlers : handler[h].op = "reroll" => status = "ended"

-----------------------------------------------------------------------------
(* One reroll at a time.                                                   *)

Rerolls(h) == handler[h].op = "reroll" /\ handler[h].pc # "lock"

Recorded == {h \in Handlers : At(h, "reroll", "announce")}

\* A reroll past its lock is the only one, and nobody else writes the winners
\* between its write and its announcement.
OneReroll ==
    /\ \A h \in Handlers : Rerolls(h) => rerolling
    /\ \A g, h \in Handlers : Rerolls(g) /\ Rerolls(h) => g = h
    /\ \A h \in Recorded : winners = handler[h].winners
    /\ rerolled # NoReroll => status = "ended"
    /\ rerolled # NoReroll /\ Recorded = {} => winners = rerolled

SafeInv == OneEnd /\ RerollsAreOfEnded /\ OneReroll

LEMMA SafeInit == Init => SafeInv
<1> SUFFICES ASSUME Init PROVE SafeInv
  OBVIOUS
<1>1. \A h \in Handlers : handler[h].op = "idle"
  BY IdleIsTask DEF Init
<1> QED
  BY <1>1 DEF Init, SafeInv, OneEnd, RerollsAreOfEnded, OneReroll, Announcing, Recorded,
              Rerolls, At

\* A handler that starts, but not with an announcement or a reroll past its lock.
LEMMA ArrivalIsSafe ==
    ASSUME TypeInv, SafeInv, NEW h \in Handlers, NEW t \in Tasks,
           handler[h] = Idle, Becomes(h, t), t.pc \notin {"announce", "write"},
           t.op = "reroll" => t.pc = "lock" /\ status = "ended",
           status' = status, winners' = winners, rerolling' = rerolling,
           announced' = announced, rerolled' = rerolled
    PROVE  SafeInv'
<1> USE DEF TypeInv, TypeOK, SafeInv, At
<1>1. /\ handler'[h] = t /\ handler[h].op = "idle"
      /\ \A g \in Handlers \ {h} : handler'[g] = handler[g]
  BY BecomesWhat, IdleIsTask
<1>2. OneEnd'
  BY <1>1 DEF OneEnd, Announcing
<1>3. RerollsAreOfEnded'
  BY <1>1 DEF RerollsAreOfEnded
<1>4. Recorded' = Recorded /\ \A g \in Handlers : Rerolls(g)' = Rerolls(g)
  BY <1>1 DEF Recorded, Rerolls
<1>5. OneReroll'
  BY <1>1, <1>4 DEF OneReroll, Recorded
<1> QED
  BY <1>2, <1>3, <1>5

LEMMA SafeStep == TypeInv /\ SafeInv /\ [Next]_vars => SafeInv'
<1> SUFFICES ASSUME TypeInv, SafeInv, [Next]_vars PROVE SafeInv'
  OBVIOUS
<1> USE DEF TypeInv, TypeOK, SafeInv, OneEnd, RerollsAreOfEnded, OneReroll, Announcing,
            Recorded, Rerolls, At, row, scheduler, ghosts, Ops, Pcs
<1>1. ASSUME NEW h \in Handlers, CreateInserts(h) PROVE SafeInv'
  BY <1>1, IdleIsTask, TaskIsTask, BecomesWhat, SMTT(30) DEF CreateInserts, Arrives
<1>2. ASSUME NEW h \in Handlers, NEW u \in Users, JoinReads(h, u) PROVE SafeInv'
  BY <1>2, ArrivalIsSafe, EntryIsTask DEF JoinReads, Arrives
<1>3. ASSUME NEW h \in Handlers, NEW u \in Users, LeaveReads(h, u) PROVE SafeInv'
  BY <1>3, ArrivalIsSafe, EntryIsTask DEF LeaveReads, Arrives
<1>4. ASSUME NEW h \in Handlers, EndArrives(h) PROVE SafeInv'
  BY <1>4, ArrivalIsSafe, TaskIsTask DEF EndArrives, Arrives
<1>5. ASSUME NEW h \in Handlers, CancelReads(h) PROVE SafeInv'
  BY <1>5, ArrivalIsSafe, TaskIsTask DEF CancelReads, Arrives
<1>6. ASSUME NEW h \in Handlers, RerollArrives(h) PROVE SafeInv'
  BY <1>6, ArrivalIsSafe, TaskIsTask DEF RerollArrives, Arrives
<1>7. ASSUME NEW h \in Handlers, CreatePublishes(h) PROVE SafeInv'
  BY <1>7, MovesWhere DEF CreatePublishes
<1>8. ASSUME NEW h \in Handlers, CreateRollsBack(h) PROVE SafeInv'
  BY <1>8, EndsIdle DEF CreateRollsBack
<1>9. ASSUME NEW h \in Handlers, CreateSchedules(h) PROVE SafeInv'
  BY <1>9, EndsIdle, AutoEndIsTask, BecomesWhat DEF CreateSchedules
<1>10. ASSUME NEW h \in Handlers, JoinInserts(h) PROVE SafeInv'
  BY <1>10, EndsIdle DEF JoinInserts
<1>11. ASSUME NEW h \in Handlers, LeaveDeletes(h) PROVE SafeInv'
  BY <1>11, EndsIdle DEF LeaveDeletes
<1>12. ASSUME NEW h \in Handlers, EndDraws(h) PROVE SafeInv'
  BY <1>12, EndsIdle, DrawsWhat DEF EndDraws
<1>13. ASSUME NEW h \in Handlers, EndFinalizes(h) PROVE SafeInv'
  BY <1>13, MovesWhere DEF EndFinalizes
<1>14. ASSUME NEW h \in Handlers, EndGivesUp(h) PROVE SafeInv'
  BY <1>14, EndsIdle DEF EndGivesUp
<1>15. ASSUME NEW h \in Handlers, EndAnnounces(h) PROVE SafeInv'
  BY <1>15, EndsIdle DEF EndAnnounces
<1>16. ASSUME NEW h \in Handlers, CancelStopsTimer(h) PROVE SafeInv'
  BY <1>16, MovesWhere DEF CancelStopsTimer
<1>17. ASSUME NEW h \in Handlers, CancelWrites(h) PROVE SafeInv'
  BY <1>17, EndsIdle DEF CancelWrites
<1>18. ASSUME NEW h \in Handlers, RerollLocks(h) PROVE SafeInv'
  BY <1>18, EndsIdle, MovesWhere DEF RerollLocks
<1>19. ASSUME NEW h \in Handlers, RerollDraws(h) PROVE SafeInv'
  BY <1>19, EndsIdle, DrawsWhat DEF RerollDraws, RerollEnds
<1>20. ASSUME NEW h \in Handlers, RerollWrites(h) PROVE SafeInv'
  BY <1>20, EndsIdle, MovesWhere DEF RerollWrites, RerollEnds
<1>21. ASSUME NEW h \in Handlers, RerollAnnounces(h) PROVE SafeInv'
  BY <1>21, EndsIdle DEF RerollAnnounces, RerollEnds
<1>22. CASE TimerFires \/ EndTimePasses \/ SchedulerStops \/ Restart
  BY <1>22 DEF TimerFires, EndTimePasses, SchedulerStops, Restart
<1>23. CASE TimerCallback
  BY <1>23, AutoEndIsTask, BecomesWhat DEF TimerCallback
<1>24. CASE SchedulerInit
  BY <1>24, AutoEndIsTask, BecomesWhat DEF SchedulerInit
<1>25. CASE Exit \/ Crash
  BY <1>25, IdleIsTask DEF Exit, Crash, Down
<1>26. CASE UNCHANGED vars
  BY <1>26 DEF vars
<1> QED
  BY <1>1, <1>2, <1>3, <1>4, <1>5, <1>6, <1>7, <1>8, <1>9, <1>10, <1>11, <1>12, <1>13,
     <1>14, <1>15, <1>16, <1>17, <1>18, <1>19, <1>20, <1>21, <1>22, <1>23, <1>24,
     <1>25, <1>26
  DEF Next, Arrival, HandlerStep, SchedulerStep
LEMMA Safe == Spec => [](TypeInv /\ SafeInv)
<1>1. Init => TypeInv /\ SafeInv
  BY TypeInit, SafeInit
<1>2. TypeInv /\ SafeInv /\ [Next]_vars => (TypeInv /\ SafeInv)'
  BY TypeStep, SafeStep
<1> QED
  BY <1>1, <1>2, PTL DEF Spec

-----------------------------------------------------------------------------
(* What follows for the giveaway.                                          *)

\* However many timers, restarts, commands and failing statements: the end is
\* announced at most once, and never that of a cancelled giveaway.
THEOREM EndsOnceAlways == Spec => []EndsOnce
<1>1. OneEnd => EndsOnce
  <2> SUFFICES ASSUME OneEnd PROVE EndsOnce
    OBVIOUS
  <2>1. CASE Announcing = {}
    BY <2>1, FS_EmptySet DEF OneEnd, EndsOnce
  <2>2. ASSUME NEW h \in Announcing PROVE EndsOnce
    <3>1. Announcing = {h}
      BY <2>2 DEF OneEnd
    <3>2. Cardinality(Announcing) = 1
      BY <3>1, FS_Singleton
    <3>3. announced = 0 /\ status = "ended"
      BY <2>2 DEF OneEnd
    <3> QED
      BY <3>2, <3>3 DEF EndsOnce
  <2> QED
    BY <2>1, <2>2
<1>2. SafeInv => OneEnd
  BY DEF SafeInv
<1> QED
  BY <1>1, <1>2, Safe, PTL

\* The winners announced by the last reroll are those of the database.
THEOREM RerollIsRecordedAlways == Spec => []RerollIsRecorded
<1>1. SafeInv => RerollIsRecorded
  BY DEF SafeInv, OneReroll, RerollIsRecorded, Recorded, Rerolls, At
<1> QED
  BY <1>1, Safe, PTL

\* A giveaway that ended or was cancelled keeps that status.
THEOREM FinalStays == Spec => FinalIsFinal
<1> DEFINE Stays == status \in {"ended", "cancelled"} => status' = status
<1>1. TypeInv /\ SafeInv /\ [Next]_vars => [Stays]_vars
  <2> SUFFICES ASSUME TypeInv, SafeInv, Next PROVE Stays
    OBVIOUS
  <2> USE DEF At, row, SafeInv, RerollsAreOfEnded
  <2>1. ASSUME NEW h \in Handlers, Arrival(h) PROVE Stays
    BY <2>1 DEF Arrival, CreateInserts, JoinReads, LeaveReads, EndArrives, CancelReads,
                RerollArrives
  <2>2. ASSUME NEW h \in Handlers, HandlerStep(h) PROVE Stays
    BY <2>2 DEF HandlerStep, CreatePublishes, CreateRollsBack, CreateSchedules, JoinInserts,
                LeaveDeletes, EndDraws, EndFinalizes, EndGivesUp, EndAnnounces,
                CancelStopsTimer, CancelWrites, RerollLocks, RerollDraws, RerollWrites,
                RerollAnnounces
  <2>3. CASE SchedulerStep \/ EndTimePasses \/ SchedulerStops \/ Crash
    BY <2>3 DEF SchedulerStep, TimerFires, TimerCallback, SchedulerInit, Exit, Restart,
                EndTimePasses, SchedulerStops, Crash, Down
  <2> QED
    BY <2>1, <2>2, <2>3 DEF Next
<1> QED
  BY <1>1, Safe, PTL DEF Spec, FinalIsFinal

-----------------------------------------------------------------------------
(***************************************************************************)
(* RoleLocks.  refs counts the threads that refer to an entry, the entry a *)
(* thread refers to is the one the map has for its member, and no two      *)
(* members share one.                                                      *)
(***************************************************************************)
USE LocksAssumption

UsersOf(a) == {t \in Threads : mine[t] = a}

\* Who is in the set refers to an entry, the one of its member.
MineIsListed ==
  \A t \in Threads :
    /\ at[t] = "idle" <=> mine[t] = None
    /\ mine[t] # None => entries[member[t]] = mine[t]

\* An entry has a user, and belongs to one member.
ListedIsUsed ==
  \A m \in Members : entries[m] # None => \E t \in Threads : mine[t] = entries[m] /\ member[t] = m

NotShared == \A m, n \in Members : entries[m] = entries[n] /\ entries[m] # None => m = n

RefsCount == \A a \in Addresses : refs[a] = Cardinality(UsersOf(a))

HolderInside ==
  \A t \in Threads : at[t] = "inside" => holder[mine[t]] = t

IInv == LocksTypeOK /\ MineIsListed /\ ListedIsUsed /\ NotShared /\ RefsCount /\ HolderInside

-----------------------------------------------------------------------------
(***************************************************************************)
(* Counting users.                                                         *)
(***************************************************************************)

LEMMA UsersFinite == \A a : IsFiniteSet(UsersOf(a)) /\ Cardinality(UsersOf(a)) \in Nat
BY FS_Subset, FS_CardinalityType DEF UsersOf

\* A thread that comes to refer to an entry is counted there and nowhere else.
LEMMA OneMore ==
  ASSUME LocksTypeOK, NEW t \in Threads, NEW a \in Addresses, mine[t] = None,
         mine' = [mine EXCEPT ![t] = a]
  PROVE  /\ Cardinality(UsersOf(a)') = Cardinality(UsersOf(a)) + 1
         /\ \A b \in Addresses \ {a} : UsersOf(b)' = UsersOf(b)
<1>1. UsersOf(a)' = UsersOf(a) \cup {t} /\ t \notin UsersOf(a)
  BY DEF UsersOf, LocksTypeOK
<1>2. \A b \in Addresses \ {a} : UsersOf(b)' = UsersOf(b)
  BY DEF UsersOf, LocksTypeOK
<1> QED
  BY <1>1, <1>2, UsersFinite, FS_AddElement

\* A thread that ceases to refer to an entry is one less there.
LEMMA OneLess ==
  ASSUME LocksTypeOK, NEW t \in Threads, NEW a \in Addresses, mine[t] = a,
         mine' = [mine EXCEPT ![t] = None]
  PROVE  /\ UsersOf(a)' = UsersOf(a) \ {t}
         /\ Cardinality(UsersOf(a)') = Cardinality(UsersOf(a)) - 1
         /\ \A b \in Addresses \ {a} : UsersOf(b)' = UsersOf(b)
<1>1. UsersOf(a)' = UsersOf(a) \ {t} /\ t \in UsersOf(a)
  BY DEF UsersOf, LocksTypeOK
<1>2. \A b \in Addresses \ {a} : UsersOf(b)' = UsersOf(b)
  BY DEF UsersOf, LocksTypeOK
<1> QED
  BY <1>1, <1>2, UsersFinite, FS_RemoveElement

\* Whoever leaves as the last is alone.
LEMMA LastIsAlone ==
  ASSUME IInv, NEW t \in Threads, mine[t] \in Addresses
  PROVE  /\ refs[mine[t]] \in Nat \ {0}
         /\ refs[mine[t]] = 1 => \A u \in Threads : mine[u] = mine[t] => u = t
         /\ refs[mine[t]] # 1 => \E u \in Threads \ {t} : mine[u] = mine[t]
<1> DEFINE S == UsersOf(mine[t])
<1>1. t \in S /\ IsFiniteSet(S) /\ refs[mine[t]] = Cardinality(S)
  BY UsersFinite DEF UsersOf, IInv, RefsCount
<1>2. Cardinality(S) # 0 /\ Cardinality(S) \in Nat
  BY <1>1, FS_EmptySet, FS_CardinalityType
<1>3. Cardinality(S) = 1 <=> \E x : S = {x}
  BY <1>1, FS_Singleton
<1> QED
  BY <1>1, <1>2, <1>3 DEF UsersOf

-----------------------------------------------------------------------------
LEMMA InitIInv == LocksInit => IInv
<1> SUFFICES ASSUME LocksInit PROVE IInv
  OBVIOUS
<1>1. \A a \in Addresses : UsersOf(a) = {}
  BY DEF LocksInit, UsersOf
<1>2. RefsCount
  BY <1>1, FS_EmptySet DEF LocksInit, RefsCount
<1> QED
  BY <1>2 DEF LocksInit, IInv, LocksTypeOK, MineIsListed, ListedIsUsed, NotShared, HolderInside

LEMMA FindInductive ==
  ASSUME IInv, NEW t \in Threads, NEW m \in Members, Find(t, m)
  PROVE  IInv'
<1> PICK a : a = entries[m]
  OBVIOUS
<1>1. a \in Addresses /\ mine[t] = None /\ mine' = [mine EXCEPT ![t] = a]
  BY DEF Find, Reach, IInv, LocksTypeOK, MineIsListed
<1>2. LocksTypeOK'
  BY <1>1 DEF Find, Reach, IInv, LocksTypeOK
<1>3. RefsCount'
  <2>1. Cardinality(UsersOf(a)') = Cardinality(UsersOf(a)) + 1
        /\ \A b \in Addresses \ {a} : UsersOf(b)' = UsersOf(b)
    BY <1>1, OneMore DEF IInv
  <2> QED
    BY <2>1, <1>1, UsersFinite DEF Find, IInv, LocksTypeOK, RefsCount
<1>4. MineIsListed' /\ NotShared' /\ HolderInside'
  BY <1>1 DEF Find, Reach, IInv, LocksTypeOK, MineIsListed, NotShared, HolderInside
<1>5. ListedIsUsed'
  BY <1>1 DEF Find, Reach, IInv, LocksTypeOK, ListedIsUsed
<1> QED
  BY <1>2, <1>3, <1>4, <1>5 DEF IInv

LEMMA MakeInductive ==
  ASSUME IInv, NEW t \in Threads, NEW m \in Members, Make(t, m)
  PROVE  IInv'
<1> PICK a \in Addresses : /\ Unused(a) /\ entries[m] = None
                           /\ entries' = [entries EXCEPT ![m] = a]
                           /\ refs' = [refs EXCEPT ![a] = 1]
                           /\ Reach(t, m, a)
  BY DEF Make
<1>1. mine[t] = None /\ mine' = [mine EXCEPT ![t] = a] /\ a # None
  BY DEF Reach, IInv, MineIsListed
<1>2. LocksTypeOK'
  BY <1>1 DEF Reach, IInv, LocksTypeOK
<1>3. RefsCount'
  <2>1. /\ Cardinality(UsersOf(a)') = Cardinality(UsersOf(a)) + 1
        /\ \A b \in Addresses \ {a} : UsersOf(b)' = UsersOf(b)
    BY <1>1, OneMore DEF IInv
  <2>2. UsersOf(a) = {}
    BY DEF UsersOf, Unused
  <2>3. Cardinality(UsersOf(a)') = 1
    BY <2>1, <2>2, FS_EmptySet
  <2> QED
    BY <2>1, <2>3 DEF IInv, LocksTypeOK, RefsCount
<1>4. MineIsListed' /\ HolderInside'
  BY <1>1 DEF Reach, IInv, LocksTypeOK, MineIsListed, HolderInside
<1>5. ListedIsUsed' /\ NotShared'
  BY <1>1 DEF Unused, Reach, IInv, LocksTypeOK, ListedIsUsed, NotShared
<1> QED
  BY <1>2, <1>3, <1>4, <1>5 DEF IInv

LEMMA AcquireInductive ==
  ASSUME IInv, NEW t \in Threads, Obtain(t)
  PROVE  IInv'
<1>1. mine[t] \in Addresses
  BY DEF Obtain, IInv, LocksTypeOK, MineIsListed
<1>2. LocksTypeOK' /\ MineIsListed' /\ ListedIsUsed' /\ NotShared'
  BY <1>1 DEF Obtain, IInv, LocksTypeOK, MineIsListed, ListedIsUsed, NotShared
<1>3. HolderInside'
  BY <1>1 DEF Obtain, IInv, LocksTypeOK, HolderInside
<1>4. RefsCount'
  BY DEF Obtain, IInv, RefsCount, UsersOf
<1> QED
  BY <1>2, <1>3, <1>4 DEF IInv

LEMMA UnlockInductive ==
  ASSUME IInv, NEW t \in Threads, Unlock(t)
  PROVE  IInv'
<1>1. mine[t] \in Addresses
  BY DEF Unlock, IInv, LocksTypeOK, MineIsListed
<1>2. LocksTypeOK' /\ MineIsListed' /\ ListedIsUsed' /\ NotShared'
  BY <1>1 DEF Unlock, IInv, LocksTypeOK, MineIsListed, ListedIsUsed, NotShared
<1>3. HolderInside'
  BY <1>1 DEF Unlock, IInv, LocksTypeOK, HolderInside
<1>4. RefsCount'
  BY DEF Unlock, IInv, RefsCount, UsersOf
<1> QED
  BY <1>2, <1>3, <1>4 DEF IInv

LEMMA DropInductive ==
  ASSUME IInv, NEW t \in Threads, Drop(t)
  PROVE  IInv'
<1> PICK a : a = mine[t]
  OBVIOUS
<1>1. a \in Addresses /\ a # None /\ mine' = [mine EXCEPT ![t] = None] /\ entries[member[t]] = a
  BY DEF Drop, IInv, LocksTypeOK, MineIsListed
<1>2. /\ refs[a] \in Nat \ {0}
      /\ refs[a] = 1 => \A u \in Threads : mine[u] = a => u = t
      /\ refs[a] # 1 => \E u \in Threads \ {t} : mine[u] = a
  BY <1>1, LastIsAlone
<1>3. LocksTypeOK'
  BY <1>1, <1>2 DEF Drop, IInv, LocksTypeOK
<1>4. RefsCount'
  <2>1. Cardinality(UsersOf(a)') = Cardinality(UsersOf(a)) - 1
        /\ \A b \in Addresses \ {a} : UsersOf(b)' = UsersOf(b)
    BY <1>1, OneLess DEF IInv
  <2> QED
    BY <2>1, <1>1, UsersFinite DEF Drop, IInv, LocksTypeOK, RefsCount
<1>5. MineIsListed'
  <2>1. CASE refs[a] = 1
    BY <2>1, <1>1, <1>2 DEF Drop, IInv, LocksTypeOK, MineIsListed, NotShared
  <2>2. CASE refs[a] # 1
    BY <2>2, <1>1 DEF Drop, IInv, LocksTypeOK, MineIsListed
  <2> QED
    BY <2>1, <2>2
<1>6. ListedIsUsed'
  <2>1. CASE refs[a] = 1
    BY <2>1, <1>1, <1>2 DEF Drop, IInv, LocksTypeOK, ListedIsUsed
  <2>2. CASE refs[a] # 1
    <3>1. PICK u \in Threads \ {t} : mine[u] = a
      BY <2>2, <1>2
    <3>2. member[u] = member[t]
      BY <3>1, <1>1 DEF IInv, LocksTypeOK, MineIsListed, NotShared
    <3> QED
      BY <3>1, <3>2, <2>2, <1>1 DEF Drop, IInv, LocksTypeOK, ListedIsUsed, NotShared
  <2> QED
    BY <2>1, <2>2
<1>7. NotShared' /\ HolderInside'
  BY <1>1 DEF Drop, IInv, LocksTypeOK, NotShared, HolderInside
<1> QED
  BY <1>3, <1>4, <1>5, <1>6, <1>7 DEF IInv

LEMMA StepIInv == IInv /\ [LocksNext]_lockVars => IInv'
<1> SUFFICES ASSUME IInv, [LocksNext]_lockVars PROVE IInv'
  OBVIOUS
<1>1. CASE LocksNext
  BY <1>1, FindInductive, MakeInductive, AcquireInductive, UnlockInductive, DropInductive
     DEF LocksNext, Lock
<1>2. CASE UNCHANGED lockVars
  BY <1>2 DEF lockVars, IInv, LocksTypeOK, MineIsListed, ListedIsUsed, NotShared, RefsCount, HolderInside, UsersOf
<1> QED
  BY <1>1, <1>2

LEMMA IInvHolds == LocksSpec => []IInv
BY InitIInv, StepIInv, PTL DEF LocksSpec

\* The counters, the map and the entries keep their types (locks.go:5-13).
THEOREM EntriesTypeCorrect == LocksSpec => []LocksTypeOK
<1>1. IInv => LocksTypeOK
  BY DEF IInv
<1> QED
  BY <1>1, IInvHolds, PTL

\* The map has a member exactly while an operation refers to it (locks.go:34-38).
THEOREM NothingLeaks == LocksSpec => []NoEntryLeaks
<1>1. IInv => NoEntryLeaks
  BY DEF IInv, LocksTypeOK, MineIsListed, ListedIsUsed, NoEntryLeaks
<1> QED
  BY <1>1, IInvHolds, PTL

-----------------------------------------------------------------------------
(***************************************************************************)
(* The refinement.                                                         *)
(***************************************************************************)

Wants == [m \in Members |-> {t \in Threads : at[t] = "waiting" /\ member[t] = m}]
Inside == [m \in Members |-> {t \in Threads : at[t] = "inside" /\ member[t] = m}]

\* Who waits with a free entry finds nobody inside with its member.
LEMMA FreeIsEmpty ==
  ASSUME IInv, NEW t \in Threads, mine[t] # None, holder[mine[t]] = None
  PROVE  Inside[member[t]] = {}
<1> SUFFICES ASSUME NEW u \in Threads, at[u] = "inside", member[u] = member[t] PROVE FALSE
  BY DEF IInv, LocksTypeOK, Inside
<1>1. mine[u] = mine[t]
  BY DEF IInv, LocksTypeOK, MineIsListed
<1> QED
  BY <1>1 DEF IInv, HolderInside

\* Who is inside is alone there.
LEMMA InsideAlone ==
  ASSUME IInv, NEW t \in Threads, at[t] = "inside"
  PROVE  Inside[member[t]] = {t}
<1>1. \A u \in Threads : at[u] = "inside" /\ member[u] = member[t] => u = t
  BY DEF IInv, LocksTypeOK, MineIsListed, HolderInside
<1> QED
  BY <1>1 DEF IInv, LocksTypeOK, Inside

LEMMA InitMaps == LocksInit => Mutex!Init
BY DEF LocksInit, Mutex!Init

LEMMA StepMaps ==
  ASSUME IInv, IInv', [LocksNext]_lockVars
  PROVE  [Mutex!Next]_(Mutex!vars)
<1>a. LocksTypeOK /\ LocksTypeOK'
  BY DEF IInv
<1>1. ASSUME NEW t \in Threads, NEW m \in Members, NEW a \in Addresses, Reach(t, m, a)
      PROVE  Mutex!Request(t, m)
  <2>1. \A n \in Members : t \notin Wants[n] /\ t \notin Inside[n]
    BY <1>1 DEF Reach, Wants, Inside
  <2>2. \A n \in Members : Wants'[n] = IF n = m THEN Wants[n] \cup {t} ELSE Wants[n]
    BY <1>1, <1>a DEF Reach, LocksTypeOK, Wants
  <2>3. \A n \in Members : Inside'[n] = Inside[n]
    BY <1>1, <1>a DEF Reach, LocksTypeOK, Inside
  <2>4. Wants' = [Wants EXCEPT ![m] = @ \cup {t}]
    BY <2>2 DEF Wants
  <2>5. Inside' = Inside
    BY <2>3 DEF Inside
  <2> QED
    BY <2>1, <2>4, <2>5 DEF Mutex!Request, Mutex!Busy, Wants, Inside
<1>2. ASSUME NEW t \in Threads, NEW m \in Members, m = member[t], Obtain(t)
      PROVE  Mutex!Enter(t, m)
  <2>1. Inside[m] = {}
    BY <1>2, <1>a, FreeIsEmpty DEF Obtain, IInv, LocksTypeOK, MineIsListed
  <2>2. t \in Wants[m]
    BY <1>2, <2>1 DEF Obtain, Wants
  <2>3. \A n \in Members : Wants'[n] = IF n = m THEN Wants[n] \ {t} ELSE Wants[n]
    BY <1>2, <1>a DEF Obtain, LocksTypeOK, Wants
  <2>4. \A n \in Members : Inside'[n] = IF n = m THEN Inside[n] \cup {t} ELSE Inside[n]
    BY <1>2, <1>a DEF Obtain, LocksTypeOK, Inside
  <2>5. Wants' = [Wants EXCEPT ![m] = @ \ {t}]
    BY <2>3 DEF Wants
  <2>6. Inside' = [Inside EXCEPT ![m] = {t}]
    BY <2>1, <2>4 DEF Inside
  <2> QED
    BY <2>1, <2>2, <2>5, <2>6 DEF Mutex!Enter, Wants, Inside
<1>3. ASSUME NEW t \in Threads, NEW m \in Members, m = member[t], Unlock(t)
      PROVE  Mutex!Leave(t, m)
  <2>1. Inside[m] = {t}
    BY <1>3, <1>a, InsideAlone DEF Unlock, LocksTypeOK
  <2>2. Wants' = Wants
    BY <1>3, <1>a DEF Unlock, LocksTypeOK, Wants
  <2>3. \A n \in Members : Inside'[n] = IF n = m THEN Inside[n] \ {t} ELSE Inside[n]
    BY <1>3, <1>a DEF Unlock, LocksTypeOK, Inside
  <2>4. Inside' = [Inside EXCEPT ![m] = {}]
    BY <2>1, <2>3 DEF Inside
  <2> QED
    BY <2>1, <2>2, <2>4 DEF Mutex!Leave, Wants, Inside
<1>4. ASSUME NEW t \in Threads, Drop(t)
      PROVE  UNCHANGED Mutex!vars
  BY <1>4, <1>a DEF Drop, LocksTypeOK, Mutex!vars
<1>5. CASE UNCHANGED lockVars
  BY <1>5 DEF lockVars, Mutex!vars
<1>6. ASSUME NEW t \in Threads, NEW m \in Members, Find(t, m) \/ Make(t, m)
      PROVE  Mutex!Request(t, m)
  <2>1. PICK a \in Addresses : Reach(t, m, a)
    BY <1>6, <1>a DEF Find, Make, LocksTypeOK
  <2> QED
    BY <2>1, <1>1
<1>7. \A t \in Threads : member[t] \in Members
  BY <1>a DEF LocksTypeOK
<1>8. CASE LocksNext
  <2> PICK t \in Threads : Lock(t) \/ Obtain(t) \/ Unlock(t) \/ Drop(t)
    BY <1>8 DEF LocksNext
  <2>1. CASE Lock(t)
    BY <2>1, <1>6 DEF Lock, Mutex!Next
  <2>2. CASE Obtain(t)
    BY <2>2, <1>2, <1>7 DEF Mutex!Next
  <2>3. CASE Unlock(t)
    BY <2>3, <1>3, <1>7 DEF Mutex!Next
  <2>4. CASE Drop(t)
    BY <2>4, <1>4
  <2> QED
    BY <2>1, <2>2, <2>3, <2>4
<1> QED
  BY <1>5, <1>8

\* The locks implement one mutex per member: operations on a member never overlap,
\* whatever entries are made and dropped meanwhile (locks.go:19-40).
THEOREM LocksImplementMutex == LocksSpec => ImplementsMutex
<1>1. LocksInit => Mutex!Init
  BY InitMaps
<1>2. IInv /\ IInv' /\ [LocksNext]_lockVars => [Mutex!Next]_(Mutex!vars)
  BY StepMaps
<1> QED
  BY <1>1, <1>2, IInvHolds, PTL DEF LocksSpec, Mutex!Spec, ImplementsMutex

\* The same of the process with all the services, where other services run beside the locks.
THEOREM LocksAreMutexesAlways == ServicesSpec => LocksAreMutexes
<1>1. ServicesInit => LocksInit /\ Mutex!Init
  BY InitMaps DEF ServicesInit
<1>2. [ServicesNext]_<<focus, From1, lockVars>> => [LocksNext]_lockVars
  BY DEF ServicesNext
<1>3. IInv /\ IInv' /\ [LocksNext]_lockVars
        => [focus = "role locks" => [Mutex!Next]_(Mutex!vars)]_<<focus, lockVars>>
  BY StepMaps
<1> QED
  BY <1>1, <1>2, <1>3, IInvHolds, PTL DEF ServicesSpec, LocksSpec, LocksAreMutexes

-----------------------------------------------------------------------------
(***************************************************************************)
(* The other services, as instances.                                       *)
(***************************************************************************)

\* The slots, and what one step of the process is for each of the services.
Slots == <<focus, s1, s2, s3, s4, s5, s6, s7, s8, s9, s10, s11, s12, s13, s14, s15, s16, s17, s18,
           s19, s20, s21, s22, s23>>

LEMMA SlotsStay == ASSUME UNCHANGED <<focus, From1, lockVars>> PROVE UNCHANGED Slots
BY DEF Slots, From1, From7, From10, From12, From15, From16, From17

LEMMA StepOfOne ==
  ASSUME [ServicesNext]_<<focus, From1, lockVars>>
  PROVE  /\ focus' = focus
         /\ focus = "moderation" => [Cases!Next]_(Cases!vars)
         /\ focus = "channel locks" => [Locks!Next]_(Locks!vars)
         /\ focus = "nicknames" => [Nick!Next]_(Nick!vars)
         /\ focus = "rate limits" => [Rate!Next]_(Rate!vars)
         /\ focus = "cooldowns" => [Cool!Next]_(Cool!vars)
         /\ focus = "leveling" => [Levels!Next]_(Levels!vars)
<1>1. CASE ServicesNext
  BY <1>1 DEF ServicesNext
<1>2. CASE UNCHANGED <<focus, From1, lockVars>>
  <2>1. UNCHANGED Slots
    BY <1>2, SlotsStay
  <2>2. UNCHANGED Cases!vars
    BY <2>1 DEF Slots, Cases!vars, Cases!guild, Cases!table, Cases!ghosts
  <2>3. UNCHANGED Locks!vars
    BY <2>1 DEF Slots, Locks!vars, Locks!discord, Locks!settings, Locks!ghosts
  <2>4. UNCHANGED Nick!vars /\ UNCHANGED Rate!vars /\ UNCHANGED Cool!vars
    BY <2>1 DEF Slots, Nick!vars, Rate!vars, Cool!vars
  <2>5. UNCHANGED Levels!vars
    BY <2>1 DEF Slots, Levels!vars, Levels!user, Levels!rewards, Levels!spam, Levels!bounds
  <2> QED BY <2>1, <2>2, <2>3, <2>4, <2>5 DEF Slots
<1> QED BY <1>1, <1>2

LEMMA InitOfOne ==
  ASSUME ServicesInit
  PROVE  /\ focus = "moderation" => Cases!Init
         /\ focus = "channel locks" => Locks!Init
         /\ focus = "nicknames" => Nick!Init
         /\ focus = "rate limits" => Rate!Init
         /\ focus = "cooldowns" => Cool!Init
         /\ focus = "leveling" => Levels!Init
BY DEF ServicesInit

-----------------------------------------------------------------------------
(***************************************************************************)
(* Nicknames.  A nickname that changed since the lock was last written is  *)
(* in the last event on its way, or in the hands of a handler that read    *)
(* the row as it is.                                                       *)
(***************************************************************************)

\* The variables by name.
nick == s1
nickRow == s2
events == s3
handlers == s4
mods == s5
changes == s6
nickErrors == s7
version == s8
changedAt == s9
USE DEF nick, nickRow, events, handlers, mods, changes, nickErrors, version, changedAt

NickTypes ==
  /\ nick \in Names \cup {Nameless}
  /\ events \in Seq(Names \cup {Nameless})
  /\ handlers \in [Listeners -> Names \cup {Nameless, NoJob}]
  /\ mods \in [Jobs -> {NoJob} \cup ({"set", "save", "delete", "blank"} \X (Names \cup {Nameless}))]
  /\ nickRow \in Names \cup {Nameless}
  /\ nickErrors \in Nat /\ version \in Nat /\ changedAt \in 0..version

Noticed ==
  nickRow # Nameless /\ nick # nickRow /\ changedAt = version =>
    \/ events # <<>> /\ events[Len(events)] = nick
    \/ \E h \in Listeners : handlers[h] = nickRow
    \/ nickErrors > 0

NickInv == NickTypes /\ Noticed

LEMMA NickRenamed ==
  ASSUME NickTypes, NEW n \in Names \cup {Nameless}, Nick!SetNick(n)
  PROVE  /\ nick' = n /\ events' \in Seq(Names \cup {Nameless})
         /\ \/ n = nick /\ UNCHANGED <<events, changedAt>>
            \/ /\ changedAt' = version
               /\ events' # <<>> /\ events'[Len(events')] = n
BY DEF NickTypes, Nick!SetNick

\* A nickname that is set, and the row as it was.
LEMMA SetNickKeeps ==
  ASSUME NickInv, NEW n \in Names \cup {Nameless}, Nick!SetNick(n), UNCHANGED <<nickRow, version, nickErrors>>,
         \A h \in Listeners : handlers[h] = nickRow => n = nickRow \/ handlers'[h] = nickRow,
         handlers' \in [Listeners -> Names \cup {Nameless, NoJob}],
         mods' \in [Jobs -> {NoJob} \cup ({"set", "save", "delete", "blank"} \X (Names \cup {Nameless}))]
  PROVE  NickInv'
<1>1. NickTypes'
  BY NickRenamed DEF NickInv, NickTypes
<1>2. Noticed'
  BY NickRenamed DEF NickInv, Noticed
<1> QED BY <1>1, <1>2 DEF NickInv

\* A row that is written: the nickname did not change since.
LEMMA WriteRowKeeps ==
  ASSUME NickInv, NEW n \in Names \cup {Nameless}, Nick!WriteRow(n),
         UNCHANGED <<nick, events, handlers, changedAt, nickErrors>>,
         mods' \in [Jobs -> {NoJob} \cup ({"set", "save", "delete", "blank"} \X (Names \cup {Nameless}))]
  PROVE  NickInv'
<1>1. NickTypes' /\ changedAt' # version'
  BY DEF NickInv, NickTypes, Nick!WriteRow
<1> QED BY <1>1 DEF NickInv, Noticed

\* A call fails, and nothing is owed any more.
LEMMA NickFails ==
  ASSUME NickInv, Nick!Fails, UNCHANGED <<nick, events, changedAt, nickRow, version>>,
         handlers' \in [Listeners -> Names \cup {Nameless, NoJob}],
         mods' \in [Jobs -> {NoJob} \cup ({"set", "save", "delete", "blank"} \X (Names \cup {Nameless}))]
  PROVE  NickInv'
<1>1. NickTypes' /\ nickErrors' > 0
  BY DEF NickInv, NickTypes, Nick!Fails
<1> QED BY <1>1 DEF NickInv, Noticed

LEMMA ModTypes ==
  ASSUME NickTypes, NEW m \in Jobs
  PROVE  /\ Nick!Step(m) # "" => mods[m] # NoJob /\ mods[m][1] = Nick!Step(m)
         /\ mods[m] # NoJob => /\ mods[m][1] \in {"set", "save", "delete", "blank"}
                              /\ mods[m][2] \in Names \cup {Nameless}
BY DEF NickTypes, Nick!Step

LEMMA ModMoves ==
  ASSUME NickTypes, NEW m \in Jobs,
         \/ mods' = mods
         \/ mods' = [mods EXCEPT ![m] = NoJob]
         \/ \E n \in Names \cup {Nameless}, s \in {"set", "delete"} : mods' = [mods EXCEPT ![m] = <<s, n>>]
         \/ /\ mods[m] # NoJob
            /\ \E s \in {"save", "blank"} : mods' = [mods EXCEPT ![m][1] = s]
  PROVE  mods' \in [Jobs -> {NoJob} \cup ({"set", "save", "delete", "blank"} \X (Names \cup {Nameless}))]
<1> DEFINE T == {"set", "save", "delete", "blank"} \X (Names \cup {Nameless})
<1>1. mods \in [Jobs -> {NoJob} \cup T]
  BY DEF NickTypes
<1>2. ASSUME mods[m] # NoJob, NEW s \in {"save", "blank"}, mods' = [mods EXCEPT ![m][1] = s]
      PROVE  mods' \in [Jobs -> {NoJob} \cup T]
  <2> DEFINE r == [mods[m] EXCEPT ![1] = s]
  <2>1. mods[m] \in T
    BY <1>1, <1>2
  <2>2. r = <<s, mods[m][2]>> /\ mods[m][2] \in Names \cup {Nameless}
    BY <2>1
  <2>3. r \in T
    BY <2>2
  <2>4. mods' = [mods EXCEPT ![m] = r]
    BY <1>2
  <2> QED BY <1>1, <2>3, <2>4
<1> QED BY <1>1, <1>2

LEMMA NickInit == ASSUME Nick!Init PROVE NickInv
BY DEF Nick!Init, NickInv, NickTypes, Noticed

\* Steps of the member, and of a moderator.
LEMMA RenameKeeps ==
  ASSUME NickInv, NEW n \in Names \cup {Nameless}, Nick!Rename(n) PROVE NickInv'
<1>1. NickTypes /\ UNCHANGED <<nickRow, handlers, mods, nickErrors, version>> /\ Nick!SetNick(n)
  BY DEF NickInv, Nick!Rename
<1> QED BY <1>1, SetNickKeeps DEF NickTypes

LEMMA ForcenickKeeps ==
  ASSUME NickInv, NEW n \in Names \cup {Nameless}, NEW m \in Jobs, Nick!Forcenick(m, n)
  PROVE  NickInv'
<1>1. NickTypes /\ UNCHANGED <<nick, nickRow, events, handlers, nickErrors, version, changedAt>>
  BY DEF NickInv, Nick!Forcenick
<1>2. mods' \in [Jobs -> {NoJob} \cup ({"set", "save", "delete", "blank"} \X (Names \cup {Nameless}))]
  BY <1>1, ModMoves DEF Nick!Forcenick
<1> QED BY <1>1, <1>2 DEF NickInv, NickTypes, Noticed

LEMMA ModKeeps ==
  ASSUME NickInv, NEW m \in Jobs,
         \/ Nick!Apply(m) \/ Nick!LockUserNickname(m) \/ Nick!UnlockUserNickname(m)
         \/ Nick!ResetNickname(m)
  PROVE  NickInv'
<1>1. NickTypes /\ handlers \in [Listeners -> Names \cup {Nameless, NoJob}]
  BY DEF NickInv, NickTypes
<1>2. mods[m] # NoJob /\ mods[m][2] \in Names \cup {Nameless}
  BY <1>1, ModTypes DEF Nick!Apply, Nick!LockUserNickname, Nick!UnlockUserNickname, Nick!ResetNickname
<1>3. mods' \in [Jobs -> {NoJob} \cup ({"set", "save", "delete", "blank"} \X (Names \cup {Nameless}))]
  <2>1. \/ mods' = [mods EXCEPT ![m] = NoJob]
        \/ \E s \in {"save", "blank"} : mods' = [mods EXCEPT ![m][1] = s]
    BY DEF Nick!Apply, Nick!LockUserNickname, Nick!UnlockUserNickname, Nick!ResetNickname
  <2> QED BY <1>1, <1>2, <2>1, ModMoves
<1>4. handlers' = handlers
  BY DEF Nick!Apply, Nick!LockUserNickname, Nick!UnlockUserNickname, Nick!ResetNickname
<1>5. \/ /\ \E n \in Names \cup {Nameless} : Nick!SetNick(n)
         /\ UNCHANGED <<nickRow, version, nickErrors>>
      \/ /\ \E n \in Names \cup {Nameless} : Nick!WriteRow(n)
         /\ UNCHANGED <<nick, events, changedAt, nickErrors>>
      \/ Nick!Fails /\ UNCHANGED <<nick, events, changedAt, nickRow, version>>
  <2>1. CASE Nick!Apply(m)
    BY <1>2, <2>1 DEF Nick!Apply
  <2>2. CASE Nick!LockUserNickname(m)
    BY <1>2, <2>2 DEF Nick!LockUserNickname
  <2>3. CASE Nick!UnlockUserNickname(m)
    BY <2>3 DEF Nick!UnlockUserNickname
  <2>4. CASE Nick!ResetNickname(m)
    BY <2>4 DEF Nick!ResetNickname
  <2> QED BY <2>1, <2>2, <2>3, <2>4
<1>6. CASE /\ \E n \in Names \cup {Nameless} : Nick!SetNick(n)
           /\ UNCHANGED <<nickRow, version, nickErrors>>
  BY <1>1, <1>3, <1>4, <1>6, SetNickKeeps
<1>7. CASE /\ \E n \in Names \cup {Nameless} : Nick!WriteRow(n)
           /\ UNCHANGED <<nick, events, changedAt, nickErrors>>
  BY <1>1, <1>3, <1>4, <1>7, WriteRowKeeps
<1>8. CASE Nick!Fails /\ UNCHANGED <<nick, events, changedAt, nickRow, version>>
  BY <1>1, <1>3, <1>4, <1>8, NickFails
<1> QED BY <1>5, <1>6, <1>7, <1>8

\* A handler that takes the last event off reads the row it will put back.
LEMMA HandleKeeps ==
  ASSUME NickInv, NoJob \notin Names \cup {Nameless}, NEW h \in Listeners, Nick!Handle(h)
  PROVE  NickInv'
<1>1. /\ NickTypes /\ handlers \in [Listeners -> Names \cup {Nameless, NoJob}]
      /\ events \in Seq(Names \cup {Nameless}) /\ nickRow \in Names \cup {Nameless} /\ nickErrors \in Nat
  BY DEF NickInv, NickTypes
<1>2. /\ events # <<>> /\ events' = Tail(events) /\ handlers[h] = NoJob
      /\ UNCHANGED <<nick, nickRow, mods, changes, version, changedAt>>
  BY DEF Nick!Handle
<1>3. events' \in Seq(Names \cup {Nameless})
  BY <1>1, <1>2
<1>4. \/ /\ handlers' = IF nickRow # Nameless /\ events[1] # nickRow
                        THEN [handlers EXCEPT ![h] = nickRow] ELSE handlers
         /\ nickErrors' = nickErrors
      \/ handlers' = handlers /\ nickErrors' = nickErrors + 1
  BY <1>1, <1>2 DEF Nick!Handle, Nick!Fails
<1>5. NickTypes'
  BY <1>1, <1>2, <1>3, <1>4 DEF NickTypes
<1>6. Noticed'
  <2> SUFFICES ASSUME nickRow # Nameless, nick # nickRow, changedAt = version, nickErrors' = 0
               PROVE  \/ events' # <<>> /\ events'[Len(events')] = nick
                      \/ \E g \in Listeners : handlers'[g] = nickRow
    BY <1>2, <1>5 DEF Noticed, NickTypes
  <2>1. /\ nickErrors' = nickErrors /\ nickErrors = 0
        /\ handlers' = IF nickRow # Nameless /\ events[1] # nickRow
                       THEN [handlers EXCEPT ![h] = nickRow] ELSE handlers
    BY <1>1, <1>4
  <2>2. \/ events[Len(events)] = nick
        \/ \E g \in Listeners : handlers[g] = nickRow
    BY <2>1 DEF NickInv, Noticed
  <2>3. CASE \E g \in Listeners : handlers[g] = nickRow
    <3>1. PICK g \in Listeners : handlers[g] = nickRow
      BY <2>3
    <3>2. g # h
      BY <1>1, <1>2, <3>1
    <3> QED BY <1>1, <2>1, <3>1, <3>2
  <2>4. Len(events) \in Nat \ {0} /\ Len(Tail(events)) = Len(events) - 1
    BY <1>1, <1>2, EmptySeq, HeadTailProperties
  <2>5. CASE events[Len(events)] = nick /\ Len(events) = 1
    <3>1. handlers'[h] = nickRow
      BY <1>1, <2>1, <2>5
    <3> QED BY <3>1
  <2>6. CASE events[Len(events)] = nick /\ Len(events) > 1
    <3>1. Len(events') = Len(events) - 1 /\ Len(events') > 0
      BY <1>2, <2>4, <2>6
    <3>2. events'[Len(events')] = events[Len(events)]
      BY <1>1, <1>2, <2>4, <2>6, <3>1, HeadTailProperties
    <3>3. events' # <<>>
      BY <3>1
    <3> QED BY <2>6, <3>2, <3>3
  <2>7. Len(events) = 1 \/ Len(events) > 1
    BY <2>4
  <2> QED BY <2>2, <2>3, <2>5, <2>6, <2>7
<1> QED BY <1>5, <1>6 DEF NickInv

LEMMA PutBackKeeps ==
  ASSUME NickInv, NoJob \notin Names \cup {Nameless}, NEW h \in Listeners, Nick!PutBack(h)
  PROVE  NickInv'
<1>1. /\ NickTypes /\ handlers \in [Listeners -> Names \cup {Nameless, NoJob}]
      /\ mods \in [Jobs -> {NoJob} \cup ({"set", "save", "delete", "blank"} \X (Names \cup {Nameless}))]
  BY DEF NickInv, NickTypes
<1>2. handlers[h] # NoJob /\ handlers' = [handlers EXCEPT ![h] = NoJob]
      /\ UNCHANGED <<nickRow, mods, changes, version>>
  BY DEF Nick!PutBack
<1>3. handlers[h] \in Names \cup {Nameless} /\ handlers' \in [Listeners -> Names \cup {Nameless, NoJob}]
  BY <1>1, <1>2
<1>4. CASE Nick!SetNick(handlers[h]) /\ UNCHANGED nickErrors
  <2>1. \A g \in Listeners : handlers[g] = nickRow => handlers[h] = nickRow \/ handlers'[g] = nickRow
    BY <1>1, <1>2
  <2> QED BY <1>1, <1>2, <1>3, <1>4, <2>1, SetNickKeeps
<1>5. CASE Nick!Fails /\ UNCHANGED <<nick, events, changedAt>>
  BY <1>1, <1>2, <1>3, <1>5, NickFails
<1> QED BY <1>4, <1>5 DEF Nick!PutBack

LEMMA NickKeeps ==
  ASSUME NoJob \notin Names \cup {Nameless}, NickInv, [Nick!Next]_(Nick!vars) PROVE NickInv'
<1>1. ASSUME Nick!Next PROVE NickInv'
  BY <1>1, RenameKeeps, ForcenickKeeps, ModKeeps, HandleKeeps, PutBackKeeps DEF Nick!Next
<1>2. CASE UNCHANGED Nick!vars
  BY <1>2 DEF Nick!vars, NickInv, NickTypes, Noticed
<1> QED BY <1>1, <1>2

LEMMA NickHolds == ASSUME NoJob \notin Names \cup {Nameless}, NickInv PROVE Nick!LockHolds
<1> SUFFICES ASSUME Nick!Quiet, nickRow # Nameless, nick # nickRow, changedAt = version
             PROVE  nickErrors > 0
  BY DEF Nick!LockHolds
<1>1. events = <<>> /\ \A h \in Listeners : handlers[h] = NoJob
  BY DEF Nick!Quiet
<1>2. nickRow # NoJob
  BY DEF NickInv, NickTypes
<1> QED BY <1>1, <1>2 DEF NickInv, Noticed

NickWhenRun == focus = "nicknames" => NickInv

\* A locked nickname holds once everything has settled, for any members, moderators and
\* handlers: one that is not the locked one was there before the lock was written, or a
\* call failed (forcenick; OnGuildMemberUpdateNickname).
THEOREM LockHoldsAlways ==
    ASSUME NoJob \notin Names \cup {Nameless}
    PROVE  ServicesSpec => []LockHolds
<1>1. ServicesInit => NickWhenRun
  BY InitOfOne, NickInit DEF NickWhenRun
<1>2. NickWhenRun /\ [ServicesNext]_<<focus, From1, lockVars>> => NickWhenRun'
  BY StepOfOne, NickKeeps DEF NickWhenRun
<1>3. NickWhenRun => LockHolds
  BY NickHolds DEF NickWhenRun, LockHolds
<1> QED BY <1>1, <1>2, <1>3, PTL DEF ServicesSpec

-----------------------------------------------------------------------------
(***************************************************************************)
(* ChannelLocks.  While no lockdown and unlockdown overlap, what is        *)
(* locked down is in the list, or forgotten, or locked by a lockdown that  *)
(* has not written the list yet; and an unlockdown has each channel it     *)
(* read before it, among the failed, or open again.                        *)
(***************************************************************************)

\* The variables by name.
channels == s1
denied == s2
seen == s3
saved == s4
modlog == s5
lockJobs == s6
lockCommands == s7
lockErrors == s8
lockedDown == s9
forgotten == s10
overlapped == s11
USE DEF channels, denied, seen, saved, modlog, lockJobs, lockCommands, lockErrors, lockedDown,
        forgotten, overlapped

JobType ==
  [kind : Locks!Kinds, step : {"work", "copy", "point", "remove"}, todo : SUBSET Channels,
   done : SUBSET Channels, failed : SUBSET Channels, read : SUBSET Channels,
   old : Channels \cup {None}, new : Channels \cup {None}]

Lockdowns == {j \in Jobs : Locks!Runs(j, "lockdown")}
Unlockdowns == {j \in Jobs : Locks!Runs(j, "unlockdown")}

LockTypes ==
  /\ channels \subseteq Channels /\ saved \subseteq Channels /\ lockedDown \subseteq Channels /\ forgotten \subseteq Channels
  /\ overlapped \in BOOLEAN
  /\ lockJobs \in [Jobs -> JobType \cup {NoJob}]
  /\ \A j \in Jobs : lockJobs[j] # NoJob =>
       (lockJobs[j].step = "work" <=> lockJobs[j].kind \in {"lockdown", "unlockdown"})

Apart ==
  /\ Lockdowns = {} \/ Unlockdowns = {}
  /\ \A c \in lockedDown :
       c \in saved \cup forgotten \/ \E j \in Lockdowns : c \in lockJobs[j].done
  /\ \A j \in Unlockdowns :
       /\ lockJobs[j].done \cap lockedDown = {}
       /\ lockJobs[j].read \subseteq lockJobs[j].todo \cup lockJobs[j].done \cup lockJobs[j].failed

LockInv == LockTypes /\ (overlapped \/ Apart)

\* The lockCommands keep their kinds and what they have done.
SameJobs ==
  \A j \in Jobs :
    \/ lockJobs'[j] = lockJobs[j]
    \/ j \notin Lockdowns \cup Unlockdowns /\ j \notin Lockdowns' \cup Unlockdowns'

\* A step that locks nothing down and writes no list.
LEMMA OthersKeep ==
  ASSUME LockInv, LockTypes', SameJobs, lockedDown' \subseteq lockedDown,
         UNCHANGED <<saved, forgotten, overlapped>>
  PROVE  LockInv'
<1>1. /\ Lockdowns' = Lockdowns /\ Unlockdowns' = Unlockdowns
      /\ \A j \in Lockdowns \cup Unlockdowns : lockJobs'[j] = lockJobs[j]
  BY DEF SameJobs, Lockdowns, Unlockdowns, Locks!Runs
<1>2. ASSUME Apart PROVE Apart'
  <2>1. \A c \in lockedDown' :
          c \in saved' \cup forgotten' \/ \E j \in Lockdowns' : c \in lockJobs'[j].done
    BY <1>1, <1>2 DEF Apart
  <2>2. \A j \in Unlockdowns' :
          /\ lockJobs'[j].done \cap lockedDown' = {}
          /\ lockJobs'[j].read \subseteq lockJobs'[j].todo \cup lockJobs'[j].done \cup lockJobs'[j].failed
    BY <1>1, <1>2 DEF Apart
  <2> QED BY <1>1, <1>2, <2>1, <2>2 DEF Apart
<1> QED BY <1>2 DEF LockInv

LEMMA NewJobFields ==
  ASSUME NEW kind \in Locks!Kinds, NEW step \in {"work", "copy", "point", "remove"},
         NEW todo \in SUBSET Channels
  PROVE  /\ Locks!NewJob(kind, step, todo) \in JobType
         /\ Locks!NewJob(kind, step, todo).kind = kind
         /\ Locks!NewJob(kind, step, todo).step = step
         /\ Locks!NewJob(kind, step, todo).todo = todo
         /\ Locks!NewJob(kind, step, todo).done = {}
         /\ Locks!NewJob(kind, step, todo).failed = {}
         /\ Locks!NewJob(kind, step, todo).read = {}
BY DEF Locks!NewJob, JobType

LEMMA LockInit == ASSUME Locks!Init PROVE LockInv
BY DEF Locks!Init, LockInv, LockTypes, Apart, Lockdowns, Unlockdowns, Locks!Runs

\* lock, unlock, hide, reveal and what the gateway tells.
LEMMA OverwriteKeeps ==
  ASSUME LockInv, NEW c \in Channels,
         Locks!Sync(c) \/ Locks!Lock(c) \/ Locks!Unlock(c) \/ Locks!Hide(c) \/ Locks!Reveal(c)
  PROVE  LockInv'
<1>1. lockedDown' \subseteq lockedDown
  BY DEF Locks!Sync, Locks!Lock, Locks!Unlock, Locks!Hide, Locks!Reveal, Locks!LockChannel,
         Locks!UnlockChannel, Locks!HideChannel, Locks!UnhideChannel, Locks!SetOverwrite, Locks!ghosts
<1>2. UNCHANGED <<lockJobs, saved, forgotten, overlapped>>
  BY DEF Locks!Sync, Locks!Lock, Locks!Unlock, Locks!Hide, Locks!Reveal, Locks!ghosts, Locks!settings
<1>3. channels' = channels
  BY DEF Locks!Sync, Locks!Lock, Locks!Unlock, Locks!Hide, Locks!Reveal, Locks!LockChannel,
         Locks!UnlockChannel, Locks!HideChannel, Locks!UnhideChannel, Locks!SetOverwrite
<1>4. LockTypes' /\ SameJobs
  BY <1>1, <1>2, <1>3 DEF LockInv, LockTypes, SameJobs
<1> QED BY <1>1, <1>2, <1>4, OthersKeep

\* The steps of a nuke.
LEMMA NukeKeeps ==
  ASSUME LockInv, NoJob \notin JobType, NEW j \in Jobs,
         \/ \E c \in Channels, kind \in {"nuke", "softnuke"} : Locks!Nuke(j, c, kind)
         \/ \E c \in Channels : Locks!Copy(j, c)
         \/ Locks!CopyFails(j) \/ Locks!Point(j) \/ Locks!Remove(j)
  PROVE  LockInv'
<1>1. LockTypes /\ lockJobs \in [Jobs -> JobType \cup {NoJob}] /\ lockedDown \subseteq Channels
  BY DEF LockInv, LockTypes
<1>2. lockedDown' \subseteq lockedDown
  BY DEF Locks!Nuke, Locks!Copy, Locks!CopyFails, Locks!Point, Locks!Remove, Locks!HideChannel,
         Locks!SetOverwrite, Locks!ghosts
<1>3. UNCHANGED <<saved, forgotten, overlapped>>
  BY DEF Locks!Nuke, Locks!Copy, Locks!CopyFails, Locks!Point, Locks!Remove, Locks!ghosts, Locks!settings
<1>4. \A i \in Jobs \ {j} : lockJobs'[i] = lockJobs[i]
  BY <1>1 DEF Locks!Nuke, Locks!Copy, Locks!CopyFails, Locks!Point, Locks!Remove, Locks!End
<1>5. j \notin Lockdowns \cup Unlockdowns
  BY <1>1 DEF LockTypes, Lockdowns, Unlockdowns, Locks!Runs, Locks!At, Locks!Nuke, Locks!Copy,
              Locks!CopyFails, Locks!Point, Locks!Remove
<1> DEFINE Nuked == /\ lockJobs' \in [Jobs -> JobType \cup {NoJob}]
                    /\ lockJobs'[j] # NoJob => /\ lockJobs'[j].kind \in {"nuke", "softnuke"}
                                          /\ lockJobs'[j].step # "work"
<1>6. Nuked
  <2>1. ASSUME NEW c \in Channels, NEW kind \in {"nuke", "softnuke"}, Locks!Nuke(j, c, kind)
        PROVE  Nuked
    <3> DEFINE job == Locks!NewJob(kind, "copy", {}) r == [job EXCEPT !.old = c]
    <3>1. job \in JobType /\ job.kind = kind /\ job.step = "copy"
      BY NewJobFields DEF Locks!Kinds
    <3> HIDE DEF job
    <3>2. r \in JobType /\ r.kind = kind /\ r.step = "copy"
      BY <3>1 DEF JobType
    <3>3. lockJobs' = [lockJobs EXCEPT ![j] = r]
      BY <2>1 DEF Locks!Nuke, job
    <3> HIDE DEF r
    <3> QED BY <1>1, <3>2, <3>3
  <2>2. ASSUME lockJobs[j] # NoJob, lockJobs[j].step # "work",
               NEW s \in {"point", "remove"},
               \/ \E c \in Channels : lockJobs' = [lockJobs EXCEPT ![j].step = s, ![j].new = c]
               \/ lockJobs' = [lockJobs EXCEPT ![j].step = s]
        PROVE  Nuked
    <3>1. lockJobs[j] \in JobType /\ lockJobs[j].kind \in {"nuke", "softnuke"}
      BY <1>1, <2>2 DEF LockTypes, JobType, Locks!Kinds
    <3>2. /\ lockJobs'[j] \in JobType /\ lockJobs'[j].kind = lockJobs[j].kind /\ lockJobs'[j].step = s
      BY <1>1, <2>2, <3>1 DEF JobType
    <3>3. lockJobs' \in [Jobs -> JobType \cup {NoJob}]
      BY <1>1, <1>4, <2>2, <3>2
    <3> QED BY <2>2, <3>1, <3>2, <3>3
  <2>3. CASE lockJobs' = [lockJobs EXCEPT ![j] = NoJob]
    BY <1>1, <2>3
  <2>4. ASSUME NEW c \in Channels, Locks!Copy(j, c) PROVE Nuked
    BY <2>2, <2>4 DEF Locks!Copy, Locks!At
  <2>5. CASE Locks!Point(j)
    BY <2>2, <2>5, <1>1 DEF Locks!Point, Locks!At
  <2> QED BY <2>1, <2>3, <2>4, <2>5 DEF Locks!CopyFails, Locks!Remove, Locks!End
<1>7. LockTypes'
  <2>1. channels' \subseteq Channels
    BY <1>1 DEF LockTypes, Locks!Nuke, Locks!Copy, Locks!CopyFails, Locks!Point, Locks!Remove,
                Locks!HideChannel, Locks!SetOverwrite, Locks!discord
  <2> QED BY <1>1, <1>2, <1>3, <1>4, <1>6, <2>1 DEF LockTypes
<1>8. j \notin Lockdowns' \cup Unlockdowns'
  BY <1>6 DEF Lockdowns, Unlockdowns, Locks!Runs
<1>9. SameJobs
  BY <1>4, <1>5, <1>8 DEF SameJobs
<1> QED BY <1>2, <1>3, <1>7, <1>9, OthersKeep

\* A new command at work: it has done nothing yet.
LEMMA BegunKeeps ==
  ASSUME LockInv, NEW j \in Jobs, NEW r \in JobType, lockJobs[j] = NoJob, lockJobs' = [lockJobs EXCEPT ![j] = r],
         NoJob \notin JobType, r.step = "work", r.kind \in {"lockdown", "unlockdown"},
         r.done = {}, r.failed = {}, r.read \subseteq r.todo,
         UNCHANGED <<channels, saved, forgotten, lockedDown>>,
         overlapped' = (overlapped \/ \/ r.kind = "lockdown" /\ Unlockdowns # {}
                                      \/ r.kind = "unlockdown" /\ Lockdowns # {})
  PROVE  LockInv'
<1>1. LockTypes /\ lockJobs \in [Jobs -> JobType \cup {NoJob}] /\ overlapped \in BOOLEAN
  BY DEF LockInv, LockTypes
<1>2. \A i \in Jobs \ {j} : lockJobs'[i] = lockJobs[i]
  BY <1>1
<1>3. lockJobs'[j] = r /\ lockJobs'[j] # NoJob
  BY <1>1
<1>4. LockTypes'
  BY <1>1, <1>2, <1>3 DEF LockTypes
<1>5. /\ Lockdowns' = Lockdowns \cup (IF r.kind = "lockdown" THEN {j} ELSE {})
      /\ Unlockdowns' = Unlockdowns \cup (IF r.kind = "unlockdown" THEN {j} ELSE {})
      /\ j \notin Lockdowns /\ j \notin Unlockdowns
  BY <1>1, <1>2, <1>3 DEF Lockdowns, Unlockdowns, Locks!Runs
<1>6. ASSUME ~overlapped' PROVE Apart'
  <2>1. Apart
    BY <1>6 DEF LockInv
  <2>2. Lockdowns' = {} \/ Unlockdowns' = {}
    BY <1>5, <1>6, <2>1 DEF Apart
  <2>3. \A c \in lockedDown' :
          c \in saved' \cup forgotten' \/ \E i \in Lockdowns' : c \in lockJobs'[i].done
    <3> TAKE c \in lockedDown'
    <3>1. CASE c \in saved \cup forgotten
      BY <3>1
    <3>2. ASSUME NEW i \in Lockdowns, c \in lockJobs[i].done
          PROVE  \E k \in Lockdowns' : c \in lockJobs'[k].done
      <4>1. i # j /\ i \in Jobs /\ i \in Lockdowns'
        BY <1>5 DEF Lockdowns
      <4> QED BY <1>2, <3>2, <4>1
    <3> QED BY <2>1, <3>1, <3>2 DEF Apart
  <2>4. ASSUME NEW i \in Unlockdowns'
        PROVE  /\ lockJobs'[i].done \cap lockedDown' = {}
               /\ lockJobs'[i].read \subseteq lockJobs'[i].todo \cup lockJobs'[i].done \cup lockJobs'[i].failed
    <3>1. CASE i = j
      BY <1>3, <3>1
    <3>2. CASE i # j
      <4>1. i \in Unlockdowns /\ lockJobs'[i] = lockJobs[i]
        BY <1>2, <1>5, <2>4, <3>2 DEF Unlockdowns
      <4> QED BY <2>1, <4>1 DEF Apart
    <3> QED BY <3>1, <3>2
  <2> QED BY <2>2, <2>3, <2>4 DEF Apart
<1>7. overlapped' \in BOOLEAN
  BY <1>4 DEF LockTypes
<1> QED BY <1>4, <1>6, <1>7 DEF LockInv

LEMMA BeginsKeep ==
  ASSUME LockInv, NoJob \notin JobType, NEW j \in Jobs, Locks!Lockdown(j) \/ Locks!Unlockdown(j)
  PROVE  LockInv'
<1>1. LockTypes /\ channels \subseteq Channels /\ saved \subseteq Channels
  BY DEF LockInv, LockTypes
<1>2. UNCHANGED <<channels, saved, forgotten, lockedDown>> /\ lockJobs[j] = NoJob
  BY DEF Locks!Lockdown, Locks!Unlockdown, Locks!settings, Locks!discord
<1>3. CASE Locks!Lockdown(j)
  <2> DEFINE todo == {c \in channels : ~Locks!IsChannelLocked(c)}
             r == Locks!NewJob("lockdown", "work", todo)
  <2>1. todo \in SUBSET Channels
    BY <1>1
  <2>2. overlapped' = (overlapped \/ Unlockdowns # {})
    BY <1>3 DEF Locks!Lockdown, Locks!Overlaps, Unlockdowns
  <2>3. lockJobs' = [lockJobs EXCEPT ![j] = r]
    BY <1>3 DEF Locks!Lockdown
  <2> HIDE DEF todo
  <2>4. r \in JobType /\ r.kind = "lockdown" /\ r.step = "work" /\ r.done = {} /\ r.failed = {}
        /\ r.read = {}
    BY <2>1, NewJobFields DEF Locks!Kinds
  <2> HIDE DEF r
  <2> QED BY <1>2, <2>2, <2>3, <2>4, BegunKeeps
<1>4. CASE Locks!Unlockdown(j)
  <2>1. PICK read \in {saved, {}} :
          lockJobs' = [lockJobs EXCEPT ![j] =
            [Locks!NewJob("unlockdown", "work",
                          IF read # {} THEN read ELSE {c \in channels : Locks!IsChannelLocked(c)})
             EXCEPT !.read = read]]
    BY <1>4 DEF Locks!Unlockdown
  <2> DEFINE todo == IF read # {} THEN read ELSE {c \in channels : Locks!IsChannelLocked(c)}
             job == Locks!NewJob("unlockdown", "work", todo)
             r == [job EXCEPT !.read = read]
  <2>2. todo \in SUBSET Channels /\ read \subseteq todo /\ read \in SUBSET Channels
    BY <1>1
  <2>3. lockJobs' = [lockJobs EXCEPT ![j] = r]
    BY <2>1
  <2>4. overlapped' = (overlapped \/ Lockdowns # {})
    BY <1>4 DEF Locks!Unlockdown, Locks!Overlaps, Lockdowns
  <2> HIDE DEF todo
  <2>5. job \in JobType /\ job.kind = "unlockdown" /\ job.step = "work" /\ job.done = {}
        /\ job.failed = {} /\ job.todo = todo
    BY <2>2, NewJobFields DEF Locks!Kinds
  <2> HIDE DEF job
  <2>6. r \in JobType /\ r.kind = "unlockdown" /\ r.step = "work" /\ r.done = {} /\ r.failed = {}
        /\ r.read = read /\ r.todo = todo
    BY <2>2, <2>5 DEF JobType
  <2> HIDE DEF r
  <2> QED BY <1>2, <2>2, <2>3, <2>4, <2>6, BegunKeeps
<1> QED BY <1>3, <1>4

\* A command at work on one channel, or at its end.
LEMMA Working ==
  ASSUME LockInv, NoJob \notin JobType, NEW j \in Jobs, NEW kind \in {"lockdown", "unlockdown"},
         Locks!Runs(j, kind)
  PROVE  lockJobs[j] \in JobType /\ lockJobs[j].kind = kind /\ lockJobs[j].step = "work" /\ lockJobs[j] # NoJob
BY DEF LockInv, LockTypes, Locks!Runs

\* One channel done.
LEMMA WorkKeepsTypes ==
  ASSUME LockInv, NoJob \notin JobType, NEW j \in Jobs, lockJobs[j] \in JobType, lockJobs[j].step = "work",
         NEW c \in Channels,
         \/ lockJobs' = [lockJobs EXCEPT ![j].todo = @ \ {c}, ![j].done = @ \cup {c}]
         \/ lockJobs' = [lockJobs EXCEPT ![j].todo = @ \ {c}, ![j].failed = @ \cup {c}]
         \/ lockJobs' = [lockJobs EXCEPT ![j].todo = @ \ {c}],
         lockedDown' \subseteq lockedDown \cup {c}, UNCHANGED <<channels, saved, forgotten, overlapped>>
  PROVE  /\ LockTypes' /\ lockJobs'[j].todo = lockJobs[j].todo \ {c} /\ lockJobs'[j].read = lockJobs[j].read
         /\ lockJobs[j].done \subseteq lockJobs'[j].done /\ lockJobs[j].failed \subseteq lockJobs'[j].failed
         /\ \A i \in Jobs \ {j} : lockJobs'[i] = lockJobs[i]
         /\ Lockdowns' = Lockdowns /\ Unlockdowns' = Unlockdowns
<1>1. LockTypes /\ lockJobs \in [Jobs -> JobType \cup {NoJob}]
  BY DEF LockInv, LockTypes
<1>2. /\ lockJobs'[j] \in JobType /\ lockJobs'[j].kind = lockJobs[j].kind /\ lockJobs'[j].step = "work"
      /\ lockJobs'[j].todo = lockJobs[j].todo \ {c} /\ lockJobs'[j].read = lockJobs[j].read
      /\ lockJobs[j].done \subseteq lockJobs'[j].done /\ lockJobs[j].failed \subseteq lockJobs'[j].failed
  BY <1>1 DEF JobType
<1>3. \A i \in Jobs \ {j} : lockJobs'[i] = lockJobs[i]
  BY <1>1
<1>4. lockJobs' \in [Jobs -> JobType \cup {NoJob}]
  BY <1>1, <1>2, <1>3
<1>5. LockTypes'
  BY <1>1, <1>2, <1>3, <1>4 DEF LockTypes
<1>6. Lockdowns' = Lockdowns /\ Unlockdowns' = Unlockdowns
  BY <1>2, <1>3 DEF Lockdowns, Unlockdowns, Locks!Runs
<1> QED BY <1>2, <1>3, <1>5, <1>6

LEMMA LockOneKeeps ==
  ASSUME LockInv, NoJob \notin JobType, NEW j \in Jobs, NEW c \in Channels, Locks!LockOne(j, c)
  PROVE  LockInv'
<1>1. j \in Lockdowns /\ lockJobs[j] \in JobType /\ lockJobs[j].step = "work"
  BY Working DEF Locks!LockOne, Lockdowns
<1>2. UNCHANGED <<channels, saved, forgotten, overlapped>>
  BY DEF Locks!LockOne, Locks!settings
<1>3. \/ /\ lockJobs' = [lockJobs EXCEPT ![j].todo = @ \ {c}, ![j].done = @ \cup {c}]
         /\ lockedDown' = lockedDown \cup {c}
      \/ /\ lockJobs' = [lockJobs EXCEPT ![j].todo = @ \ {c}]
         /\ lockedDown' = lockedDown
  BY DEF Locks!LockOne
<1>4. lockedDown' \subseteq lockedDown \cup {c}
  BY <1>3
<1>5. /\ LockTypes' /\ lockJobs[j].done \subseteq lockJobs'[j].done
      /\ \A i \in Jobs \ {j} : lockJobs'[i] = lockJobs[i]
      /\ Lockdowns' = Lockdowns /\ Unlockdowns' = Unlockdowns
  BY <1>1, <1>2, <1>3, <1>4, WorkKeepsTypes
<1>6. c \in lockedDown' => c \in lockedDown \/ c \in lockJobs'[j].done
  <2>1. lockJobs \in [Jobs -> JobType \cup {NoJob}]
    BY DEF LockInv, LockTypes
  <2>2. CASE lockJobs' = [lockJobs EXCEPT ![j].todo = @ \ {c}, ![j].done = @ \cup {c}]
    <3>1. lockJobs'[j].done = lockJobs[j].done \cup {c}
      BY <1>1, <2>1, <2>2 DEF JobType
    <3> QED BY <3>1
  <2> QED BY <1>3, <2>2
<1>7. ASSUME Apart PROVE Apart'
  <2>1. Unlockdowns = {}
    BY <1>1, <1>7 DEF Apart
  <2>2. ASSUME NEW d \in lockedDown'
        PROVE  d \in saved' \cup forgotten' \/ \E i \in Lockdowns' : d \in lockJobs'[i].done
    <3>1. CASE d \in lockedDown
      <4>1. CASE d \in saved \cup forgotten
        BY <1>2, <4>1
      <4>2. ASSUME NEW i \in Lockdowns, d \in lockJobs[i].done
            PROVE  \E k \in Lockdowns' : d \in lockJobs'[k].done
        <5>1. lockJobs[i].done \subseteq lockJobs'[i].done
          BY <1>5 DEF Lockdowns
        <5> QED BY <1>5, <4>2, <5>1
      <4> QED BY <1>7, <3>1, <4>1, <4>2 DEF Apart
    <3>2. CASE d \notin lockedDown
      <4>1. d = c
        BY <1>4, <2>2, <3>2
      <4> QED BY <1>1, <1>5, <1>6, <2>2, <3>2, <4>1
    <3> QED BY <3>1, <3>2
  <2> QED BY <1>5, <2>1, <2>2 DEF Apart
<1> QED BY <1>2, <1>5, <1>7 DEF LockInv

LEMMA UnlockOneKeeps ==
  ASSUME LockInv, NoJob \notin JobType, NEW j \in Jobs, NEW c \in Channels, Locks!UnlockOne(j, c)
  PROVE  LockInv'
<1>1. j \in Unlockdowns /\ lockJobs[j] \in JobType /\ lockJobs[j].step = "work"
      /\ lockJobs \in [Jobs -> JobType \cup {NoJob}]
  BY Working DEF Locks!UnlockOne, Unlockdowns, LockInv, LockTypes
<1>2. UNCHANGED <<channels, saved, forgotten, overlapped>>
  BY DEF Locks!UnlockOne, Locks!settings, Locks!discord, Locks!UnlockChannel, Locks!SetOverwrite
<1>3. \/ /\ lockJobs' = [lockJobs EXCEPT ![j].todo = @ \ {c}, ![j].done = @ \cup {c}]
         /\ lockedDown' = lockedDown \ {c}
      \/ /\ lockJobs' = [lockJobs EXCEPT ![j].todo = @ \ {c}, ![j].failed = @ \cup {c}]
         /\ lockedDown' = lockedDown
  BY DEF Locks!UnlockOne, Locks!UnlockChannel, Locks!SetOverwrite
<1>4. lockedDown' \subseteq lockedDown
  BY <1>3
<1>5. /\ LockTypes' /\ lockJobs'[j].todo = lockJobs[j].todo \ {c} /\ lockJobs'[j].read = lockJobs[j].read
      /\ lockJobs[j].done \subseteq lockJobs'[j].done /\ lockJobs[j].failed \subseteq lockJobs'[j].failed
      /\ \A i \in Jobs \ {j} : lockJobs'[i] = lockJobs[i]
      /\ Lockdowns' = Lockdowns /\ Unlockdowns' = Unlockdowns
  BY <1>1, <1>2, <1>3, <1>4, WorkKeepsTypes
<1>6. \/ lockJobs'[j].done = lockJobs[j].done \cup {c} /\ lockedDown' = lockedDown \ {c}
      \/ /\ lockJobs'[j].done = lockJobs[j].done /\ lockJobs'[j].failed = lockJobs[j].failed \cup {c}
         /\ lockedDown' = lockedDown
  <2>1. CASE lockJobs' = [lockJobs EXCEPT ![j].todo = @ \ {c}, ![j].done = @ \cup {c}]
             /\ lockedDown' = lockedDown \ {c}
    BY <1>1, <2>1 DEF JobType
  <2>2. CASE lockJobs' = [lockJobs EXCEPT ![j].todo = @ \ {c}, ![j].failed = @ \cup {c}]
             /\ lockedDown' = lockedDown
    BY <1>1, <2>2 DEF JobType
  <2> QED BY <1>3, <2>1, <2>2
<1>7. ASSUME Apart PROVE Apart'
  <2>1. Lockdowns = {}
    BY <1>1, <1>7 DEF Apart
  <2>2. \A d \in lockedDown' : d \in saved' \cup forgotten'
    BY <1>2, <1>4, <1>7, <2>1 DEF Apart
  <2>3. ASSUME NEW i \in Unlockdowns'
        PROVE  /\ lockJobs'[i].done \cap lockedDown' = {}
               /\ lockJobs'[i].read \subseteq lockJobs'[i].todo \cup lockJobs'[i].done \cup lockJobs'[i].failed
    <3>1. i \in Unlockdowns /\ i \in Jobs
      BY <1>5, <2>3 DEF Unlockdowns
    <3>2. /\ lockJobs[i].done \cap lockedDown = {}
          /\ lockJobs[i].read \subseteq lockJobs[i].todo \cup lockJobs[i].done \cup lockJobs[i].failed
      BY <1>7, <3>1 DEF Apart
    <3>3. CASE i # j
      BY <1>4, <1>5, <3>1, <3>2, <3>3
    <3>4. CASE i = j
      BY <1>5, <1>6, <3>2, <3>4
    <3> QED BY <3>3, <3>4
  <2> QED BY <1>5, <2>1, <2>2, <2>3 DEF Apart
<1> QED BY <1>2, <1>5, <1>7 DEF LockInv

\* A command ends.
LEMMA EndKeepsTypes ==
  ASSUME LockInv, NEW j \in Jobs, Locks!End(j), saved' \subseteq Channels, forgotten' \subseteq Channels,
         UNCHANGED <<channels, lockedDown, overlapped>>
  PROVE  /\ LockTypes' /\ \A i \in Jobs \ {j} : lockJobs'[i] = lockJobs[i]
         /\ Lockdowns' = Lockdowns \ {j} /\ Unlockdowns' = Unlockdowns \ {j}
<1>1. LockTypes /\ lockJobs \in [Jobs -> JobType \cup {NoJob}]
  BY DEF LockInv, LockTypes
<1>2. lockJobs'[j] = NoJob /\ (\A i \in Jobs \ {j} : lockJobs'[i] = lockJobs[i])
      /\ lockJobs' \in [Jobs -> JobType \cup {NoJob}]
  BY <1>1 DEF Locks!End
<1>3. LockTypes'
  BY <1>1, <1>2 DEF LockTypes
<1> QED BY <1>2, <1>3 DEF Lockdowns, Unlockdowns, Locks!Runs

\* The list of a lockdown takes the place of an older one.
LEMMA LockedownKeeps ==
  ASSUME LockInv, NoJob \notin JobType, NEW j \in Jobs, Locks!Lockedown(j)
  PROVE  LockInv'
<1> DEFINE done == lockJobs[j].done
<1>1. /\ j \in Lockdowns /\ done \subseteq Channels
      /\ saved \subseteq Channels /\ forgotten \subseteq Channels
  BY Working DEF Locks!Lockedown, Lockdowns, JobType, LockInv, LockTypes
<1>2. UNCHANGED <<channels, lockedDown, overlapped>> /\ Locks!End(j)
  BY DEF Locks!Lockedown, Locks!discord
<1>3. saved' \cup forgotten' \subseteq Channels /\ saved \cup forgotten \cup done \subseteq saved' \cup forgotten'
  BY <1>1 DEF Locks!Lockedown
<1>4. /\ LockTypes' /\ \A i \in Jobs \ {j} : lockJobs'[i] = lockJobs[i]
      /\ Lockdowns' = Lockdowns \ {j} /\ Unlockdowns' = Unlockdowns \ {j}
  BY <1>2, <1>3, EndKeepsTypes
<1>5. ASSUME Apart PROVE Apart'
  <2>1. Unlockdowns = {}
    BY <1>1, <1>5 DEF Apart
  <2>2. ASSUME NEW d \in lockedDown'
        PROVE  d \in saved' \cup forgotten' \/ \E i \in Lockdowns' : d \in lockJobs'[i].done
    <3>1. CASE d \in saved \cup forgotten
      BY <1>3, <3>1
    <3>2. ASSUME NEW i \in Lockdowns, d \in lockJobs[i].done
          PROVE  d \in saved' \cup forgotten' \/ \E k \in Lockdowns' : d \in lockJobs'[k].done
      <4>1. CASE i = j
        BY <1>3, <3>2, <4>1
      <4>2. CASE i # j
        <5>1. i \in Lockdowns' /\ lockJobs'[i] = lockJobs[i]
          BY <1>4, <3>2, <4>2 DEF Lockdowns
        <5> QED BY <3>2, <5>1
      <4> QED BY <4>1, <4>2
    <3> QED BY <1>2, <1>5, <2>2, <3>1, <3>2 DEF Apart
  <2> QED BY <1>4, <2>1, <2>2 DEF Apart
<1> QED BY <1>2, <1>4, <1>5 DEF LockInv

\* What an unlockdown read was opened, or failed and stays in the list.
LEMMA UnlockeddownKeeps ==
  ASSUME LockInv, NoJob \notin JobType, NEW j \in Jobs, Locks!Unlockeddown(j)
  PROVE  LockInv'
<1>1. /\ j \in Unlockdowns /\ lockJobs[j] \in JobType /\ lockJobs[j].todo = {}
      /\ saved \subseteq Channels /\ forgotten \subseteq Channels
  BY Working DEF Locks!Unlockeddown, Unlockdowns, LockInv, LockTypes
<1>2. lockJobs[j].failed \subseteq Channels /\ lockJobs[j].read \subseteq Channels
  BY <1>1 DEF JobType
<1>3. UNCHANGED <<channels, lockedDown, overlapped>> /\ Locks!End(j)
  BY DEF Locks!Unlockeddown, Locks!discord
<1>4. \/ /\ saved' = IF lockJobs[j].read = {} THEN {} ELSE lockJobs[j].failed
         /\ forgotten' = forgotten \cup (saved \ lockJobs[j].read)
      \/ saved' = saved /\ forgotten' = forgotten
  BY DEF Locks!Unlockeddown
<1>5. saved' \subseteq Channels /\ forgotten' \subseteq Channels
  BY <1>1, <1>2, <1>4
<1>6. /\ LockTypes' /\ \A i \in Jobs \ {j} : lockJobs'[i] = lockJobs[i]
      /\ Lockdowns' = Lockdowns \ {j} /\ Unlockdowns' = Unlockdowns \ {j}
  BY <1>3, <1>5, EndKeepsTypes
<1>7. ASSUME Apart PROVE Apart'
  <2>1. Lockdowns = {} /\ lockJobs[j].done \cap lockedDown = {}
        /\ lockJobs[j].read \subseteq lockJobs[j].done \cup lockJobs[j].failed
    BY <1>1, <1>7 DEF Apart
  <2>2. ASSUME NEW d \in lockedDown' PROVE d \in saved' \cup forgotten'
    <3>1. d \in lockedDown /\ d \in saved \cup forgotten
      BY <1>3, <1>7, <2>1, <2>2 DEF Apart
    <3>2. d \in lockJobs[j].read => d \in lockJobs[j].failed
      BY <2>1, <3>1
    <3> QED BY <1>4, <3>1, <3>2
  <2>3. ASSUME NEW i \in Unlockdowns'
        PROVE  /\ lockJobs'[i].done \cap lockedDown' = {}
               /\ lockJobs'[i].read \subseteq lockJobs'[i].todo \cup lockJobs'[i].done \cup lockJobs'[i].failed
    <3>1. i \in Unlockdowns /\ lockJobs'[i] = lockJobs[i]
      BY <1>6, <2>3 DEF Unlockdowns
    <3> QED BY <1>3, <1>7, <3>1 DEF Apart
  <2> QED BY <1>6, <2>1, <2>2, <2>3 DEF Apart
<1> QED BY <1>3, <1>6, <1>7 DEF LockInv

LEMMA LockKeeps ==
  ASSUME NoJob \notin JobType, LockInv, [Locks!Next]_(Locks!vars) PROVE LockInv'
<1>1. ASSUME Locks!Next PROVE LockInv'
  BY <1>1, OverwriteKeeps, NukeKeeps, BeginsKeep, LockOneKeeps, UnlockOneKeeps, LockedownKeeps,
     UnlockeddownKeeps DEF Locks!Next
<1>2. ASSUME UNCHANGED Locks!vars PROVE LockInv'
  <2>1. UNCHANGED <<channels, saved, lockJobs, lockedDown, forgotten, overlapped>>
    BY <1>2 DEF Locks!vars, Locks!discord, Locks!settings, Locks!ghosts
  <2>2. LockTypes' /\ SameJobs
    BY <1>2, <2>1 DEF LockInv, LockTypes, SameJobs
  <2> QED BY <1>2, <2>1, <2>2, OthersKeep
<1> QED BY <1>1, <1>2

LEMMA LockIsRemembered == ASSUME LockInv PROVE Locks!LockdownIsRemembered
BY DEF LockInv, LockTypes, Apart, Lockdowns, Locks!LockdownIsRemembered, Locks!InHand

LockWhenRun == focus = "channel locks" => LockInv

\* A lockdown is remembered, for any channels and any number of lockCommands: what it closed is
\* in the list, or in the hands of a command, or known to be forgotten, as long as no
\* lockdown and unlockdown overlap (lockCommands/moderation/lock.go).
THEOREM LockdownIsRememberedAlways ==
    ASSUME NoJob \notin JobType
    PROVE  ServicesSpec => []LockdownIsRemembered
<1>1. ServicesInit => LockWhenRun
  BY InitOfOne, LockInit DEF LockWhenRun
<1>2. LockWhenRun /\ [ServicesNext]_<<focus, From1, lockVars>> => LockWhenRun'
  BY StepOfOne, LockKeeps DEF LockWhenRun
<1>3. LockWhenRun => LockdownIsRemembered
  BY LockIsRemembered DEF LockWhenRun, LockdownIsRemembered
<1> QED BY <1>1, <1>2, <1>3, PTL DEF ServicesSpec

-----------------------------------------------------------------------------
(***************************************************************************)
(* Cooldowns.  Unless a late failure gave one back, the cooldown taken     *)
(* last is in the table or over.                                           *)
(***************************************************************************)

\* The variables by name.
now == s1
entry == s2
runs == s3
latest == s4
wiped == s5
repeated == s6
USE DEF now, entry, runs, latest, wiped, repeated

CoolInv ==
  /\ now \in Nat
  /\ latest # Never => latest.at \in Nat
  /\ repeated => wiped
  /\ ~wiped /\ latest # Never =>
       \/ entry # Never /\ entry = latest.at + Cooldown
       \/ now >= latest.at + Cooldown

LEMMA CoolKeeps ==
  ASSUME Cooldown \in Nat, Never \notin Nat, CoolInv, [Cool!Next]_(Cool!vars)
  PROVE  CoolInv'
<1>1. CASE Cool!Tick
  BY <1>1 DEF Cool!Tick, CoolInv
<1>2. CASE Cool!CleanCooldowns
  BY <1>2 DEF Cool!CleanCooldowns, CoolInv
<1>3. ASSUME NEW r \in Runners, Cool!Execute(r) PROVE CoolInv'
  <2> DEFINE taken == [by |-> r, at |-> now]
  <2>1. taken.at = now /\ latest' = taken
    BY <1>3 DEF Cool!Execute, Cool!Begins
  <2> HIDE DEF taken
  <2>2. /\ entry' = now + Cooldown /\ now' = now /\ wiped' = wiped
        /\ repeated' = (repeated \/ (latest # Never /\ now < latest.at + Cooldown))
        /\ entry # Never => entry <= now
    BY <1>3 DEF Cool!Execute, Cool!Begins
  <2>3. repeated' => wiped
    <3> DEFINE a == latest.at
    <3>1. ASSUME latest # Never, ~wiped PROVE a \in Nat /\ now \in Nat /\ now >= a + Cooldown
      BY <2>2, <3>1 DEF CoolInv
    <3>2. ASSUME latest # Never, ~wiped PROVE ~(now < a + Cooldown)
      <4> HIDE DEF a
      <4> QED BY <3>1, <3>2
    <3>3. repeated => wiped
      BY DEF CoolInv
    <3> QED BY <2>2, <3>2, <3>3
  <2>4. entry' \in Nat /\ entry' # Never
    BY <2>2 DEF CoolInv
  <2> QED BY <2>1, <2>2, <2>3, <2>4 DEF CoolInv
<1>4. ASSUME NEW r \in Runners, Cool!Succeed(r) PROVE CoolInv'
  BY <1>4 DEF Cool!Succeed, CoolInv
<1>5. ASSUME NEW r \in Runners, Cool!Fail(r) PROVE CoolInv'
  <2> DEFINE own == latest = [by |-> r, at |-> runs[r]]
  <2>1. /\ latest' = (IF own THEN Never ELSE latest)
        /\ wiped' = (wiped \/ (~own /\ entry # Never /\ entry > now))
        /\ now' = now /\ repeated' = repeated
    BY <1>5 DEF Cool!Fail
  <2> HIDE DEF own
  <2>2. now' \in Nat /\ (repeated' => wiped')
    BY <2>1 DEF CoolInv
  <2>3. latest' # Never => latest' = latest /\ latest'.at \in Nat
    BY <2>1 DEF CoolInv
  <2>4. ASSUME ~wiped', latest' # Never PROVE now' >= latest'.at + Cooldown
    <3>1. ~wiped /\ latest' = latest /\ latest # Never /\ (entry # Never => ~(entry > now))
      BY <2>1, <2>4
    <3> DEFINE a == latest.at
    <3>2. a \in Nat /\ now \in Nat
          /\ ((entry # Never /\ entry = a + Cooldown) \/ now >= a + Cooldown)
      BY <3>1 DEF CoolInv
    <3>3. now >= a + Cooldown
      <4> HIDE DEF a
      <4> QED BY <3>1, <3>2
    <3> QED BY <2>1, <3>1, <3>3
  <2> QED BY <2>2, <2>3, <2>4 DEF CoolInv
<1>6. CASE UNCHANGED Cool!vars
  BY <1>6 DEF Cool!vars, CoolInv
<1> QED BY <1>1, <1>2, <1>3, <1>4, <1>5, <1>6 DEF Cool!Next

\* No command begins within the cooldown of another that did not fail, for any cooldown and
\* any number of goroutines, unless a later failure had given the cooldown back
\* (CooldownManager; OnMessageCreate).
THEOREM CooldownHoldsAlways ==
    ASSUME Cooldown \in Nat, Never \notin Nat
    PROVE  Cool!Spec => []Cool!CooldownHolds
<1>1. Cool!Init => CoolInv
  BY DEF Cool!Init, CoolInv
<1>2. CoolInv /\ [Cool!Next]_(Cool!vars) => CoolInv'
  BY CoolKeeps
<1>3. CoolInv => Cool!CooldownHolds
  BY DEF CoolInv, Cool!CooldownHolds
<1> QED BY <1>1, <1>2, <1>3, PTL DEF Cool!Spec

-----------------------------------------------------------------------------
(***************************************************************************)
(* RateLimiter.  A user is forgotten only when what he was told is over:   *)
(* the penalty ends at most MaxPenalty after his last call.  A burst and   *)
(* one more call span half a window at least, be there a penalty between   *)
(* them or not, so two bursts and one more call span a window.             *)
(***************************************************************************)

\* The variables by name.
user == s2
calls == s3
admitted == s4
toldOf == s5
early == s6
USE DEF user, calls, admitted, toldOf, early

\* What user holds; Never is no such record.
UserFields == {"timestamps", "violations", "cooldownUntil", "lastViolation", "lastActivity",
               "warnedUntil", "spamStrikes"}

PenaltiesAssumed ==
  /\ MaxPenalty \in Nat /\ IdleAfter \in Nat /\ MaxPenalty <= IdleAfter
  /\ Len(Penalties) \in Nat \ {0}
  /\ \A i \in 1..Len(Penalties) : Penalties[i] \in 0..MaxPenalty
  /\ DOMAIN Never # UserFields

RateInv ==
  /\ now \in Nat /\ toldOf \in Nat /\ ~early
  /\ user = Never => toldOf <= now
  /\ user # Never =>
       /\ DOMAIN user = UserFields
       /\ user.cooldownUntil \in Nat /\ user.lastActivity \in Nat
       /\ user.violations \in Nat /\ user.spamStrikes \in Nat
       /\ user.lastActivity <= now
       /\ user.cooldownUntil <= user.lastActivity + MaxPenalty
       /\ toldOf <= now \/ toldOf <= user.cooldownUntil

LEMMA RateKeeps ==
  ASSUME PenaltiesAssumed, RateInv, [Rate!Next]_(Rate!vars) PROVE RateInv'
<1>1. CASE Rate!Tick
  <2>1. now' = now + 1 /\ UNCHANGED <<user, toldOf, early>>
    BY <1>1 DEF Rate!Tick
  <2> QED BY <2>1 DEF RateInv, PenaltiesAssumed
<1>2. CASE Rate!CleanUsers
  <2>1. /\ user # Never /\ now - user.lastActivity > IdleAfter /\ user' = Never
        /\ UNCHANGED <<now, toldOf, early>>
    BY <1>2 DEF Rate!CleanUsers
  <2>2. toldOf <= now
    BY <2>1 DEF RateInv, PenaltiesAssumed
  <2> QED BY <2>1, <2>2 DEF RateInv
<1>3. CASE Rate!CheckLimit /\ Rate!FirstCall
  <2> DEFINE u == Rate!NewUser
  <2>1. /\ u.cooldownUntil = 0 /\ u.lastActivity = now /\ u.violations = 0 /\ u.spamStrikes = 0
        /\ DOMAIN u = UserFields
    BY DEF Rate!NewUser, UserFields
  <2> HIDE DEF u
  <2>2. user = Never /\ user' = u /\ now' = now /\ toldOf' = toldOf
        /\ early' = (early \/ now < toldOf)
    BY <1>3 DEF Rate!CheckLimit, Rate!FirstCall, Rate!Admit, u
  <2>3. ~(now < toldOf) /\ ~early
    BY <2>2 DEF RateInv
  <2>4. ~early'
    BY <2>2, <2>3, Zenon
  <2> QED BY <2>1, <2>2, <2>4 DEF RateInv, PenaltiesAssumed
<1>4. CASE Rate!CheckLimit /\ Rate!CallInPenalty
  <2> DEFINE until == Rate!Least(user.cooldownUntil + user.spamStrikes + 1, now + MaxPenalty)
             warned == IF now > user.warnedUntil THEN until ELSE user.warnedUntil
  <2>1. /\ user # Never /\ now < user.cooldownUntil /\ now' = now /\ early' = early
        /\ toldOf' = until \/ toldOf' = toldOf
    BY <1>4 DEF Rate!CheckLimit, Rate!CallInPenalty, Rate!Tell
  <2>2. until \in Nat /\ until >= user.cooldownUntil /\ until <= now + MaxPenalty
    BY <2>1 DEF RateInv, PenaltiesAssumed, Rate!Least
  <2>3. user' = [user EXCEPT !.lastActivity = now, !.spamStrikes = user.spamStrikes + 1,
                             !.cooldownUntil = until, !.warnedUntil = warned]
    BY <1>4 DEF Rate!CheckLimit, Rate!CallInPenalty
  <2>4. DOMAIN user = UserFields
    BY <2>1 DEF RateInv
  <2> HIDE DEF until, warned
  <2>5. /\ DOMAIN user' = UserFields
        /\ user'.cooldownUntil = until /\ user'.lastActivity = now
        /\ user'.violations = user.violations /\ user'.spamStrikes = user.spamStrikes + 1
    BY <2>3, <2>4 DEF UserFields
  <2>6. now \in Nat /\ toldOf \in Nat /\ user.violations \in Nat /\ user.spamStrikes \in Nat
        /\ (toldOf <= now \/ toldOf <= user.cooldownUntil) /\ user.cooldownUntil \in Nat
    BY <2>1 DEF RateInv
  <2>7. toldOf' \in Nat /\ (toldOf' <= now \/ toldOf' <= until)
    BY <2>1, <2>2, <2>6
  <2>8. ~early'
    BY <2>1 DEF RateInv
  <2>9. user' # Never
    BY <2>5 DEF PenaltiesAssumed
  <2> QED BY <2>1, <2>2, <2>5, <2>6, <2>7, <2>8, <2>9 DEF RateInv, PenaltiesAssumed
<1>5. CASE Rate!CheckLimit /\ Rate!Calls
  <2> DEFINE forgiven == user.violations > 0 /\ now - user.lastViolation > Forgiven
             violations == IF forgiven THEN 0 ELSE user.violations
             strikes == IF forgiven THEN 0 ELSE user.spamStrikes
             times == Append(Rate!Recent(user.timestamps), now)
             until == now + Rate!Penalty(violations + 1)
             told == [timestamps |-> <<>>, violations |-> violations + 1, cooldownUntil |-> until,
                      lastViolation |-> now, lastActivity |-> now, warnedUntil |-> until,
                      spamStrikes |-> 0]
             passed == [user EXCEPT !.timestamps = times, !.violations = violations,
                                    !.spamStrikes = strikes, !.lastActivity = now]
  <2>1. user # Never /\ now >= user.cooldownUntil /\ now' = now
    BY <1>5 DEF Rate!CheckLimit, Rate!Calls
  <2>2. \/ user' = told /\ toldOf' = until /\ early' = early
        \/ user' = passed /\ toldOf' = toldOf /\ early' = (early \/ now < toldOf)
    BY <1>5 DEF Rate!CheckLimit, Rate!Calls, Rate!Tell, Rate!Admit
  <2>3. violations \in Nat /\ strikes \in Nat
    BY <2>1 DEF RateInv
  <2> HIDE DEF forgiven, violations, strikes, times
  <2>4. until \in Nat /\ now <= until /\ until <= now + MaxPenalty
    <3>1. Rate!Least(violations + 1, Len(Penalties)) \in 1..Len(Penalties)
      BY <2>3 DEF PenaltiesAssumed, Rate!Least
    <3>2. Rate!Penalty(violations + 1) \in 0..MaxPenalty
      BY <3>1 DEF PenaltiesAssumed, Rate!Penalty
    <3> QED BY <3>2 DEF RateInv, PenaltiesAssumed
  <2>5. CASE user' = told /\ toldOf' = until /\ early' = early
    <3>1. /\ told.cooldownUntil = until /\ told.lastActivity = now
          /\ told.violations = violations + 1 /\ told.spamStrikes = 0
          /\ DOMAIN told = UserFields
      BY DEF UserFields
    <3> HIDE DEF told, until
    <3>2. ~early' /\ now \in Nat
      BY <2>5 DEF RateInv
    <3>3. user' # Never
      BY <2>5, <3>1 DEF PenaltiesAssumed
    <3> QED BY <2>1, <2>3, <2>4, <2>5, <3>1, <3>2, <3>3 DEF RateInv, PenaltiesAssumed
  <2>6. CASE user' = passed /\ toldOf' = toldOf /\ early' = (early \/ now < toldOf)
    <3>1. DOMAIN user = UserFields
      BY <2>1 DEF RateInv
    <3>2. /\ passed.cooldownUntil = user.cooldownUntil /\ passed.lastActivity = now
          /\ passed.violations = violations /\ passed.spamStrikes = strikes
          /\ DOMAIN passed = UserFields
      BY <3>1 DEF UserFields
    <3> HIDE DEF passed
    <3>3. toldOf <= now /\ ~(now < toldOf) /\ ~early
      BY <2>1 DEF RateInv
    <3>4. ~early'
      BY <2>6, <3>3, Zenon
    <3> QED BY <2>1, <2>3, <2>6, <3>2, <3>3, <3>4 DEF RateInv, PenaltiesAssumed
  <2> QED BY <2>2, <2>5, <2>6
<1>6. CASE UNCHANGED Rate!vars
  BY <1>6 DEF Rate!vars, RateInv
<1> QED BY <1>1, <1>2, <1>3, <1>4, <1>5, <1>6 DEF Rate!Next, Rate!CheckLimit

\* Nobody gets past a penalty he was told of, for any burst and any penalties that are not
\* longer than the time after which a user is forgotten (ratelimit.go: at most 30 seconds,
\* and 5 minutes).
THEOREM PenaltiesHold ==
    ASSUME PenaltiesAssumed
    PROVE  Rate!Spec => []~early
<1>1. Rate!Init => RateInv
  BY DEF Rate!Init, RateInv
<1>2. RateInv /\ [Rate!Next]_(Rate!vars) => RateInv'
  BY RateKeeps
<1>3. RateInv => ~early
  BY DEF RateInv
<1> QED BY <1>1, <1>2, <1>3, PTL DEF Rate!Spec

\* A penalty is at least half a window, and users are remembered for a window at least.
WindowAssumed ==
  /\ Window \in Nat /\ Burst \in Nat \ {0} /\ Window <= IdleAfter
  /\ \A i \in 1..Len(Penalties) : Window <= 2 * Penalties[i]

\* Half a window: what a penalty keeps two bursts apart at least.
Gap == (Window + 1) \div 2

Ascends(times) ==
  times \in Seq(Nat) /\ \A i, j \in 1..Len(times) : i <= j => times[i] <= times[j]

\* times has no three bursts in one window, and each burst of it is half a window long at least.
Bursts(times) ==
  /\ Len(times) <= 2 * Burst
  /\ \A i \in 1..Len(times) : i + Burst <= Len(times) => times[i] + Gap <= times[i + Burst]

EndsWith(times, last) ==
  /\ Len(last) <= Len(times)
  /\ \A i \in 1..Len(last) : last[i] = times[Len(times) - Len(last) + i]

LEMMA GapIs ==
  ASSUME PenaltiesAssumed, WindowAssumed
  PROVE  /\ Gap \in Nat /\ Gap <= Window /\ Window <= 2 * Gap
         /\ \A i \in 1..Len(Penalties) : Gap <= Penalties[i]
BY DEF PenaltiesAssumed, WindowAssumed, Gap

\* If there were none, adding one would map what is below T injectively into itself, but
\* nothing to 0.
LEMMA LeastOf ==
  ASSUME NEW n \in Nat, NEW T \in SUBSET (0..n), T # {}
  PROVE  \E x \in T : \A y \in T : x <= y
<1> SUFFICES ASSUME \A x \in T : \E y \in T : ~(x <= y) PROVE FALSE
  OBVIOUS
<1> DEFINE L == {k \in 0..n : \A y \in T : k <= y}
           f == [k \in L |-> k + 1]
<1>1. 0 \in L /\ IsFiniteSet(L)
  <2>1. \A y \in T : y \in 0..n /\ 0 <= y
    OBVIOUS
  <2>2. IsFiniteSet(0..n) /\ L \subseteq 0..n
    BY FS_Interval
  <2>3. IsFiniteSet(L)
    BY <2>2, FS_Subset
  <2> QED BY <2>1, <2>3
<1>2. \A k \in L : k + 1 \in L
  <2> TAKE k \in L
  <2>1. k \notin T
    OBVIOUS
  <2>2. \A y \in T : k + 1 <= y /\ y \in 0..n
    BY <2>1
  <2>3. PICK y \in T : TRUE
    OBVIOUS
  <2>4. k + 1 \in 0..n
    BY <2>2, <2>3
  <2> QED BY <2>2, <2>4
<1>3. f \in Injection(L, L)
  BY <1>2 DEF Injection, IsInjective
<1>4. f \in Surjection(L, L)
  BY <1>1, <1>3, FS_Injection
<1>5. PICK k \in L : f[k] = 0
  BY <1>1, <1>4 DEF Surjection
<1> QED BY <1>5

\* What is left of ascending times: those within the window.
LEMMA RecentIs ==
  ASSUME Window \in Nat, now \in Nat, NEW times, Ascends(times)
  PROVE  \E k \in 0..Len(times) :
           /\ Rate!Recent(times) = SubSeq(times, k + 1, Len(times))
           /\ \A i \in 1..Len(times) : i <= k <=> times[i] + Window <= now
<1> DEFINE n == Len(times)
           P(k) == \A i \in 1..n : i <= k <=> times[i] + Window <= now
           T == {k \in 0..n : \A i \in 1..n : i > k => ~(times[i] + Window <= now)}
<1>1. n \in Nat /\ times \in Seq(Nat) /\ DOMAIN times = 1..n
      /\ \A i, j \in 1..n : i <= j => times[i] <= times[j]
  BY DEF Ascends
<1>2. \A i \in 1..n : times[i] \in Nat
  BY <1>1
<1> HIDE DEF n
<1>3. n \in T /\ T \subseteq 0..n
  BY <1>1
<1>4. PICK k \in T : \A l \in T : k <= l
  BY <1>1, <1>3, LeastOf
<1>5. P(k)
  <2>1. SUFFICES ASSUME NEW i \in 1..n, i <= k PROVE times[i] + Window <= now
    BY <1>4
  <2>2. k \in 1..n /\ k - 1 \in 0..n
    BY <1>1, <1>4, <2>1
  <2>3. k - 1 \notin T
    BY <1>4, <2>2
  <2>4. PICK j \in 1..n : j > k - 1 /\ times[j] + Window <= now
    BY <2>2, <2>3
  <2>5. j = k
    BY <1>4, <2>2, <2>4
  <2>6. times[i] <= times[k] /\ times[i] \in Nat /\ times[k] \in Nat
    BY <1>1, <1>2, <2>1, <2>2
  <2> QED BY <2>4, <2>5, <2>6
<1>6. k \in 0..n
  BY <1>4
<1> DEFINE c == CHOOSE x \in 0..n : P(x)
<1>7. c \in 0..n /\ P(c)
  BY <1>5, <1>6
<1>8. Rate!Recent(times) = SubSeq(times, c + 1, n)
  BY <1>1 DEF Rate!Recent, n
<1> QED BY <1>7, <1>8 DEF n

\* next is times with one more admitted now, after r others of the same burst.
Fits(times, r, next) ==
  /\ Ascends(next) /\ Bursts(next) /\ r < Len(next) /\ next[Len(next)] = now
  /\ \A i \in 1..Len(next) : next[i] <= now
  /\ \A i \in 1..r : next[Len(next) - r - 1 + i] = times[Len(times) - r + i]
  /\ r + 1 < Len(next) => next[Len(next) - r - 1] + Gap <= now

\* One more is admitted, after at most Burst - 1 of the same burst within the window.
LEMMA OneMoreCall ==
  ASSUME PenaltiesAssumed, WindowAssumed, now \in Nat, NEW times, Ascends(times), Bursts(times),
         \A i \in 1..Len(times) : times[i] <= now,
         NEW r \in Nat, r < Burst, r <= Len(times),
         \A i \in 1..Len(times) : i > Len(times) - r => ~(times[i] + Window <= now),
         r < Len(times) => times[Len(times) - r] + Gap <= now
  PROVE  Fits(times, r, Append(Rate!Recent(times), now))
<1> DEFINE n == Len(times)
<1>1. n \in Nat /\ times \in Seq(Nat) /\ \A i, j \in 1..n : i <= j => times[i] <= times[j]
  BY DEF Ascends
<1>2. \A i \in 1..n : times[i] \in Nat
  BY <1>1
<1>3. PICK k \in 0..n : /\ Rate!Recent(times) = SubSeq(times, k + 1, n)
                        /\ \A i \in 1..n : i <= k <=> times[i] + Window <= now
  BY RecentIs DEF PenaltiesAssumed, WindowAssumed
<1>4. k <= n - r
  BY <1>1, <1>3
<1> DEFINE m == n - k
           next == Append(Rate!Recent(times), now)
<1>5. m \in 0..n /\ r <= m /\ n - m = k
  BY <1>1, <1>3, <1>4
<1>6. /\ SubSeq(times, k + 1, n) \in Seq(Nat) /\ Len(SubSeq(times, k + 1, n)) = m
      /\ \A i \in 1..m : SubSeq(times, k + 1, n)[i] = times[k + i]
  BY <1>1, <1>3
<1>7. next \in Seq(Nat) /\ Len(next) = m + 1 /\ next[m + 1] = now
      /\ \A i \in 1..m : next[i] = times[k + i]
  BY <1>3, <1>5, <1>6
<1>8. \A i \in 1..n : times[i] <= now
  OBVIOUS
<1>9. Burst \in Nat \ {0} /\ Window \in Nat /\ Gap \in Nat /\ Window <= 2 * Gap
  BY GapIs DEF PenaltiesAssumed, WindowAssumed
<1>10. \A i \in 1..(n - r) : times[i] + Gap <= now
  <2> TAKE i \in 1..(n - r)
  <2>1. n - r \in 1..n /\ i \in 1..n /\ i <= n - r
    BY <1>1
  <2>2. times[i] <= times[n - r] /\ times[i] \in Nat /\ times[n - r] \in Nat
    BY <1>1, <1>2, <2>1
  <2>3. times[n - r] + Gap <= now
    BY <1>1, <2>1
  <2> QED BY <1>9, <2>2, <2>3
<1>11. \A i \in 1..n : i + Burst <= n => times[i] + Gap <= times[i + Burst]
  BY DEF Bursts
<1> HIDE DEF n, m, next
<1>12. Ascends(next)
  <2>1. ASSUME NEW i \in 1..(m + 1), NEW j \in 1..(m + 1), i <= j PROVE next[i] <= next[j]
    <3>1. CASE j = m + 1
      <4>1. CASE i = m + 1
        BY <1>7, <3>1, <4>1
      <4>2. CASE i # m + 1
        <5>1. i \in 1..m /\ k + i \in 1..n
          BY <1>1, <1>3, <1>5, <4>2 DEF m
        <5> QED BY <1>7, <1>8, <3>1, <5>1
      <4> QED BY <4>1, <4>2
    <3>2. CASE j # m + 1
      <4>1. i \in 1..m /\ j \in 1..m /\ k + i \in 1..n /\ k + j \in 1..n /\ k + i <= k + j
        BY <1>1, <1>3, <1>5, <2>1, <3>2 DEF m
      <4> QED BY <1>1, <1>7, <4>1
    <3> QED BY <3>1, <3>2
  <2> QED BY <1>7, <2>1 DEF Ascends
<1>13. Bursts(next)
  <2>1. m + 1 <= 2 * Burst
    <3>1. SUFFICES ASSUME m >= 2 * Burst PROVE FALSE
      BY <1>1, <1>5, <1>9
    <3> DEFINE j == n + 1 - 2 * Burst
    <3>2. /\ j \in 1..n /\ j > k /\ j + Burst \in 1..(n - r) /\ j + Burst <= n /\ j + Burst \in 1..n
      BY <1>1, <1>3, <1>5, <1>9, <3>1
    <3> HIDE DEF j
    <3>3. times[j] + Gap <= times[j + Burst] /\ times[j + Burst] + Gap <= now
      BY <1>10, <1>11, <3>2
    <3>4. times[j] \in Nat /\ times[j + Burst] \in Nat /\ ~(times[j] + Window <= now)
      BY <1>2, <1>3, <3>2
    <3> QED BY <1>9, <3>3, <3>4
  <2>2. ASSUME NEW i \in 1..(m + 1), i + Burst <= m + 1 PROVE next[i] + Gap <= next[i + Burst]
    <3>1. i \in 1..m /\ k + i \in 1..n /\ next[i] = times[k + i]
      BY <1>1, <1>3, <1>5, <1>7, <1>9, <2>2
    <3>2. CASE i + Burst = m + 1
      <4>1. k + i \in 1..(n - r)
        BY <1>1, <1>3, <1>5, <1>9, <3>1, <3>2
      <4> QED BY <1>7, <1>10, <3>1, <3>2, <4>1
    <3>3. CASE i + Burst # m + 1
      <4>1. i + Burst \in 1..m /\ (k + i) + Burst <= n
        BY <1>1, <1>3, <1>5, <1>9, <2>2, <3>1, <3>3
      <4>2. next[i + Burst] = times[k + (i + Burst)] /\ k + (i + Burst) = (k + i) + Burst
        BY <1>3, <1>7, <1>9, <4>1
      <4> QED BY <1>11, <3>1, <4>1, <4>2
    <3> QED BY <3>2, <3>3
  <2> QED BY <1>7, <2>1, <2>2 DEF Bursts
<1>14. \A i \in 1..Len(next) : next[i] <= now
  <2>1. ASSUME NEW i \in 1..Len(next) PROVE next[i] <= next[Len(next)]
    BY <1>5, <1>7, <1>12, <2>1 DEF Ascends
  <2> QED BY <1>7, <2>1
<1>15. \A i \in 1..r : next[Len(next) - r - 1 + i] = times[n - r + i]
  <2> TAKE i \in 1..r
  <2>1. PICK l \in 1..m : l = m - r + i /\ k + l = n - r + i /\ Len(next) - r - 1 + i = l
    BY <1>1, <1>3, <1>5, <1>7
  <2>2. next[l] = times[k + l]
    BY <1>7
  <2> QED BY <2>1, <2>2
<1>16. r + 1 < Len(next) => next[Len(next) - r - 1] + Gap <= now
  <2> HAVE r + 1 < Len(next)
  <2>1. m - r \in 1..m /\ k + (m - r) = n - r /\ Len(next) - r - 1 = m - r /\ n - r \in 1..(n - r)
    BY <1>1, <1>3, <1>5, <1>7
  <2> QED BY <1>7, <1>10, <2>1
<1>17. r < Len(next) /\ next[Len(next)] = now
  BY <1>5, <1>7
<1> QED BY <1>12, <1>13, <1>14, <1>15, <1>16, <1>17 DEF n, next, Fits

\* What timestamps leaves out of admitted is half a window older.
LeavesOut(times, last, until) ==
  Len(last) < Len(times) =>
    IF Len(last) = 0 THEN times[Len(times)] + Gap <= until
    ELSE times[Len(times) - Len(last)] + Gap <= times[Len(times)]

\* The times of a user are the last that were admitted.
TimesInv ==
  /\ Ascends(admitted) /\ Bursts(admitted)
  /\ \A i \in 1..Len(admitted) : admitted[i] <= now
  /\ user = Never /\ Len(admitted) > 0 => admitted[Len(admitted)] + Gap <= now
  /\ user # Never =>
       /\ user.timestamps \in Seq(Nat) /\ Len(user.timestamps) <= Burst
       /\ EndsWith(admitted, user.timestamps)
       /\ LeavesOut(admitted, user.timestamps, user.cooldownUntil)
       /\ Len(admitted) > 0 => admitted[Len(admitted)] <= user.lastActivity

\* Whoever is admitted has r calls of the same burst in the window, and the new ones are last.
LEMMA AdmittedKeeps ==
  ASSUME PenaltiesAssumed, WindowAssumed, RateInv, TimesInv, now' = now,
         NEW r \in Nat, r < Burst, r <= Len(admitted),
         \A i \in 1..Len(admitted) : i > Len(admitted) - r => ~(admitted[i] + Window <= now),
         r < Len(admitted) => admitted[Len(admitted) - r] + Gap <= now,
         Rate!Admit, user' # Never, user'.lastActivity = now,
         user'.timestamps \in Seq(Nat), Len(user'.timestamps) = r + 1,
         user'.timestamps[r + 1] = now,
         \A i \in 1..r : user'.timestamps[i] = admitted[Len(admitted) - r + i]
  PROVE  TimesInv'
<1> DEFINE next == Append(Rate!Recent(admitted), now)
           n == Len(next)
<1>0. /\ Ascends(admitted) /\ Bursts(admitted) /\ now \in Nat
      /\ \A i \in 1..Len(admitted) : admitted[i] <= now
  BY DEF TimesInv, RateInv
<1>00. Fits(admitted, r, next)
  BY <1>0, OneMoreCall
<1> HIDE DEF next
<1>1. /\ Ascends(next) /\ Bursts(next) /\ r < n /\ next[n] = now
      /\ \A i \in 1..n : next[i] <= now
      /\ \A i \in 1..r : next[n - r - 1 + i] = admitted[Len(admitted) - r + i]
      /\ r + 1 < n => next[n - r - 1] + Gap <= now
  BY <1>00 DEF Fits
<1>2. admitted' = next
  BY DEF Rate!Admit, next
<1>3. n \in Nat /\ Burst \in Nat
  BY <1>1 DEF Ascends, PenaltiesAssumed, WindowAssumed
<1>4. EndsWith(next, user'.timestamps)
  <2>1. ASSUME NEW i \in 1..(r + 1) PROVE user'.timestamps[i] = next[n - (r + 1) + i]
    <3>1. CASE i = r + 1
      BY <1>1, <1>3, <3>1
    <3>2. CASE i # r + 1
      <4>1. i \in 1..r
        BY <2>1, <3>2
      <4>2. n - (r + 1) + i = n - r - 1 + i
        BY <1>3, <4>1
      <4> QED BY <1>1, <4>1, <4>2
    <3> QED BY <3>1, <3>2
  <2>2. r + 1 <= n /\ Len(user'.timestamps) = r + 1
    BY <1>1, <1>3
  <2> QED BY <2>1, <2>2, SMTT(20) DEF EndsWith
<1>5. LeavesOut(next, user'.timestamps, user'.cooldownUntil)
  <2>1. n - (r + 1) = n - r - 1 /\ r + 1 # 0
    BY <1>3
  <2> QED BY <1>1, <2>1 DEF LeavesOut
<1>6. Len(user'.timestamps) <= Burst /\ next[n] <= now
  BY <1>1, <1>3 DEF RateInv
<1> QED BY <1>1, <1>2, <1>4, <1>5, <1>6 DEF TimesInv

LEMMA TimesKeeps ==
  ASSUME PenaltiesAssumed, WindowAssumed, RateInv, TimesInv, [Rate!Next]_(Rate!vars) PROVE TimesInv'
<1> DEFINE n == Len(admitted)
<1>0. /\ n \in Nat /\ \A i \in 1..n : admitted[i] \in Nat
      /\ now \in Nat /\ Gap \in Nat /\ Gap <= Window /\ Window \in Nat /\ Burst \in Nat \ {0}
  BY GapIs DEF TimesInv, Ascends, RateInv, PenaltiesAssumed, WindowAssumed
<1>1. CASE Rate!Tick
  <2>1. now' = now + 1 /\ UNCHANGED <<user, admitted>>
    BY <1>1 DEF Rate!Tick
  <2>2. \A i \in 1..n : admitted[i] <= now'
    BY <1>0, <2>1 DEF TimesInv
  <2>3. user = Never /\ n > 0 => admitted[n] + Gap <= now'
    BY <1>0, <2>1 DEF TimesInv
  <2> QED BY <2>1, <2>2, <2>3 DEF TimesInv
<1>2. CASE Rate!CleanUsers
  <2>1. /\ user # Never /\ now - user.lastActivity > IdleAfter /\ user' = Never
        /\ UNCHANGED <<now, admitted>>
    BY <1>2 DEF Rate!CleanUsers
  <2>2. n > 0 => admitted[n] + Gap <= now
    <3> HAVE n > 0
    <3>1. admitted[n] <= user.lastActivity /\ admitted[n] \in Nat /\ user.lastActivity \in Nat
      BY <1>0, <2>1 DEF TimesInv, RateInv
    <3> QED BY <1>0, <2>1, <3>1 DEF PenaltiesAssumed, WindowAssumed
  <2> QED BY <2>1, <2>2 DEF TimesInv
<1>3. CASE Rate!CheckLimit /\ Rate!FirstCall
  <2> DEFINE u == Rate!NewUser
  <2>1. u.lastActivity = now /\ u.timestamps = <<now>> /\ DOMAIN u = UserFields
    BY DEF Rate!NewUser, UserFields
  <2>2. u.timestamps \in Seq(Nat) /\ Len(u.timestamps) = 0 + 1 /\ u.timestamps[0 + 1] = now
    BY <1>0, <2>1
  <2> HIDE DEF u
  <2>3. user = Never /\ user' = u /\ now' = now /\ Rate!Admit
    BY <1>3 DEF Rate!CheckLimit, Rate!FirstCall, u
  <2>4. user' # Never
    BY <2>1, <2>3 DEF PenaltiesAssumed, WindowAssumed
  <2>5. 0 < Burst /\ 0 <= n /\ (0 < n => admitted[n - 0] + Gap <= now)
    BY <1>0, <2>3 DEF TimesInv
  <2>6. \A i \in 1..n : i > n - 0 => ~(admitted[i] + Window <= now)
    BY <1>0
  <2>7. \A i \in 1..0 : user'.timestamps[i] = admitted[n - 0 + i]
    OBVIOUS
  <2> HIDE DEF n
  <2> QED BY <2>1, <2>2, <2>3, <2>4, <2>5, <2>6, <2>7, AdmittedKeeps DEF n
<1>4. CASE Rate!CheckLimit /\ Rate!CallInPenalty
  <2> DEFINE until == Rate!Least(user.cooldownUntil + user.spamStrikes + 1, now + MaxPenalty)
             warned == IF now > user.warnedUntil THEN until ELSE user.warnedUntil
  <2>1. /\ user # Never /\ now < user.cooldownUntil /\ now' = now /\ admitted' = admitted
    BY <1>4 DEF Rate!CheckLimit, Rate!CallInPenalty, Rate!Tell
  <2>2. until \in Nat /\ until >= user.cooldownUntil /\ user.cooldownUntil \in Nat
    BY <2>1 DEF RateInv, PenaltiesAssumed, WindowAssumed, Rate!Least
  <2>3. user' = [user EXCEPT !.lastActivity = now, !.spamStrikes = user.spamStrikes + 1,
                             !.cooldownUntil = until, !.warnedUntil = warned]
    BY <1>4 DEF Rate!CheckLimit, Rate!CallInPenalty
  <2>4. DOMAIN user = UserFields
    BY <2>1 DEF RateInv
  <2> HIDE DEF until, warned
  <2>5. /\ DOMAIN user' = UserFields /\ user'.timestamps = user.timestamps
        /\ user'.cooldownUntil = until /\ user'.lastActivity = now
    BY <2>3, <2>4 DEF UserFields
  <2>6. user' # Never
    BY <2>5 DEF PenaltiesAssumed, WindowAssumed
  <2>7. LeavesOut(admitted, user.timestamps, until)
    <3>1. LeavesOut(admitted, user.timestamps, user.cooldownUntil)
      BY <2>1 DEF TimesInv
    <3>2. n > 0 => admitted[n] \in Nat
      BY <1>0
    <3>3. Len(user.timestamps) = 0 /\ n > 0 => admitted[n] + Gap <= until
      BY <1>0, <2>2, <3>1, <3>2 DEF LeavesOut
    <3> QED BY <3>1, <3>3 DEF LeavesOut
  <2>8. n > 0 => admitted[n] <= now
    BY <1>0 DEF TimesInv
  <2> QED BY <2>1, <2>5, <2>6, <2>7, <2>8 DEF TimesInv
<1>5. CASE Rate!CheckLimit /\ Rate!Calls
  <2> DEFINE forgiven == user.violations > 0 /\ now - user.lastViolation > Forgiven
             violations == IF forgiven THEN 0 ELSE user.violations
             strikes == IF forgiven THEN 0 ELSE user.spamStrikes
             times == Append(Rate!Recent(user.timestamps), now)
             until == now + Rate!Penalty(violations + 1)
             told == [timestamps |-> <<>>, violations |-> violations + 1, cooldownUntil |-> until,
                      lastViolation |-> now, lastActivity |-> now, warnedUntil |-> until,
                      spamStrikes |-> 0]
             passed == [user EXCEPT !.timestamps = times, !.violations = violations,
                                    !.spamStrikes = strikes, !.lastActivity = now]
  <2>1. user # Never /\ now >= user.cooldownUntil /\ now' = now
    BY <1>5 DEF Rate!CheckLimit, Rate!Calls
  <2>2. \/ user' = told /\ admitted' = admitted
        \/ user' = passed /\ Rate!Admit /\ ~(Len(times) > Burst)
    BY <1>5 DEF Rate!CheckLimit, Rate!Calls, Rate!TooMany, Rate!Tell
  <2>3. violations \in Nat
    BY <2>1 DEF RateInv
  <2> HIDE DEF forgiven, violations, strikes
  <2>4. CASE user' = told /\ admitted' = admitted
    <3>1. Rate!Least(violations + 1, Len(Penalties)) \in 1..Len(Penalties)
      BY <2>3 DEF PenaltiesAssumed, WindowAssumed, Rate!Least
    <3>2. Gap <= Rate!Penalty(violations + 1) /\ Rate!Penalty(violations + 1) \in Nat
      BY <3>1, GapIs DEF PenaltiesAssumed, WindowAssumed, Rate!Penalty
    <3>3. told.cooldownUntil = until /\ told.lastActivity = now /\ told.timestamps = <<>>
          /\ DOMAIN told = UserFields
      BY DEF UserFields
    <3> HIDE DEF told, times
    <3>4. user' # Never
      BY <2>4, <3>3 DEF PenaltiesAssumed, WindowAssumed
    <3>5. n > 0 => admitted[n] <= now /\ admitted[n] + Gap <= until
      BY <1>0, <3>2 DEF TimesInv
    <3>6. EndsWith(admitted, <<>>) /\ LeavesOut(admitted, <<>>, until)
      BY <1>0, <3>5 DEF EndsWith, LeavesOut
    <3>7. <<>> \in Seq(Nat) /\ Len(<<>>) <= Burst
      BY <1>0
    <3> HIDE DEF until
    <3> QED BY <2>1, <2>4, <3>3, <3>4, <3>5, <3>6, <3>7 DEF TimesInv
  <2>5. CASE user' = passed /\ Rate!Admit /\ ~(Len(times) > Burst)
    <3> DEFINE last == user.timestamps
               m == Len(last)
    <3>1. /\ DOMAIN user = UserFields /\ last \in Seq(Nat) /\ EndsWith(admitted, last)
          /\ LeavesOut(admitted, last, user.cooldownUntil) /\ user.cooldownUntil \in Nat
      BY <2>1 DEF RateInv, TimesInv
    <3> HIDE DEF last
    <3>2. m \in Nat /\ m <= n /\ \A i \in 1..m : last[i] = admitted[n - m + i]
      BY <3>1 DEF EndsWith
    <3>3. Ascends(last)
      <4>1. ASSUME NEW i \in 1..m, NEW j \in 1..m, i <= j PROVE last[i] <= last[j]
        <5>1. n - m + i \in 1..n /\ n - m + j \in 1..n /\ n - m + i <= n - m + j
          BY <1>0, <3>2, <4>1
        <5> QED BY <3>2, <5>1 DEF TimesInv, Ascends
      <4> QED BY <3>1, <4>1 DEF Ascends
    <3>4. PICK k \in 0..m : /\ Rate!Recent(last) = SubSeq(last, k + 1, m)
                            /\ \A i \in 1..m : i <= k <=> last[i] + Window <= now
      BY <1>0, <3>3, RecentIs
    <3> DEFINE r == m - k
    <3>5. r \in Nat /\ r <= m /\ m - r = k
      BY <3>2, <3>4
    <3>6. /\ SubSeq(last, k + 1, m) \in Seq(Nat) /\ Len(SubSeq(last, k + 1, m)) = r
          /\ \A i \in 1..r : SubSeq(last, k + 1, m)[i] = last[k + i]
      BY <3>1, <3>2, <3>4
    <3>7. /\ times \in Seq(Nat) /\ Len(times) = r + 1 /\ times[r + 1] = now
          /\ \A i \in 1..r : times[i] = last[k + i]
      BY <1>0, <3>4, <3>5, <3>6 DEF last
    <3> HIDE DEF times
    <3>8. /\ passed.timestamps = times /\ passed.lastActivity = now /\ DOMAIN passed = UserFields
      BY <3>1 DEF UserFields
    <3> HIDE DEF passed, m, r
    <3>9. user' # Never
      BY <2>5, <3>8 DEF PenaltiesAssumed, WindowAssumed
    <3>10. r \in Nat /\ r < Burst /\ r <= n
      BY <1>0, <2>5, <3>2, <3>5, <3>7
    <3>11. \A i \in 1..n : i > n - r => ~(admitted[i] + Window <= now)
      <4> SUFFICES ASSUME NEW i \in 1..n, i > n - r PROVE ~(admitted[i] + Window <= now)
        OBVIOUS
      <4> DEFINE j == i - (n - m)
      <4>1. j \in 1..m /\ ~(j <= k) /\ n - m + j = i
        BY <1>0, <3>2, <3>4, <3>5
      <4> HIDE DEF j
      <4> QED BY <3>2, <3>4, <4>1
    <3>12. r < n => admitted[n - r] + Gap <= now
      <4> HAVE r < n
      <4>1. n - r \in 1..n /\ admitted[n - r] \in Nat
        BY <1>0, <3>5
      <4>2. CASE r < m
        <5>1. k \in 1..m /\ k <= k /\ n - m + k = n - r
          BY <1>0, <3>2, <3>4, <3>5, <4>2
        <5>2. last[k] + Window <= now /\ last[k] = admitted[n - r]
          BY <3>2, <3>4, <5>1
        <5> QED BY <1>0, <4>1, <5>2
      <4>3. CASE r = m
        <5>1. n \in 1..n /\ admitted[n] <= now /\ admitted[n] \in Nat
          BY <1>0, <3>5 DEF TimesInv
        <5>2. CASE m = 0
          <6>1. admitted[n] + Gap <= user.cooldownUntil
            BY <3>1, <4>3, <5>2 DEF LeavesOut, m
          <6>2. n - r = n
            BY <1>0, <4>3, <5>2
          <6> QED BY <1>0, <2>1, <3>1, <5>1, <6>1, <6>2
        <5>3. CASE m # 0
          <6>1. admitted[n - m] + Gap <= admitted[n]
            BY <3>1, <4>3, <5>3 DEF LeavesOut, m
          <6> QED BY <1>0, <4>1, <4>3, <5>1, <6>1
        <5> QED BY <5>2, <5>3
      <4>4. r < m \/ r = m
        BY <3>2, <3>5
      <4> QED BY <4>2, <4>3, <4>4
    <3>13. \A i \in 1..r : times[i] = admitted[n - r + i]
      <4> TAKE i \in 1..r
      <4>1. k + i \in 1..m /\ n - m + (k + i) = n - r + i
        BY <1>0, <3>2, <3>4, <3>5
      <4> QED BY <3>2, <3>7, <4>1
    <3> QED BY <2>1, <2>5, <3>7, <3>8, <3>9, <3>10, <3>11, <3>12, <3>13, AdmittedKeeps
  <2> HIDE DEF told, passed, times
  <2> QED BY <2>2, <2>4, <2>5
<1>6. CASE UNCHANGED Rate!vars
  BY <1>6 DEF Rate!vars, TimesInv
<1> QED BY <1>1, <1>2, <1>3, <1>4, <1>5, <1>6 DEF Rate!Next, Rate!CheckLimit

RateWhenRun == focus = "rate limits" => RateInv /\ TimesInv
CoolWhenRun == focus = "cooldowns" => CoolInv

\* Nobody gets past a penalty he was told of, nor does more than two bursts in one window, as
\* penalties are no shorter than half a window; and no command begins within the cooldown of
\* another (RateLimiter, CooldownManager).
THEOREM LimitsHoldAlways ==
    ASSUME PenaltiesAssumed, WindowAssumed, Cooldown \in Nat, Never \notin Nat
    PROVE  ServicesSpec => []LimitsHold
<1>1. ServicesInit => RateWhenRun /\ CoolWhenRun
  <2>1. Rate!Init => RateInv /\ TimesInv
    BY DEF Rate!Init, RateInv, TimesInv, Ascends, Bursts, WindowAssumed
  <2>2. Cool!Init => CoolInv
    BY DEF Cool!Init, CoolInv
  <2> QED BY <2>1, <2>2, InitOfOne DEF RateWhenRun, CoolWhenRun
<1>2. RateWhenRun /\ CoolWhenRun /\ [ServicesNext]_<<focus, From1, lockVars>>
        => RateWhenRun' /\ CoolWhenRun'
  BY StepOfOne, RateKeeps, TimesKeeps, CoolKeeps DEF RateWhenRun, CoolWhenRun
<1>3. RateWhenRun /\ CoolWhenRun => LimitsHold
  BY DEF RateWhenRun, CoolWhenRun, RateInv, TimesInv, Bursts, CoolInv, LimitsHold,
     Rate!LimitHolds, Cool!CooldownHolds
<1> QED BY <1>1, <1>2, <1>3, PTL DEF ServicesSpec

-----------------------------------------------------------------------------
(***************************************************************************)
(* Moderation.  A command has a number of its own; before it acts nothing  *)
(* is recorded under that number, and between its action and its record    *)
(* the action is recorded as done and has no case yet.                     *)
(***************************************************************************)

\* The variables by name.
members == s1
banned == s2
inVoice == s3
marks == s4
cases == s5
lastCase == s6
notices == s7
jobs == s8
prompt == s9
commands == s10
errors == s11
applied == s12
unsaved == s13
undeleted == s14
USE DEF members, banned, inVoice, marks, cases, lastCase, notices, jobs, prompt, commands,
        errors, applied, unsaved, undeleted

CaseJob == [step : Cases!Steps, number : Nat, person : People \cup {Nobody},
            how : Cases!Punishments, id : Nat]
CaseRow == [id : Nat, command : Nat, person : People \cup {Nobody}, action : Cases!Punishments,
            reason : {"given", "edited"}]

CaseTypes ==
  /\ commands \in Nat /\ errors \in Nat /\ lastCase \in Nat
  /\ jobs \in [Mods -> CaseJob \cup {NoJob}]
  /\ prompt \in [Mods -> [answer : Cases!Answers, by : People \cup {Nobody}]]
  /\ cases \subseteq CaseRow
  /\ applied \subseteq 1..commands

RecordedCases == Cases!CommandsOf(cases)

\* What a command at work has left behind so far.
AtWork(m) ==
  jobs[m] # NoJob =>
    /\ jobs[m].number \in 1..commands
    /\ jobs[m].step \in {"notify", "act"} => jobs[m].number \notin applied
    /\ jobs[m].step = "record" => jobs[m].number \in applied /\ jobs[m].number \notin RecordedCases
    /\ jobs[m].step = "tell" => jobs[m].number \in applied

OwnNumbers ==
  \A m, n \in Mods : m # n /\ jobs[m] # NoJob /\ jobs[n] # NoJob => jobs[m].number # jobs[n].number

CaseInv ==
  /\ CaseTypes /\ OwnNumbers /\ (\A m \in Mods : AtWork(m))
  /\ Cases!CasesAreTrue /\ Cases!NoticesAreTrue

\* The number of the command that m runs, or begins.
NumberOf(m) == IF jobs[m] = NoJob THEN commands + 1 ELSE jobs[m].number

LEMMA NumberIsOwn ==
  ASSUME CaseInv, NEW m \in Mods
  PROVE  /\ NumberOf(m) \in Nat /\ NumberOf(m) <= commands + 1
         /\ \A n \in Mods \ {m} : jobs[n] # NoJob => jobs[n].number # NumberOf(m)
         /\ jobs[m] = NoJob => NumberOf(m) \notin applied \cup RecordedCases
<1>1. /\ commands \in Nat /\ applied \subseteq 1..commands /\ RecordedCases \subseteq applied
  BY DEF CaseInv, CaseTypes, Cases!CasesAreTrue, RecordedCases
<1>2. \A n \in Mods : jobs[n] # NoJob => jobs[n].number \in 1..commands
  BY DEF CaseInv, AtWork
<1>3. \A n \in Mods \ {m} : jobs[n] # NoJob /\ jobs[m] # NoJob => jobs[n].number # jobs[m].number
  BY DEF CaseInv, OwnNumbers
<1> QED BY <1>1, <1>2, <1>3 DEF NumberOf

\* A step of m: it does what it does under its own number, and leaves r to be done.
JobFits(m, r) ==
  /\ jobs' = [jobs EXCEPT ![m] = r]
  /\ \/ r = NoJob
     \/ /\ r \in CaseJob /\ r.number = NumberOf(m) /\ r.number <= commands'
        /\ r.step \in {"notify", "act"} => r.number \notin applied'
        /\ r.step = "record" => r.number \in applied' /\ r.number \notin RecordedCases'
        /\ r.step = "tell" => r.number \in applied'

RowsFit(m) ==
  /\ commands' \in {commands, commands + 1} /\ errors' \in Nat /\ lastCase' \in Nat
  /\ prompt' \in [Mods -> [answer : Cases!Answers, by : People \cup {Nobody}]]
  /\ cases' \subseteq CaseRow
  /\ applied \subseteq applied' /\ applied' \subseteq applied \cup {NumberOf(m)}
  /\ applied' \subseteq 1..commands'
  /\ RecordedCases' \subseteq RecordedCases \cup {NumberOf(m)}

LEMMA CaseStep ==
  ASSUME CaseInv, NoJob \notin CaseJob, NEW m \in Mods, NEW r, JobFits(m, r), RowsFit(m),
         Cases!CasesAreTrue', Cases!NoticesAreTrue'
  PROVE  CaseInv'
<1> DEFINE k == NumberOf(m)
<1>0. /\ r \in CaseJob \cup {NoJob} /\ jobs' = [jobs EXCEPT ![m] = r]
      /\ r # NoJob => r.number = k /\ k <= commands'
      /\ r # NoJob /\ r.step \in {"notify", "act"} => k \notin applied'
      /\ r # NoJob /\ r.step = "record" => k \in applied' /\ k \notin RecordedCases'
      /\ r # NoJob /\ r.step = "tell" => k \in applied'
  BY DEF JobFits
<1>00. /\ commands' \in {commands, commands + 1} /\ errors' \in Nat /\ lastCase' \in Nat
       /\ prompt' \in [Mods -> [answer : Cases!Answers, by : People \cup {Nobody}]]
       /\ cases' \subseteq CaseRow
       /\ applied \subseteq applied' /\ applied' \subseteq applied \cup {k}
       /\ applied' \subseteq 1..commands'
       /\ RecordedCases' \subseteq RecordedCases \cup {k}
  BY DEF RowsFit
<1>1. /\ jobs \in [Mods -> CaseJob \cup {NoJob}] /\ commands \in Nat
      /\ \A n \in Mods : AtWork(n)
  BY DEF CaseInv, CaseTypes
<1>2. jobs'[m] = r /\ \A n \in Mods \ {m} : jobs'[n] = jobs[n]
  BY <1>0, <1>1
<1>3. /\ k \in Nat /\ \A n \in Mods \ {m} : jobs[n] # NoJob => jobs[n].number # k
  BY NumberIsOwn
<1> HIDE DEF k
<1>4. CaseTypes'
  <2>1. jobs' \in [Mods -> CaseJob \cup {NoJob}]
    BY <1>0, <1>1
  <2>2. commands' \in Nat
    BY <1>00, <1>1
  <2> QED BY <1>00, <2>1, <2>2 DEF CaseTypes
<1>5. OwnNumbers'
  BY <1>0, <1>2, <1>3 DEF CaseInv, OwnNumbers
<1>6. ASSUME NEW n \in Mods PROVE AtWork(n)'
  <2>1. CASE n = m
    <3>1. r # NoJob => k \in 1..commands'
      <4>1. jobs[m] # NoJob => jobs[m].number \in 1..commands
        BY <1>1 DEF AtWork
      <4>2. k >= 1
        BY <1>1, <4>1 DEF NumberOf, k
      <4> QED BY <1>0, <1>00, <1>1, <1>3, <4>2
    <3> QED BY <1>0, <1>2, <2>1, <3>1 DEF AtWork
  <2>2. CASE n # m
    <3>1. /\ jobs'[n] = jobs[n] /\ AtWork(n)
          /\ jobs[n] # NoJob => jobs[n].number # k
      BY <1>1, <1>2, <1>3, <2>2
    <3>2. jobs[n] # NoJob => jobs[n].number \in 1..commands'
      BY <1>00, <1>1, <3>1 DEF AtWork
    <3> QED BY <1>00, <3>1, <3>2 DEF AtWork
  <2> QED BY <2>1, <2>2
<1> QED BY <1>4, <1>5, <1>6 DEF CaseInv

LEMMA CaseFrame ==
  ASSUME CaseInv, NEW m \in Mods, NEW r, jobs' = [jobs EXCEPT ![m] = r]
  PROVE  /\ \A n \in Mods \ {m} : jobs'[n] = jobs[n]
         /\ jobs'[m] = r
BY DEF CaseInv, CaseTypes

\* The cases stay true when they, what was done and what was not saved stay as they are.
LEMMA KeepsCases ==
  ASSUME CaseInv, NEW m \in Mods, NEW r, jobs' = [jobs EXCEPT ![m] = r],
         UNCHANGED <<cases, applied, unsaved>>,
         jobs[m] # NoJob => jobs[m].step # "record"
  PROVE  Cases!CasesAreTrue'
<1>1. \A n \in Mods : Cases!At(n, "record") => Cases!At(n, "record")' /\ jobs'[n] = jobs[n]
  <2> TAKE n \in Mods
  <2>1. CASE n = m
    BY <2>1 DEF Cases!At
  <2>2. CASE n # m
    <3>1. jobs'[n] = jobs[n]
      BY <2>2, CaseFrame
    <3> QED BY <3>1 DEF Cases!At
  <2> QED BY <2>1, <2>2
<1>2. Cases!CommandsOf(cases)' = Cases!CommandsOf(cases)
  BY DEF Cases!CommandsOf
<1>3. \A n \in applied \ unsaved :
        n \in Cases!CommandsOf(cases) \/ \E i \in Mods : Cases!At(i, "record")' /\ jobs'[i].number = n
  BY <1>1 DEF CaseInv, Cases!CasesAreTrue
<1> QED BY <1>2, <1>3 DEF CaseInv, Cases!CasesAreTrue

\* The notices stay true when m sends none but one it may send, and is not about to act.
LEMMA KeepsNotices ==
  ASSUME CaseInv, NEW m \in Mods, NEW r, jobs' = [jobs EXCEPT ![m] = r],
         applied \subseteq applied', undeleted \subseteq undeleted',
         \A n \in notices' \ notices :
           n \in applied' \/ (r # NoJob /\ r.step = "act" /\ r.number = n),
         jobs[m] # NoJob => jobs[m].step # "act"
  PROVE  Cases!NoticesAreTrue'
<1>1. \A n \in Mods : Cases!At(n, "act") => Cases!At(n, "act")' /\ jobs'[n] = jobs[n]
  <2> TAKE n \in Mods
  <2>1. CASE n = m
    BY <2>1 DEF Cases!At
  <2>2. CASE n # m
    <3>1. jobs'[n] = jobs[n]
      BY <2>2, CaseFrame
    <3> QED BY <3>1 DEF Cases!At
  <2> QED BY <2>1, <2>2
<1>2. \A n \in notices : n \in applied \cup undeleted \/ \E i \in Mods : Cases!At(i, "act") /\ jobs[i].number = n
  BY DEF CaseInv, Cases!NoticesAreTrue
<1>3. jobs'[m] = r
  BY CaseFrame
<1>4. r # NoJob /\ r.step = "act" => Cases!At(m, "act")'
  BY <1>3 DEF Cases!At
<1> QED BY <1>1, <1>2, <1>3, <1>4 DEF Cases!NoticesAreTrue

LEMMA OthersAtWork ==
  ASSUME CaseInv, NEW m \in Mods, NEW r, jobs' = [jobs EXCEPT ![m] = r],
         NEW n \in Mods \ {m}, NEW step, Cases!At(n, step)
  PROVE  Cases!At(n, step)' /\ jobs'[n] = jobs[n]
<1>1. jobs'[n] = jobs[n]
  BY CaseFrame
<1> QED BY <1>1 DEF Cases!At

\* A command begins.
LEMMA CaseBegins ==
  ASSUME CaseInv, NoJob \notin CaseJob, NEW m \in Mods, NEW step \in {"notify", "record", "act", "edit", "ask"},
         NEW p \in People \cup {Nobody}, NEW how \in Cases!Punishments, NEW id \in Nat,
         Cases!Begin(m, step, p, how, id),
         applied' = IF step = "record" THEN applied \cup {commands + 1} ELSE applied,
         prompt' \in [Mods -> [answer : Cases!Answers, by : People \cup {Nobody}]],
         UNCHANGED <<cases, lastCase, notices, errors, unsaved, undeleted>>
  PROVE  CaseInv'
<1> DEFINE r == [step |-> step, number |-> commands + 1, person |-> p, how |-> how, id |-> id]
           k == NumberOf(m)
<1>1. /\ commands \in Nat /\ errors \in Nat /\ lastCase \in Nat /\ cases \subseteq CaseRow
      /\ applied \subseteq 1..commands
  BY DEF CaseInv, CaseTypes
<1>2. r \in CaseJob /\ r.step = step /\ r.number = commands + 1
  BY <1>1 DEF CaseJob, Cases!Steps
<1>3. jobs[m] = NoJob /\ commands' = commands + 1 /\ jobs' = [jobs EXCEPT ![m] = r]
  BY DEF Cases!Begin, Cases!Free
<1>4. k = commands + 1 /\ k \notin applied /\ k \notin RecordedCases
  BY <1>3, NumberIsOwn DEF NumberOf
<1> HIDE DEF r, k
<1>5. r # NoJob
  BY <1>2
<1>6. applied \subseteq applied' /\ applied' \subseteq applied \cup {k} /\ applied' \subseteq 1..commands'
  BY <1>1, <1>3, <1>4
<1>7. RecordedCases' = RecordedCases
  BY DEF RecordedCases, Cases!CommandsOf
<1>8. Cases!NoticesAreTrue'
  <2>1. \A n \in Mods : Cases!At(n, "act") => Cases!At(n, "act")' /\ jobs'[n] = jobs[n]
    BY <1>3, CaseFrame DEF Cases!At
  <2> QED BY <1>6, <2>1 DEF CaseInv, Cases!NoticesAreTrue
<1>9. Cases!CasesAreTrue'
  <2>1. \A n \in Mods : Cases!At(n, "record") => Cases!At(n, "record")' /\ jobs'[n] = jobs[n]
    BY <1>3, CaseFrame DEF Cases!At
  <2>2. ASSUME NEW n \in applied' \ unsaved'
        PROVE  n \in RecordedCases' \/ \E i \in Mods : Cases!At(i, "record")' /\ jobs'[i].number = n
    <3>1. CASE n \in applied
      BY <1>7, <2>1, <2>2, <3>1 DEF CaseInv, Cases!CasesAreTrue, RecordedCases
    <3>2. CASE n \notin applied
      <4>1. n = k /\ step = "record"
        BY <1>4, <1>6, <2>2, <3>2
      <4>2. jobs'[m] = r
        BY <1>3, CaseFrame
      <4>3. Cases!At(m, "record")' /\ jobs'[m].number = n
        BY <1>2, <1>4, <1>5, <4>1, <4>2 DEF Cases!At
      <4> QED BY <4>3
    <3> QED BY <3>1, <3>2
  <2>3. RecordedCases' \subseteq applied'
    BY <1>6, <1>7 DEF CaseInv, Cases!CasesAreTrue, RecordedCases
  <2> QED BY <2>2, <2>3 DEF CaseInv, Cases!CasesAreTrue, RecordedCases
<1>10. k \in applied' <=> step = "record"
  BY <1>4
<1>11. RowsFit(m)
  <2>1. k = NumberOf(m)
    BY DEF k
  <2> QED BY <1>1, <1>3, <1>6, <1>7, <2>1 DEF RowsFit
<1>12. JobFits(m, r)
  <2>1. k = NumberOf(m)
    BY DEF k
  <2>2. r.number <= commands'
    BY <1>1, <1>2, <1>3
  <2> QED BY <1>2, <1>3, <1>4, <1>7, <1>10, <2>1, <2>2 DEF JobFits
<1> QED BY <1>8, <1>9, <1>11, <1>12, CaseStep

\* A command goes on to a step that records nothing, or ends.
LEMMA CaseGoesOn ==
  ASSUME CaseInv, NoJob \notin CaseJob, NEW m \in Mods, jobs[m] # NoJob,
         jobs[m].step \notin {"act", "record"},
         NEW r, jobs' = [jobs EXCEPT ![m] = r],
         \/ r = NoJob
         \/ r \in CaseJob /\ r.number = jobs[m].number /\ r.step = "clear",
         prompt' \in [Mods -> [answer : Cases!Answers, by : People \cup {Nobody}]],
         errors' \in Nat, UNCHANGED <<cases, lastCase, notices, commands, applied, unsaved, undeleted>>
  PROVE  CaseInv'
<1> DEFINE k == NumberOf(m)
<1>1. /\ commands \in Nat /\ lastCase \in Nat /\ cases \subseteq CaseRow
      /\ applied \subseteq 1..commands /\ jobs[m].number \in 1..commands
  BY DEF CaseInv, CaseTypes, AtWork
<1>2. k = jobs[m].number
  BY DEF NumberOf
<1>3. Cases!CasesAreTrue' /\ Cases!NoticesAreTrue'
  BY KeepsCases, KeepsNotices
<1>4. RecordedCases' = RecordedCases
  BY DEF RecordedCases, Cases!CommandsOf
<1> HIDE DEF k
<1>5. k \in Nat /\ k <= commands' /\ commands' = commands
  BY <1>1, <1>2
<1>6. JobFits(m, r)
  BY <1>2, <1>5 DEF JobFits, k
<1>7. RowsFit(m)
  BY <1>1, <1>4, <1>5 DEF RowsFit
<1> QED BY <1>3, <1>6, <1>7, CaseStep

\* What a command at one of its steps is.
LEMMA CaseAt ==
  ASSUME CaseInv, NoJob \notin CaseJob, NEW m \in Mods, NEW step, Cases!At(m, step)
  PROVE  /\ jobs[m] \in CaseJob /\ jobs[m] # NoJob /\ jobs[m].step = step
         /\ jobs[m].number \in 1..commands /\ NumberOf(m) = jobs[m].number
         /\ step \in {"notify", "act"} => jobs[m].number \notin applied
         /\ step = "record" => jobs[m].number \in applied /\ jobs[m].number \notin RecordedCases
         /\ step = "tell" => jobs[m].number \in applied
BY DEF CaseInv, CaseTypes, AtWork, Cases!At, NumberOf

\* The next step of the same command.
LEMMA NextCaseStep ==
  ASSUME NEW j \in CaseJob, NEW step \in Cases!Steps
  PROVE  /\ [j EXCEPT !.step = step] \in CaseJob
         /\ [j EXCEPT !.step = step].step = step
         /\ [j EXCEPT !.step = step].number = j.number
BY DEF CaseJob

LEMMA CaseNotify ==
  ASSUME CaseInv, NoJob \notin CaseJob, NEW m \in Mods, Cases!NotifyFirst(m)
  PROVE  CaseInv'
<1> DEFINE r == [jobs[m] EXCEPT !.step = "act"]
           k == jobs[m].number
<1>1. /\ jobs[m] \in CaseJob /\ jobs[m] # NoJob /\ jobs[m].step = "notify"
      /\ k \in 1..commands /\ NumberOf(m) = k /\ k \notin applied
  BY CaseAt DEF Cases!NotifyFirst
<1>2. /\ jobs' = [jobs EXCEPT ![m] = r]
      /\ UNCHANGED <<cases, lastCase, prompt, commands, errors, applied, unsaved, undeleted>>
  BY DEF Cases!NotifyFirst, Cases!To, Cases!table, Cases!ghosts
<1>3. notices' \subseteq notices \cup {k}
  BY DEF Cases!NotifyFirst, Cases!SendNotice
<1>4. r \in CaseJob /\ r # NoJob /\ r.step = "act" /\ r.number = k
  <2>1. "act" \in Cases!Steps
    BY DEF Cases!Steps
  <2> QED BY <1>1, <2>1, NextCaseStep
<1> HIDE DEF r, k
<1>5. RecordedCases' = RecordedCases
  BY <1>2 DEF RecordedCases, Cases!CommandsOf
<1>6. JobFits(m, r)
  BY <1>1, <1>2, <1>4 DEF JobFits, CaseInv, CaseTypes
<1>7. RowsFit(m)
  BY <1>2, <1>5 DEF RowsFit, CaseInv, CaseTypes
<1>8. Cases!CasesAreTrue'
  BY <1>1, <1>2, KeepsCases
<1>9. Cases!NoticesAreTrue'
  BY <1>1, <1>2, <1>3, <1>4, KeepsNotices
<1> QED BY <1>6, <1>7, <1>8, <1>9, CaseStep

LEMMA CaseAct ==
  ASSUME CaseInv, NoJob \notin CaseJob, NEW m \in Mods, Cases!Act(m)
  PROVE  CaseInv'
<1> DEFINE r == [jobs[m] EXCEPT !.step = "record"]
           k == jobs[m].number
<1>1. /\ jobs[m] \in CaseJob /\ jobs[m] # NoJob /\ jobs[m].step = "act"
      /\ k \in 1..commands /\ NumberOf(m) = k /\ k \notin applied
  BY CaseAt DEF Cases!Act
<1>2. /\ jobs' = [jobs EXCEPT ![m] = r] /\ applied' = applied \cup {k}
      /\ UNCHANGED <<cases, lastCase, notices, prompt, commands, errors, unsaved, undeleted>>
  BY DEF Cases!Act, Cases!To, Cases!table
<1>4. r \in CaseJob /\ r # NoJob /\ r.step = "record" /\ r.number = k
  <2>1. "record" \in Cases!Steps
    BY DEF Cases!Steps
  <2> QED BY <1>1, <2>1, NextCaseStep
<1> HIDE DEF r, k
<1>5. RecordedCases' = RecordedCases
  BY <1>2 DEF RecordedCases, Cases!CommandsOf
<1>6. JobFits(m, r)
  <2>1. k \notin RecordedCases
    BY <1>1 DEF CaseInv, Cases!CasesAreTrue, RecordedCases
  <2> QED BY <1>1, <1>2, <1>4, <1>5, <2>1 DEF JobFits, CaseInv, CaseTypes
<1>7. RowsFit(m)
  BY <1>1, <1>2, <1>5 DEF RowsFit, CaseInv, CaseTypes
<1>8. /\ \A n \in Mods \ {m} : jobs'[n] = jobs[n]
      /\ jobs'[m] = r
  BY <1>2, CaseFrame
<1>9. Cases!CasesAreTrue'
  <2>1. \A n \in Mods : Cases!At(n, "record") => Cases!At(n, "record")' /\ jobs'[n] = jobs[n]
    BY <1>1, <1>8 DEF Cases!At
  <2>2. Cases!At(m, "record")' /\ jobs'[m].number = k
    BY <1>4, <1>8 DEF Cases!At
  <2>3. \A n \in applied \ unsaved : n \in RecordedCases \/ \E i \in Mods : Cases!At(i, "record")' /\ jobs'[i].number = n
    BY <2>1 DEF CaseInv, Cases!CasesAreTrue, RecordedCases
  <2> QED BY <1>2, <1>5, <2>2, <2>3 DEF CaseInv, Cases!CasesAreTrue, RecordedCases
<1>10. Cases!NoticesAreTrue'
  <2>1. \A n \in Mods \ {m} : Cases!At(n, "act") => Cases!At(n, "act")' /\ jobs'[n] = jobs[n]
    BY <1>2, OthersAtWork
  <2>2. \A n \in notices : n \in applied \cup undeleted \/ \E i \in Mods : Cases!At(i, "act") /\ jobs[i].number = n
    BY DEF CaseInv, Cases!NoticesAreTrue
  <2>3. k = jobs[m].number
    BY DEF k
  <2> QED BY <1>2, <2>1, <2>2, <2>3 DEF Cases!NoticesAreTrue
<1> QED BY <1>6, <1>7, <1>9, <1>10, CaseStep

LEMMA CaseRefused ==
  ASSUME CaseInv, NoJob \notin CaseJob, NEW m \in Mods, Cases!Refused(m)
  PROVE  CaseInv'
<1> DEFINE k == jobs[m].number
<1>1. /\ jobs[m] \in CaseJob /\ jobs[m] # NoJob /\ jobs[m].step = "act"
      /\ k \in 1..commands /\ NumberOf(m) = k /\ k \notin applied
  BY CaseAt DEF Cases!Refused
<1>2. /\ jobs' = [jobs EXCEPT ![m] = NoJob]
      /\ UNCHANGED <<cases, lastCase, prompt, commands, applied, unsaved>>
  BY DEF Cases!Refused, Cases!End, Cases!table
<1>3. \/ notices' = notices \ {k} /\ undeleted' = undeleted
      \/ notices' = notices /\ undeleted' = undeleted \cup (notices \cap {k})
  BY DEF Cases!Refused
<1>4. errors' \in Nat
  <2>1. errors \in Nat
    BY DEF CaseInv, CaseTypes
  <2> QED BY <2>1 DEF Cases!Refused
<1>5. k = jobs[m].number
  OBVIOUS
<1> HIDE DEF k
<1>6. RecordedCases' = RecordedCases
  BY <1>2 DEF RecordedCases, Cases!CommandsOf
<1>7. JobFits(m, NoJob)
  BY <1>2 DEF JobFits
<1>8. RowsFit(m)
  BY <1>2, <1>4, <1>6 DEF RowsFit, CaseInv, CaseTypes
<1>9. Cases!CasesAreTrue'
  BY <1>1, <1>2, KeepsCases
<1>10. Cases!NoticesAreTrue'
  <2>1. \A n \in Mods \ {m} : Cases!At(n, "act") => Cases!At(n, "act")' /\ jobs'[n] = jobs[n]
    BY <1>2, OthersAtWork
  <2>2. \A n \in notices : n \in applied \cup undeleted \/ \E i \in Mods : Cases!At(i, "act") /\ jobs[i].number = n
    BY DEF CaseInv, Cases!NoticesAreTrue
  <2>3. \A n \in notices : n = k \/ n \in applied \cup undeleted
                           \/ \E i \in Mods : Cases!At(i, "act")' /\ jobs'[i].number = n
    BY <1>5, <2>1, <2>2
  <2> QED BY <1>2, <1>3, <2>3 DEF Cases!NoticesAreTrue
<1> QED BY <1>7, <1>8, <1>9, <1>10, CaseStep

LEMMA CaseRecord ==
  ASSUME CaseInv, NoJob \notin CaseJob, NEW m \in Mods, Cases!Record(m)
  PROVE  CaseInv'
<1> DEFINE k == jobs[m].number
           filed == [id |-> lastCase + 1, command |-> k, person |-> jobs[m].person,
                   action |-> jobs[m].how, reason |-> "given"]
           r == IF jobs[m].how.first THEN NoJob ELSE [jobs[m] EXCEPT !.step = "tell"]
<1>1. /\ jobs[m] \in CaseJob /\ jobs[m] # NoJob /\ jobs[m].step = "record"
      /\ k \in 1..commands /\ NumberOf(m) = k /\ k \in applied /\ k \notin RecordedCases
  BY CaseAt DEF Cases!Record
<1>2. /\ jobs' = [jobs EXCEPT ![m] = r]
      /\ UNCHANGED <<notices, prompt, commands, applied, undeleted>>
  BY DEF Cases!Record, Cases!End, Cases!To
<1>3. \/ /\ lastCase' = lastCase + 1 /\ cases' = cases \cup {filed}
         /\ UNCHANGED <<errors, unsaved>>
      \/ /\ errors' = errors + 1 /\ unsaved' = unsaved \cup {k}
         /\ UNCHANGED <<cases, lastCase>>
  BY DEF Cases!Record, Cases!Fails, Cases!table
<1>4. \/ r = NoJob
      \/ r \in CaseJob /\ r # NoJob /\ r.step = "tell" /\ r.number = k
  <2>1. "tell" \in Cases!Steps
    BY DEF Cases!Steps
  <2> QED BY <1>1, <2>1, NextCaseStep
<1>5. filed \in CaseRow /\ filed.command = k
  BY <1>1 DEF CaseRow, CaseJob, CaseInv, CaseTypes
<1>6. k = jobs[m].number
  OBVIOUS
<1> HIDE DEF r, k, filed
<1>7. \/ cases' = cases \cup {filed} /\ RecordedCases' = RecordedCases \cup {k} /\ unsaved' = unsaved
      \/ cases' = cases /\ RecordedCases' = RecordedCases /\ unsaved' = unsaved \cup {k}
  BY <1>3, <1>5 DEF RecordedCases, Cases!CommandsOf
<1>8. JobFits(m, r)
  BY <1>1, <1>2, <1>4 DEF JobFits, CaseInv, CaseTypes
<1>9. RowsFit(m)
  <2>1. errors' \in Nat /\ lastCase' \in Nat
    BY <1>3 DEF CaseInv, CaseTypes
  <2>2. cases' \subseteq CaseRow /\ RecordedCases' \subseteq RecordedCases \cup {k}
    BY <1>5, <1>7 DEF CaseInv, CaseTypes
  <2> QED BY <1>1, <1>2, <2>1, <2>2 DEF RowsFit, CaseInv, CaseTypes
<1>10. Cases!CasesAreTrue'
  <2>1. RecordedCases' \subseteq applied'
    BY <1>1, <1>2, <1>7 DEF CaseInv, Cases!CasesAreTrue, RecordedCases
  <2>2. ASSUME NEW c \in cases', NEW d \in cases', c.command = d.command PROVE c = d
    <3>1. \A e \in cases : e.command # k
      BY <1>1 DEF RecordedCases, Cases!CommandsOf
    <3> QED BY <1>5, <1>7, <2>2, <3>1 DEF CaseInv, Cases!CasesAreTrue
  <2>3. ASSUME NEW n \in applied' \ unsaved'
        PROVE  n \in RecordedCases' \/ \E i \in Mods : Cases!At(i, "record")' /\ jobs'[i].number = n
    <3>1. CASE n = k
      BY <1>7, <2>3, <3>1
    <3>2. CASE n # k
      <4>1. n \in RecordedCases \/ \E i \in Mods : Cases!At(i, "record") /\ jobs[i].number = n
        BY <1>2, <1>7, <2>3 DEF CaseInv, Cases!CasesAreTrue, RecordedCases
      <4>2. CASE n \in RecordedCases
        BY <1>7, <4>2
      <4>3. CASE \E i \in Mods : Cases!At(i, "record") /\ jobs[i].number = n
        <5>1. PICK i \in Mods : Cases!At(i, "record") /\ jobs[i].number = n
          BY <4>3
        <5>2. i # m
          BY <1>6, <3>2, <5>1
        <5> QED BY <1>2, <5>1, <5>2, OthersAtWork
      <4> QED BY <4>1, <4>2, <4>3
    <3> QED BY <3>1, <3>2
  <2> QED BY <2>1, <2>2, <2>3 DEF Cases!CasesAreTrue, RecordedCases
<1>11. Cases!NoticesAreTrue'
  BY <1>1, <1>2, KeepsNotices
<1> QED BY <1>8, <1>9, <1>10, <1>11, CaseStep

LEMMA CaseTell ==
  ASSUME CaseInv, NoJob \notin CaseJob, NEW m \in Mods, Cases!Tell(m)
  PROVE  CaseInv'
<1> DEFINE k == jobs[m].number
<1>1. /\ jobs[m] \in CaseJob /\ jobs[m] # NoJob /\ jobs[m].step = "tell" /\ k \in applied
  BY CaseAt DEF Cases!Tell
<1>2. /\ jobs' = [jobs EXCEPT ![m] = NoJob]
      /\ UNCHANGED <<cases, lastCase, prompt, commands, errors, applied, unsaved, undeleted>>
  BY DEF Cases!Tell, Cases!End, Cases!table, Cases!ghosts
<1>3. notices' \subseteq notices \cup {k}
  BY DEF Cases!Tell, Cases!SendNotice
<1> HIDE DEF k
<1>4. RecordedCases' = RecordedCases
  BY <1>2 DEF RecordedCases, Cases!CommandsOf
<1>5. JobFits(m, NoJob)
  BY <1>2 DEF JobFits
<1>6. RowsFit(m)
  BY <1>2, <1>4 DEF RowsFit, CaseInv, CaseTypes
<1>7. Cases!CasesAreTrue'
  BY <1>1, <1>2, KeepsCases
<1>8. Cases!NoticesAreTrue'
  BY <1>1, <1>2, <1>3, KeepsNotices
<1> QED BY <1>5, <1>6, <1>7, <1>8, CaseStep

\* Rows go, or a filed changes its reason: m runs nothing, or ends.
LEMMA RowsGo ==
  ASSUME CaseInv, NoJob \notin CaseJob, NEW m \in Mods, jobs' = [jobs EXCEPT ![m] = NoJob],
         jobs[m] # NoJob => jobs[m].step \notin {"act", "record"},
         cases' \subseteq CaseRow, commands' \in {commands, commands + 1}, errors' \in Nat,
         \A c, d \in cases' : c.command = d.command => c = d,
         RecordedCases' \subseteq RecordedCases, RecordedCases \ RecordedCases' \subseteq unsaved',
         unsaved \subseteq unsaved', UNCHANGED <<lastCase, notices, prompt, applied, undeleted>>
  PROVE  CaseInv'
<1>1. JobFits(m, NoJob)
  BY DEF JobFits
<1>2. RowsFit(m)
  <2>1. applied \subseteq 1..commands'
    BY DEF CaseInv, CaseTypes
  <2> QED BY <2>1 DEF RowsFit, CaseInv, CaseTypes
<1>3. Cases!CasesAreTrue'
  <2>1. RecordedCases' \subseteq applied'
    BY DEF CaseInv, Cases!CasesAreTrue, RecordedCases
  <2>2. ASSUME NEW n \in applied' \ unsaved'
        PROVE  n \in RecordedCases' \/ \E i \in Mods : Cases!At(i, "record")' /\ jobs'[i].number = n
    <3>1. n \in RecordedCases \/ \E i \in Mods : Cases!At(i, "record") /\ jobs[i].number = n
      BY <2>2 DEF CaseInv, Cases!CasesAreTrue, RecordedCases
    <3>2. CASE n \in RecordedCases
      BY <2>2, <3>2
    <3>3. CASE \E i \in Mods : Cases!At(i, "record") /\ jobs[i].number = n
      <4>1. PICK i \in Mods : Cases!At(i, "record") /\ jobs[i].number = n
        BY <3>3
      <4>2. i # m
        BY <4>1 DEF Cases!At
      <4> QED BY <4>1, <4>2, OthersAtWork
    <3> QED BY <3>1, <3>2, <3>3
  <2> QED BY <2>1, <2>2 DEF Cases!CasesAreTrue, RecordedCases
<1>4. Cases!NoticesAreTrue'
  BY KeepsNotices
<1> QED BY <1>1, <1>2, <1>3, <1>4, CaseStep

LEMMA RowsOfCases == ASSUME CaseInv PROVE cases \subseteq CaseRow /\ \A c, d \in cases : c.command = d.command => c = d
BY DEF CaseInv, CaseTypes, Cases!CasesAreTrue

LEMMA CaseDeleted ==
  ASSUME CaseInv, NoJob \notin CaseJob, NEW m \in Mods, NEW id, Cases!DeleteCase(m, id)
  PROVE  CaseInv'
<1>1. /\ jobs[m] = NoJob /\ jobs' = jobs /\ commands' = commands + 1 /\ errors' = errors
      /\ cases' = cases \ Cases!Numbered(id)
      /\ unsaved' = unsaved \cup Cases!CommandsOf(Cases!Numbered(id))
      /\ UNCHANGED <<lastCase, notices, prompt, applied, undeleted>>
  BY DEF Cases!DeleteCase
<1>2. jobs' = [jobs EXCEPT ![m] = NoJob]
  BY <1>1 DEF CaseInv, CaseTypes
<1>3. RecordedCases' \subseteq RecordedCases /\ RecordedCases \ RecordedCases' \subseteq unsaved'
  BY <1>1 DEF RecordedCases, Cases!CommandsOf, Cases!Numbered
<1>4. errors' \in Nat
  BY <1>1 DEF CaseInv, CaseTypes
<1> QED BY <1>1, <1>2, <1>3, <1>4, RowsOfCases, RowsGo

LEMMA CaseEdited ==
  ASSUME CaseInv, NoJob \notin CaseJob, NEW m \in Mods, Cases!UpdateModCaseReason(m)
  PROVE  CaseInv'
<1> DEFINE id == jobs[m].id
           edited(c) == IF c.id = id THEN [c EXCEPT !.reason = "edited"] ELSE c
<1>1. /\ jobs' = [jobs EXCEPT ![m] = NoJob] /\ jobs[m] # NoJob /\ jobs[m].step = "edit"
      /\ cases' = {edited(c) : c \in cases}
      /\ UNCHANGED <<lastCase, notices, prompt, commands, errors, applied, unsaved, undeleted>>
  BY DEF Cases!UpdateModCaseReason, Cases!At, Cases!End, Cases!ghosts
<1>2. \A c \in CaseRow : edited(c) \in CaseRow /\ edited(c).command = c.command
  BY DEF CaseRow
<1> HIDE DEF id, edited
<1>3. \A c \in cases : edited(c) \in CaseRow /\ edited(c).command = c.command
  BY <1>2, RowsOfCases
<1>4. cases' \subseteq CaseRow
  BY <1>1, <1>3
<1>5. RecordedCases' = RecordedCases
  BY <1>1, <1>3 DEF RecordedCases, Cases!CommandsOf
<1>6. ASSUME NEW c \in cases', NEW d \in cases', c.command = d.command PROVE c = d
  <2>1. PICK a \in cases : c = edited(a)
    BY <1>1
  <2>2. PICK b \in cases : d = edited(b)
    BY <1>1
  <2>3. a.command = b.command
    BY <1>3, <1>6, <2>1, <2>2
  <2>4. a = b
    BY <2>3, RowsOfCases
  <2> QED BY <2>1, <2>2, <2>4
<1>7. errors' \in Nat
  BY <1>1 DEF CaseInv, CaseTypes
<1> QED BY <1>1, <1>4, <1>5, <1>6, <1>7, RowsGo

LEMMA CasesCleared ==
  ASSUME CaseInv, NoJob \notin CaseJob, NEW m \in Mods, Cases!DeleteAllModCases(m)
  PROVE  CaseInv'
<1>1. /\ jobs' = [jobs EXCEPT ![m] = NoJob] /\ jobs[m] # NoJob /\ jobs[m].step = "clear"
      /\ UNCHANGED <<lastCase, notices, prompt, commands, applied, undeleted>>
  BY DEF Cases!DeleteAllModCases, Cases!At, Cases!End
<1>2. \/ /\ cases' = {} /\ errors' = errors
         /\ unsaved' = unsaved \cup Cases!CommandsOf(cases)
      \/ cases' = cases /\ unsaved' = unsaved /\ errors' = errors + 1
  BY DEF Cases!DeleteAllModCases, Cases!Fails
<1>3. /\ RecordedCases' \subseteq RecordedCases /\ RecordedCases \ RecordedCases' \subseteq unsaved'
      /\ cases' \subseteq cases /\ unsaved \subseteq unsaved'
  BY <1>2 DEF RecordedCases, Cases!CommandsOf
<1>4. errors' \in Nat
  BY <1>2 DEF CaseInv, CaseTypes
<1>5. cases' \subseteq CaseRow /\ \A c, d \in cases' : c.command = d.command => c = d
  BY <1>3, RowsOfCases
<1> QED BY <1>1, <1>3, <1>4, <1>5, RowsGo

LEMMA CasePunishes ==
  ASSUME CaseInv, NoJob \notin CaseJob, NEW m \in Mods, NEW p \in People,
         NEW c \in Cases!Punishments, Cases!Punish(m, p, c)
  PROVE  CaseInv'
<1> DEFINE step == IF c.first THEN "notify" ELSE IF c = Cases!Warn THEN "record" ELSE "act"
<1>1. /\ Cases!Begin(m, step, p, c, 0)
      /\ applied' = IF c = Cases!Warn THEN applied \cup {commands + 1} ELSE applied
      /\ UNCHANGED <<cases, lastCase, notices, prompt, errors, unsaved, undeleted>>
  BY DEF Cases!Punish, Cases!table
<1>2. step \in {"notify", "record", "act", "edit", "ask"}
  OBVIOUS
<1>3. ~Cases!Warn.first
  BY DEF Cases!Warn, Cases!Plain
<1>4. step = "record" <=> c = Cases!Warn
  BY <1>3
<1> HIDE DEF step
<1>5. prompt' \in [Mods -> [answer : Cases!Answers, by : People \cup {Nobody}]]
  BY <1>1 DEF CaseInv, CaseTypes
<1> QED BY <1>1, <1>2, <1>4, <1>5, CaseBegins

LEMMA CaseIsLookedUp ==
  ASSUME CaseInv, NoJob \notin CaseJob, NEW m \in Mods, NEW id \in Nat,
         Cases!Reason(m, id) \/ Cases!AskToClear(m)
  PROVE  CaseInv'
<1>1. Nobody \in People \cup {Nobody} /\ Cases!Warn \in Cases!Punishments
  BY DEF Cases!Punishments
<1>2. CASE Cases!Reason(m, id)
  <2>1. /\ Cases!Begin(m, "edit", Nobody, Cases!Warn, id)
        /\ UNCHANGED <<cases, lastCase, notices, prompt, errors, applied, unsaved, undeleted>>
    BY <1>2 DEF Cases!Reason, Cases!table, Cases!ghosts
  <2>2. prompt' \in [Mods -> [answer : Cases!Answers, by : People \cup {Nobody}]]
    BY <2>1 DEF CaseInv, CaseTypes
  <2> QED BY <1>1, <2>1, <2>2, CaseBegins
<1>3. CASE Cases!AskToClear(m)
  <2>1. /\ Cases!Begin(m, "ask", Nobody, Cases!Warn, 0)
        /\ UNCHANGED <<cases, lastCase, notices, errors, applied, unsaved, undeleted>>
    BY <1>3 DEF Cases!AskToClear, Cases!table, Cases!ghosts
  <2>2. prompt' \in [Mods -> [answer : Cases!Answers, by : People \cup {Nobody}]]
    BY <1>1, <1>3 DEF Cases!AskToClear, CaseInv, CaseTypes, Cases!Answers
  <2> QED BY <1>1, <2>1, <2>2, CaseBegins
<1> QED BY <1>2, <1>3

LEMMA CaseAnswered ==
  ASSUME CaseInv, NoJob \notin CaseJob, NEW m \in Mods, Cases!TakeAnswer(m) \/ Cases!PromptExpires(m)
  PROVE  CaseInv'
<1> DEFINE asked == [jobs[m] EXCEPT !.step = "clear", !.person = prompt[m].by]
           r == IF Cases!TakeAnswer(m) /\ prompt[m].answer # "no" THEN asked ELSE NoJob
<1>1. Cases!At(m, "ask")
  BY DEF Cases!TakeAnswer, Cases!PromptExpires
<1>2. jobs[m] \in CaseJob /\ jobs[m] # NoJob /\ jobs[m].step = "ask"
  BY <1>1, CaseAt
<1>3. /\ prompt \in [Mods -> [answer : Cases!Answers, by : People \cup {Nobody}]] /\ errors \in Nat
      /\ Cases!Silent \in [answer : Cases!Answers, by : People \cup {Nobody}]
  BY DEF CaseInv, CaseTypes, Cases!Silent, Cases!Answers
<1>4. asked \in CaseJob /\ asked.step = "clear" /\ asked.number = jobs[m].number
  BY <1>2, <1>3 DEF CaseJob, Cases!Steps
<1>5. jobs' = [jobs EXCEPT ![m] = r]
  <2>1. CASE Cases!TakeAnswer(m)
    BY <2>1 DEF Cases!TakeAnswer
  <2>2. CASE ~Cases!TakeAnswer(m)
    BY <2>2 DEF Cases!PromptExpires, Cases!End
  <2> QED BY <2>1, <2>2
<1>6. /\ prompt' = [prompt EXCEPT ![m] = Cases!Silent]
      /\ UNCHANGED <<cases, lastCase, notices, commands, errors, applied, unsaved, undeleted>>
  BY DEF Cases!TakeAnswer, Cases!PromptExpires, Cases!table, Cases!ghosts
<1>7. prompt' \in [Mods -> [answer : Cases!Answers, by : People \cup {Nobody}]]
  BY <1>3, <1>6
<1>8. \/ r = NoJob
      \/ r \in CaseJob /\ r.number = jobs[m].number /\ r.step = "clear"
  BY <1>4
<1> HIDE DEF r, asked
<1> QED BY <1>2, <1>3, <1>5, <1>6, <1>7, <1>8, CaseGoesOn

\* People move, a mark goes or a button is pressed: no command goes on.
LEMMA NobodyWorks ==
  ASSUME CaseInv, UNCHANGED <<cases, lastCase, notices, jobs, commands, errors, applied, unsaved, undeleted>>,
         prompt' \in [Mods -> [answer : Cases!Answers, by : People \cup {Nobody}]]
  PROVE  CaseInv'
<1>1. RecordedCases' = RecordedCases
  BY DEF RecordedCases, Cases!CommandsOf
<1>2. CaseTypes'
  BY DEF CaseInv, CaseTypes
<1>3. OwnNumbers' /\ \A m \in Mods : AtWork(m)'
  BY <1>1 DEF CaseInv, OwnNumbers, AtWork
<1>4. Cases!CasesAreTrue'
  BY <1>1 DEF CaseInv, Cases!CasesAreTrue, Cases!At, RecordedCases
<1>5. Cases!NoticesAreTrue'
  BY DEF CaseInv, Cases!NoticesAreTrue, Cases!At
<1> QED BY <1>2, <1>3, <1>4, <1>5 DEF CaseInv

LEMMA CaseInit == ASSUME Cases!Init PROVE CaseInv
<1>1. CaseTypes
  BY DEF Cases!Init, CaseTypes, Cases!Silent, Cases!Answers
<1>2. OwnNumbers /\ \A m \in Mods : AtWork(m)
  BY DEF Cases!Init, OwnNumbers, AtWork
<1>3. Cases!CasesAreTrue /\ Cases!NoticesAreTrue
  BY DEF Cases!Init, Cases!CasesAreTrue, Cases!NoticesAreTrue, Cases!CommandsOf
<1> QED BY <1>1, <1>2, <1>3 DEF CaseInv

LEMMA CaseKeeps ==
  ASSUME NoJob \notin CaseJob, CaseInv, [Cases!Next]_(Cases!vars) PROVE CaseInv'
<1>0. prompt \in [Mods -> [answer : Cases!Answers, by : People \cup {Nobody}]]
  BY DEF CaseInv, CaseTypes
<1>1. ASSUME NEW m \in Mods, NEW p \in People, NEW c \in Cases!Punishments, Cases!Punish(m, p, c)
      PROVE  CaseInv'
  BY <1>1, CasePunishes
<1>2. ASSUME NEW m \in Mods, NEW p \in People, Cases!VCUnmute(m, p) \/ Cases!VCUndeafen(m, p)
      PROVE  CaseInv'
  BY <1>0, <1>2, NobodyWorks
     DEF Cases!VCUnmute, Cases!VCUndeafen, Cases!UnmarkInVoice, Cases!table, Cases!ghosts
<1>3. ASSUME NEW m \in Mods, NEW p \in People, NEW answer \in {"yes", "no"}, Cases!Press(m, p, answer)
      PROVE  CaseInv'
  <2>1. prompt' \in [Mods -> [answer : Cases!Answers, by : People \cup {Nobody}]]
    BY <1>0, <1>3 DEF Cases!Press, Cases!Answers
  <2> QED BY <1>3, <2>1, NobodyWorks DEF Cases!Press, Cases!table, Cases!ghosts
<1>4. ASSUME NEW m \in Mods,
             \/ Cases!NotifyFirst(m) \/ Cases!Act(m) \/ Cases!Refused(m) \/ Cases!Record(m) \/ Cases!Tell(m)
      PROVE  CaseInv'
  BY <1>4, CaseNotify, CaseAct, CaseRefused, CaseRecord, CaseTell
<1>5. ASSUME NEW m \in Mods, NEW id \in Cases!Numbers, Cases!DeleteCase(m, id) \/ Cases!Reason(m, id)
      PROVE  CaseInv'
  BY <1>5, CaseDeleted, CaseIsLookedUp DEF Cases!Numbers
<1>6. ASSUME NEW m \in Mods,
             \/ Cases!UpdateModCaseReason(m) \/ Cases!TakeAnswer(m) \/ Cases!PromptExpires(m)
             \/ Cases!DeleteAllModCases(m)
      PROVE  CaseInv'
  BY <1>6, CaseEdited, CaseAnswered, CasesCleared
<1>7. ASSUME NEW m \in Mods, Cases!AskToClear(m)
      PROVE  CaseInv'
  <2>1. 0 \in Nat
    OBVIOUS
  <2> QED BY <1>7, <2>1, CaseIsLookedUp
<1>8. ASSUME NEW p \in People, Cases!MoveAbout(p)
      PROVE  CaseInv'
  BY <1>0, <1>8, NobodyWorks DEF Cases!MoveAbout, Cases!table, Cases!ghosts
<1>9. CASE UNCHANGED Cases!vars
  BY <1>0, <1>9, NobodyWorks DEF Cases!vars, Cases!table, Cases!ghosts
<1> QED BY <1>1, <1>2, <1>3, <1>4, <1>5, <1>6, <1>7, <1>8, <1>9 DEF Cases!Next

CaseWhenRun == focus = "moderation" => CaseInv

\* The moderation record is true: a case stands for one punishment that was carried out,
\* a punishment that was carried out has its case unless the row could not be written or
\* was deleted, and nobody keeps a message about a punishment that did not happen, unless
\* it could not be taken back (commands/moderation: executePunishment, the cases table).
THEOREM ModerationIsTrueAlways ==
    ASSUME NoJob \notin CaseJob
    PROVE  ServicesSpec => []ModerationIsTrue
<1>1. ServicesInit => CaseWhenRun
  BY InitOfOne, CaseInit DEF CaseWhenRun
<1>2. CaseWhenRun /\ [ServicesNext]_<<focus, From1, lockVars>> => CaseWhenRun'
  BY StepOfOne, CaseKeeps DEF CaseWhenRun
<1>3. CaseWhenRun => ModerationIsTrue
  BY DEF CaseWhenRun, CaseInv, ModerationIsTrue, Cases!ModerationIsTrue
<1> QED BY <1>1, <1>2, <1>3, PTL DEF ServicesSpec

-----------------------------------------------------------------------------
(***************************************************************************)
(* Leveling.  The level of some experience is the only one that its        *)
(* squares allow, so that it rises with the experience.  The awards of a   *)
(* minute are of different states, all of them orphaned but the tracker's; *)
(* and while nothing disturbs it, some synchronization still has the       *)
(* difference between the member's roles and the level's in hand, or there *)
(* is none.                                                                *)
(***************************************************************************)

\* The variables by name.
xp == s1
memberLevel == s2
levelRoles == s3
rolesCached == s4
rolesStack == s5
rolesHeld == s6
spamTracker == s7
lastEarned == s8
levelJobs == s9
statesMade == s12
awards == s13
orphaned == s14
levelDisturbed == s15
spamStale == s16
USE DEF xp, memberLevel, levelRoles, rolesCached, rolesStack, rolesHeld, spamTracker, lastEarned,
        levelJobs, statesMade, awards, orphaned, levelDisturbed, spamStale

LevelRoleSets == [1..MaxLevel -> Roles \cup {Nothing}]

LevelJob ==
  {job \in
     [step : {"done", "check", "award", "sync", "invalidate", "put", "level", "member", "apply"},
      state : Nat, how : {""}, amount : {0}, lrs : LevelRoleSets \cup {Nothing}, level : 1..MaxLevel,
      adds : SUBSET Roles, removes : SUBSET Roles] :
   job.step \in {"put", "level", "member"} => job.lrs \in LevelRoleSets}

LevelsAssumed ==
  /\ MaxLevel \in Nat \ {0} /\ Amounts \subseteq Nat
  /\ NoJob \notin LevelJob /\ Nothing \notin LevelRoleSets

\* k squared hundreds, and no more, are in n.
Reaches(n, k) == 100 * k * k <= n /\ (k = MaxLevel - 1 \/ n < 100 * (k + 1) * (k + 1))

LEMMA Squares ==
  ASSUME NEW a \in Nat, NEW b \in Nat, a <= b
  PROVE  100 * a * a <= 100 * b * b /\ 100 * a * a \in Nat
<1>1. a * a <= a * b /\ a * b <= b * b
  OBVIOUS
<1>2. 100 * a * a = 100 * (a * a) /\ 100 * b * b = 100 * (b * b) /\ a * a \in Nat /\ b * b \in Nat /\ a * b \in Nat
  OBVIOUS
<1> QED BY <1>1, <1>2

\* The squares up to n are an initial segment, and its length says which is the last.
LEMMA SomeLevelReaches ==
  ASSUME LevelsAssumed, NEW n \in Nat
  PROVE  \E k \in 0..MaxLevel - 1 : Reaches(n, k)
<1> DEFINE S == {k \in 0..MaxLevel - 1 : 100 * k * k <= n}
           c == Cardinality(S)
<1>0. MaxLevel \in Nat /\ MaxLevel >= 1
  BY DEF LevelsAssumed
<1>1. IsFiniteSet(0..MaxLevel - 1) /\ S \in SUBSET (0..MaxLevel - 1)
  BY <1>0, FS_Interval
<1>2. IsFiniteSet(S) /\ c \in Nat
  BY <1>1, FS_Subset, FS_CardinalityType
<1>3. 0 \in S
  BY <1>0
<1>4. ASSUME NEW k \in S, NEW m \in 0..k PROVE m \in S
  BY <1>0, Squares
<1>5. ASSUME NEW k \in S PROVE k < c
  <2>1. 0..k \in SUBSET S /\ k \in Nat
    BY <1>4
  <2>2. Cardinality(0..k) = k + 1
    BY <2>1, FS_Interval
  <2>3. Cardinality(0..k) <= c
    BY <1>2, <2>1, FS_Subset
  <2> QED BY <1>2, <2>1, <2>2, <2>3
<1>6. Cardinality(S) = c
  OBVIOUS
<1> HIDE DEF c
<1>7. c - 1 \in S
  <2> SUFFICES ASSUME c - 1 \notin S PROVE FALSE
    OBVIOUS
  <2>1. c >= 1
    BY <1>2, <1>3, <1>5
  <2>2. \A k \in S : k <= c - 2
    BY <1>2, <1>5
  <2>3. S \in SUBSET (0..c - 2) /\ c - 2 \in Int /\ 0 \in Int
    BY <1>2, <2>2
  <2>4. IsFiniteSet(0..c - 2) /\ Cardinality(0..c - 2) = IF 0 > c - 2 THEN 0 ELSE c - 2 - 0 + 1
    BY <2>3, FS_Interval
  <2>5. c <= Cardinality(0..c - 2)
    BY <1>6, <2>3, <2>4, FS_Subset
  <2> QED BY <1>2, <2>1, <2>4, <2>5
<1>8. c - 1 \in 0..MaxLevel - 1 /\ 100 * (c - 1) * (c - 1) <= n
  BY <1>7
<1>9. c = MaxLevel \/ n < 100 * c * c
  <2>1. c \notin S
    BY <1>2, <1>5
  <2> QED BY <1>0, <1>2, <1>8, <2>1
<1>10. c - 1 + 1 = c
  BY <1>2
<1> QED BY <1>0, <1>2, <1>8, <1>9, <1>10 DEF Reaches

LEMMA LevelIs ==
  ASSUME LevelsAssumed, NEW n \in Nat
  PROVE  \E k \in 0..MaxLevel - 1 : Reaches(n, k) /\ Levels!CalculateLevel(n) = 1 + k
<1> DEFINE k == CHOOSE k \in 0..MaxLevel - 1 : Reaches(n, k)
<1>1. k \in 0..MaxLevel - 1 /\ Reaches(n, k)
  BY SomeLevelReaches
<1>2. Levels!CalculateLevel(n) = 1 + k
  BY DEF Levels!CalculateLevel, Reaches
<1> QED BY <1>1, <1>2

LEMMA LevelInRange ==
  ASSUME LevelsAssumed, NEW n \in Nat
  PROVE  Levels!CalculateLevel(n) \in 1..MaxLevel
BY LevelIs DEF LevelsAssumed

LEMMA HigherReaches ==
  ASSUME LevelsAssumed, NEW a \in Nat, NEW b \in Nat, a <= b, NEW k \in 0..MaxLevel - 1, Reaches(a, k),
         NEW m \in 0..MaxLevel - 1, Reaches(b, m)
  PROVE  k <= m
<1> SUFFICES ASSUME m < k PROVE FALSE
  BY DEF LevelsAssumed
<1>1. k \in Nat /\ m \in Nat /\ m + 1 \in Nat /\ m + 1 <= k /\ m # MaxLevel - 1 /\ MaxLevel \in Nat
  BY DEF LevelsAssumed
<1>2. 100 * (m + 1) * (m + 1) <= 100 * k * k /\ 100 * (m + 1) * (m + 1) \in Nat /\ 100 * k * k \in Nat
  BY <1>1, Squares
<1>3. b < 100 * (m + 1) * (m + 1) /\ 100 * k * k <= a
  BY <1>1 DEF Reaches
<1> HIDE DEF Reaches
<1> QED BY <1>2, <1>3

LEMMA LevelRises ==
  ASSUME LevelsAssumed, NEW a \in Nat, NEW b \in Nat, a <= b
  PROVE  Levels!CalculateLevel(a) <= Levels!CalculateLevel(b)
<1>1. PICK k \in 0..MaxLevel - 1 : Reaches(a, k) /\ Levels!CalculateLevel(a) = 1 + k
  BY LevelIs
<1>2. PICK m \in 0..MaxLevel - 1 : Reaches(b, m) /\ Levels!CalculateLevel(b) = 1 + m
  BY LevelIs
<1>3. k <= m
  BY <1>1, <1>2, HigherReaches
<1> QED BY <1>1, <1>2, <1>3 DEF LevelsAssumed

\* The experience that a level requires is that of the level.
LEMMA RequiredIsOfLevel ==
  ASSUME LevelsAssumed, NEW l \in 1..MaxLevel
  PROVE  /\ Levels!RequiredXPForLevel(l) \in 0..Levels!MaxSafeXP
         /\ Levels!CalculateLevel(Levels!RequiredXPForLevel(l)) = l
<1> DEFINE n == 100 * (l - 1) * (l - 1)
<1>1. l - 1 \in Nat /\ MaxLevel - 1 \in Nat /\ l - 1 <= MaxLevel - 1 /\ l - 1 \in 0..MaxLevel - 1 /\ l \in Nat
      /\ l - 1 + 1 = l
  BY DEF LevelsAssumed
<1>2. n \in Nat /\ n <= 100 * (MaxLevel - 1) * (MaxLevel - 1)
  BY <1>1, Squares
<1>3. n < 100 * l * l
  <2>1. 100 * l * l = n + 200 * l - 100 /\ l >= 1
    BY <1>1
  <2> QED BY <1>1, <1>2, <2>1
<1>4. Reaches(n, l - 1)
  BY <1>1, <1>2, <1>3 DEF Reaches
<1> HIDE DEF n
<1>5. PICK k \in 0..MaxLevel - 1 : Reaches(n, k) /\ Levels!CalculateLevel(n) = 1 + k
  BY <1>2, LevelIs
<1>6. n <= n
  BY <1>2
<1>7. k <= l - 1 /\ l - 1 <= k
  BY <1>1, <1>2, <1>4, <1>5, <1>6, HigherReaches
<1>8. Levels!CalculateLevel(n) = l
  BY <1>1, <1>5, <1>7
<1>9. Levels!RequiredXPForLevel(l) = n /\ Levels!MaxSafeXP = 100 * (MaxLevel - 1) * (MaxLevel - 1)
  BY DEF Levels!RequiredXPForLevel, Levels!MaxSafeXP, n
<1>10. Levels!MaxSafeXP \in Nat
  BY <1>1, <1>9, Squares
<1> QED BY <1>2, <1>8, <1>9, <1>10

LEMMA SafeXP ==
  ASSUME LevelsAssumed
  PROVE  /\ Levels!MaxSafeXP \in Nat
         /\ Levels!CalculateLevel(0) = 1
<1>1. 1 \in 1..MaxLevel /\ MaxLevel \in 1..MaxLevel /\ MaxLevel - 1 \in Nat
  BY DEF LevelsAssumed
<1>2. Levels!RequiredXPForLevel(1) = 0
  BY DEF Levels!RequiredXPForLevel
<1>3. Levels!MaxSafeXP \in Nat
  BY <1>1, Squares DEF Levels!MaxSafeXP, Levels!RequiredXPForLevel
<1> QED BY <1>1, <1>2, <1>3, RequiredIsOfLevel

LEMMA CappedXP ==
  ASSUME LevelsAssumed, NEW n \in Nat
  PROVE  Levels!Capped(n) \in 0..Levels!MaxSafeXP /\ Levels!Capped(n) <= n
BY SafeXP DEF Levels!Capped

LevelTypes ==
  /\ xp \in 0..Levels!MaxSafeXP /\ memberLevel = Levels!CalculateLevel(xp)
  /\ levelRoles \in LevelRoleSets /\ rolesCached \in LevelRoleSets \cup {Nothing}
  /\ levelJobs \in [Jobs -> LevelJob \cup {NoJob}]
  /\ spamTracker \in Nat /\ statesMade \in Nat /\ spamStale \in {0, spamTracker}
  /\ levelDisturbed \in BOOLEAN

LevelAt(j, steps) == levelJobs[j] # NoJob /\ levelJobs[j].step \in steps

\* The states that were orphaned, and the tracker's.
States == orphaned \cup ({spamTracker} \ {0})

\* Every award of the minute is of a state of its own; a message in hand has one of them.
Spaced ==
  /\ IsFiniteSet(orphaned) /\ lastEarned \subseteq States
  /\ awards = Cardinality(lastEarned)
  /\ \A j \in Jobs : LevelAt(j, {"check"}) => levelJobs[j].state \in States
  /\ \A j \in Jobs : LevelAt(j, {"award"}) => levelJobs[j].state \in lastEarned
  /\ \A j, k \in Jobs :
       LevelAt(j, {"award"}) /\ LevelAt(k, {"award"}) /\ levelJobs[j].state = levelJobs[k].state => j = k

LevelTarget == Levels!Target(levelRoles, memberLevel, rolesStack)
LevelRewards == Levels!Rewarded(levelRoles)
RolesRight == rolesHeld \cap LevelRewards = LevelTarget

\* What a synchronization has read, and what it is about to do.
SyncSound(j) ==
  /\ LevelAt(j, {"put", "level", "member", "apply"}) => levelJobs[j].lrs = levelRoles
  /\ LevelAt(j, {"member"}) => levelJobs[j].level = memberLevel
  /\ LevelAt(j, {"apply"}) =>
       levelJobs[j].adds \subseteq LevelTarget /\ levelJobs[j].removes \cap LevelTarget = {}

\* It has the whole difference in hand, or will look for it.
Covers(j) ==
  \/ LevelAt(j, {"sync", "put", "level", "member"})
  \/ /\ LevelAt(j, {"apply"})
     /\ LevelTarget \ rolesHeld \subseteq levelJobs[j].adds
     /\ (rolesHeld \cap LevelRewards) \ LevelTarget \subseteq levelJobs[j].removes

RolesSync ==
  ~levelDisturbed =>
    /\ rolesCached \in {Nothing, levelRoles}
    /\ \A j \in Jobs : SyncSound(j)
    /\ RolesRight \/ \E j \in Jobs : Covers(j)

LevelInv == LevelTypes /\ Spaced /\ RolesSync

LEMMA LevelFollows == ASSUME LevelInv PROVE Levels!LevelMatchesXP /\ Levels!AwardsAreSpaced /\ Levels!RolesFollowLevel
<1>1. Levels!LevelMatchesXP
  BY DEF LevelInv, LevelTypes, Levels!LevelMatchesXP
<1>2. Levels!AwardsAreSpaced
  <2>1. /\ IsFiniteSet(orphaned) /\ lastEarned \subseteq States /\ awards = Cardinality(lastEarned)
    BY DEF LevelInv, Spaced
  <2>2. IsFiniteSet({spamTracker}) /\ Cardinality({spamTracker}) = 1
    BY FS_Singleton
  <2>3. lastEarned \subseteq {spamTracker} \cup orphaned
    BY <2>1 DEF States
  <2>4. /\ IsFiniteSet({spamTracker} \cup orphaned)
        /\ Cardinality({spamTracker} \cup orphaned) =
             Cardinality({spamTracker}) + Cardinality(orphaned) - Cardinality({spamTracker} \cap orphaned)
    BY <2>1, <2>2, FS_Union
  <2>5. Cardinality(lastEarned) <= Cardinality({spamTracker} \cup orphaned)
    BY <2>3, <2>4, FS_Subset
  <2>6. /\ Cardinality(orphaned) \in Nat /\ Cardinality({spamTracker} \cap orphaned) \in Nat
        /\ Cardinality(lastEarned) \in Nat
    BY <2>1, <2>2, <2>3, <2>4, FS_CardinalityType, FS_Intersection, FS_Subset
  <2>7. Levels!Cardinality(orphaned) = Cardinality(orphaned)
    BY DEF Levels!Cardinality, Cardinality
  <2> QED BY <2>1, <2>2, <2>4, <2>5, <2>6, <2>7 DEF Levels!AwardsAreSpaced
<1>3. ASSUME \A j \in Jobs : levelJobs[j] = NoJob, ~levelDisturbed PROVE RolesRight
  BY <1>3 DEF LevelInv, RolesSync, Covers, LevelAt
<1>4. Levels!RolesFollowLevel
  BY <1>3 DEF Levels!RolesFollowLevel, RolesRight, LevelRewards, LevelTarget
<1> QED BY <1>1, <1>2, <1>4

LEMMA MemberLevelInRange == ASSUME LevelsAssumed, LevelTypes PROVE memberLevel \in 1..MaxLevel /\ xp \in Nat
BY SafeXP, LevelInRange DEF LevelTypes

LEMMA TargetIsRewarded ==
  ASSUME LevelsAssumed, NEW lrs \in LevelRoleSets, NEW l \in 1..MaxLevel, NEW stacked
  PROVE  Levels!Target(lrs, l, stacked) \subseteq Levels!Rewarded(lrs)
<1>1. 1..l \subseteq 1..MaxLevel
  BY DEF LevelsAssumed
<1> QED BY <1>1 DEF Levels!Target, Levels!Rewarded, Levels!Levels

\* A goroutine moves to another step, or is done.
LEMMA LevelBecomes ==
  ASSUME LevelsAssumed, LevelTypes, NEW j \in Jobs, NEW r \in LevelJob, Levels!Becomes(j, r)
  PROVE  /\ levelJobs' \in [Jobs -> LevelJob \cup {NoJob}]
         /\ levelJobs'[j] = IF r.step = "done" THEN NoJob ELSE r
         /\ r # NoJob /\ \A k \in Jobs \ {j} : levelJobs'[k] = levelJobs[k]
BY DEF Levels!Becomes, LevelTypes, LevelsAssumed

LEMMA LevelJobAt ==
  ASSUME LevelTypes, NEW j \in Jobs, NEW step, Levels!At(j, step)
  PROVE  levelJobs[j] \in LevelJob /\ levelJobs[j].step = step /\ levelJobs[j] # NoJob
BY DEF LevelTypes, Levels!At

LEMMA EarnedIsFinite == ASSUME Spaced PROVE IsFiniteSet(lastEarned)
<1>1. IsFiniteSet({spamTracker} \ {0})
  BY FS_Singleton, FS_Difference
<1>2. IsFiniteSet(States)
  BY <1>1, FS_Union DEF Spaced, States
<1> QED BY <1>2, FS_Subset DEF Spaced

\* Whoever neither checks nor awards leaves the spacing alone.
LEMMA SpacedStays ==
  ASSUME Spaced, NEW j \in Jobs, \A k \in Jobs \ {j} : levelJobs'[k] = levelJobs[k],
         ~LevelAt(j, {"check", "award"})', UNCHANGED Levels!spam
  PROVE  Spaced'
<1>1. UNCHANGED <<spamTracker, lastEarned, awards, orphaned>>
  BY DEF Levels!spam
<1>2. \A k \in Jobs : (LevelAt(k, {"check"})' => LevelAt(k, {"check"}) /\ levelJobs'[k] = levelJobs[k])
                      /\ (LevelAt(k, {"award"})' => LevelAt(k, {"award"}) /\ levelJobs'[k] = levelJobs[k])
  BY DEF LevelAt
<1> QED BY <1>1, <1>2 DEF Spaced, States

\* Nothing happens to the roles and what they depend on; what one goroutine had in hand, it
\* has still or there was nothing.
LEMMA RolesStay ==
  ASSUME RolesSync, NEW j \in Jobs, \A k \in Jobs \ {j} : levelJobs'[k] = levelJobs[k],
         UNCHANGED <<memberLevel, levelRoles, rolesStack, rolesHeld>>,
         ~levelDisturbed' =>
           /\ ~levelDisturbed /\ rolesCached' \in {Nothing, rolesCached, levelRoles}
           /\ SyncSound(j)' /\ (Covers(j) => Covers(j)' \/ RolesRight)
  PROVE  RolesSync'
<1>1. UNCHANGED <<LevelTarget, LevelRewards>> /\ (RolesRight => RolesRight')
  BY DEF LevelTarget, LevelRewards, RolesRight
<1>2. ASSUME NEW k \in Jobs \ {j} PROVE (SyncSound(k) => SyncSound(k)') /\ (Covers(k) => Covers(k)')
  BY <1>1 DEF SyncSound, Covers, LevelAt
<1> QED BY <1>1, <1>2 DEF RolesSync

\* A synchronization begins: with the level that is, unless none had read another.
LEMMA RolesRestart ==
  ASSUME RolesSync, NEW j \in Jobs, \A k \in Jobs \ {j} : levelJobs'[k] = levelJobs[k],
         LevelAt(j, {"sync"})', UNCHANGED <<levelRoles, rolesCached, rolesStack>>,
         ~levelDisturbed' => ~levelDisturbed /\ (UNCHANGED memberLevel \/ ~Levels!Syncing)
  PROVE  RolesSync'
<1> SUFFICES ASSUME ~levelDisturbed'
             PROVE  rolesCached' \in {Nothing, levelRoles'} /\ \A k \in Jobs : SyncSound(k)'
  BY DEF RolesSync, Covers, LevelAt
<1>1. SyncSound(j)'
  BY DEF SyncSound, LevelAt
<1>2. ASSUME NEW k \in Jobs \ {j} PROVE SyncSound(k)'
  <2>1. SyncSound(k) /\ levelJobs'[k] = levelJobs[k]
    BY DEF RolesSync
  <2>2. CASE UNCHANGED memberLevel
    <3>1. UNCHANGED LevelTarget
      BY <2>2 DEF LevelTarget
    <3> QED BY <2>1, <2>2, <3>1 DEF SyncSound, LevelAt
  <2>3. CASE ~Levels!Syncing
    BY <2>1, <2>3 DEF Levels!Syncing, SyncSound, LevelAt
  <2> QED BY <2>2, <2>3
<1> QED BY <1>1, <1>2 DEF RolesSync

LEMMA BlankLevelJob ==
  ASSUME LevelsAssumed, NEW step \in {"check", "sync", "invalidate"}, NEW state \in Nat
  PROVE  /\ [Levels!Blank EXCEPT !.step = step, !.state = state] \in LevelJob
         /\ [Levels!Blank EXCEPT !.step = step] \in LevelJob
<1>1. 1 \in 1..MaxLevel
  BY DEF LevelsAssumed
<1>2. Levels!Blank \in LevelJob
  BY <1>1 DEF Levels!Blank, LevelJob
<1>3. step \in {"done", "check", "award", "sync", "invalidate", "put", "level", "member", "apply"}
  OBVIOUS
<1> QED BY <1>2, <1>3 DEF LevelJob

LEMMA MessageKeeps ==
  ASSUME LevelsAssumed, LevelInv, NEW j \in Jobs, Levels!OnLevelingMessageCreate(j)
  PROVE  LevelInv'
<1> DEFINE state == IF spamTracker = 0 THEN statesMade + 1 ELSE spamTracker
           r == [Levels!Blank EXCEPT !.step = "check", !.state = state]
<1>1. /\ levelJobs[j] = NoJob /\ Levels!Becomes(j, r)
      /\ spamTracker' = state
      /\ statesMade' = IF spamTracker = 0 THEN statesMade + 1 ELSE statesMade
      /\ UNCHANGED <<xp, memberLevel, levelRoles, rolesCached, rolesStack, rolesHeld, lastEarned,
                     spamStale, awards, orphaned, levelDisturbed>>
  BY DEF Levels!OnLevelingMessageCreate, Levels!Starts, Levels!Free, Levels!user, Levels!rewards
<1>2. state \in Nat /\ state # 0 /\ statesMade' \in Nat
  BY <1>1 DEF LevelInv, LevelTypes
<1>3. r \in LevelJob /\ r.step = "check" /\ r.state = state
  BY <1>2, BlankLevelJob DEF Levels!Blank
<1> HIDE DEF r
<1>4. /\ levelJobs' \in [Jobs -> LevelJob \cup {NoJob}] /\ levelJobs'[j] = r /\ r # NoJob
      /\ \A k \in Jobs \ {j} : levelJobs'[k] = levelJobs[k]
  BY <1>1, <1>3, LevelBecomes DEF LevelInv
<1>5. LevelTypes'
  BY <1>1, <1>2, <1>4 DEF LevelInv, LevelTypes
<1>6. spamTracker # 0 => spamTracker' = spamTracker
  BY <1>1
<1>7. Spaced'
  <2>1. States \subseteq States' /\ state \in States'
    BY <1>1, <1>2, <1>6 DEF States
  <2>2. \A k \in Jobs : LevelAt(k, {"award"})' => LevelAt(k, {"award"}) /\ levelJobs'[k] = levelJobs[k]
    BY <1>3, <1>4 DEF LevelAt
  <2>3. \A k \in Jobs : LevelAt(k, {"check"})' => levelJobs'[k].state \in States'
    <3> SUFFICES ASSUME NEW k \in Jobs, LevelAt(k, {"check"})' PROVE levelJobs'[k].state \in States'
      OBVIOUS
    <3>1. CASE k = j
      BY <1>3, <1>4, <2>1, <3>1
    <3>2. CASE k # j
      BY <1>4, <2>1, <3>2 DEF LevelAt, LevelInv, Spaced
    <3> QED BY <3>1, <3>2
  <2> QED BY <1>1, <2>1, <2>2, <2>3 DEF LevelInv, Spaced
<1>8. SyncSound(j)' /\ ~Covers(j)
  BY <1>1, <1>3, <1>4 DEF SyncSound, Covers, LevelAt
<1>9. RolesSync'
  BY <1>1, <1>4, <1>8, RolesStay DEF LevelInv
<1> QED BY <1>5, <1>7, <1>9 DEF LevelInv

LEMMA CheckKeeps ==
  ASSUME LevelsAssumed, LevelInv, NEW j \in Jobs, Levels!Check(j)
  PROVE  LevelInv'
<1> DEFINE state == levelJobs[j].state
<1>1. /\ Levels!At(j, "check")
      /\ UNCHANGED <<xp, memberLevel, levelRoles, rolesCached, rolesStack, rolesHeld, spamTracker,
                     spamStale, statesMade, orphaned, levelDisturbed>>
  BY DEF Levels!Check, Levels!user, Levels!rewards
<1>2. levelJobs[j] \in LevelJob /\ levelJobs[j].step = "check" /\ levelJobs[j] # NoJob
  BY <1>1, LevelJobAt DEF LevelInv
<1>3. PICK step \in {"award", "done"} :
        /\ Levels!Goes(j, step)
        /\ step = "award" => /\ state \notin lastEarned /\ lastEarned' = lastEarned \cup {state}
                             /\ awards' = awards + 1
        /\ step = "done" => UNCHANGED <<lastEarned, awards>>
  BY DEF Levels!Check
<1> DEFINE r == [levelJobs[j] EXCEPT !.step = step]
<1>4. r \in LevelJob /\ r.step = step /\ r.state = state
  BY <1>2 DEF LevelJob
<1>5. Levels!Becomes(j, r)
  BY <1>3 DEF Levels!Goes
<1> HIDE DEF r
<1>6. /\ levelJobs' \in [Jobs -> LevelJob \cup {NoJob}] /\ levelJobs'[j] = IF step = "done" THEN NoJob ELSE r
      /\ r # NoJob /\ \A k \in Jobs \ {j} : levelJobs'[k] = levelJobs[k]
  BY <1>4, <1>5, LevelBecomes DEF LevelInv
<1>7. LevelTypes'
  BY <1>1, <1>6 DEF LevelInv, LevelTypes
<1>8. SyncSound(j)' /\ ~Covers(j)
  BY <1>2, <1>4, <1>6 DEF SyncSound, Covers, LevelAt
<1>9. RolesSync'
  BY <1>1, <1>6, <1>8, RolesStay DEF LevelInv
<1>10. Spaced'
  <2>1. CASE step = "done"
    <3>1. ~LevelAt(j, {"check", "award"})' /\ UNCHANGED Levels!spam
      BY <1>1, <1>3, <1>6, <2>1 DEF LevelAt, Levels!spam
    <3> QED BY <1>6, <3>1, SpacedStays DEF LevelInv
  <2>2. CASE step = "award"
    <3>1. state \in States /\ state \notin lastEarned /\ lastEarned' = lastEarned \cup {state}
          /\ awards' = awards + 1 /\ UNCHANGED States
      BY <1>1, <1>2, <1>3, <2>2 DEF LevelInv, Spaced, LevelAt, States
    <3>2. IsFiniteSet(lastEarned)
      BY EarnedIsFinite DEF LevelInv
    <3>3. awards' = Cardinality(lastEarned')
      BY <3>1, <3>2, FS_AddElement DEF LevelInv, Spaced
    <3>4. \A k \in Jobs :
            LevelAt(k, {"award"})' => k = j \/ (LevelAt(k, {"award"}) /\ levelJobs'[k] = levelJobs[k])
      BY <1>6 DEF LevelAt
    <3>5. \A k \in Jobs : LevelAt(k, {"check"})' => LevelAt(k, {"check"}) /\ levelJobs'[k] = levelJobs[k]
      BY <1>4, <1>6, <2>2 DEF LevelAt
    <3>6. levelJobs'[j].state = state
      BY <1>4, <1>6, <2>2
    <3>7. \A k \in Jobs : LevelAt(k, {"award"}) => levelJobs[k].state \in lastEarned
      BY DEF LevelInv, Spaced
    <3>8. \A k \in Jobs : LevelAt(k, {"award"})' => levelJobs'[k].state \in lastEarned'
      BY <3>1, <3>4, <3>6, <3>7
    <3>9. \A k, l \in Jobs :
            LevelAt(k, {"award"})' /\ LevelAt(l, {"award"})' /\ levelJobs'[k].state = levelJobs'[l].state => k = l
      BY <3>1, <3>4, <3>6, <3>7 DEF LevelInv, Spaced
    <3> QED BY <1>1, <3>1, <3>3, <3>5, <3>8, <3>9 DEF LevelInv, Spaced
  <2> QED BY <2>1, <2>2
<1> QED BY <1>7, <1>9, <1>10 DEF LevelInv

LEMMA AwardKeeps ==
  ASSUME LevelsAssumed, LevelInv, NEW j \in Jobs, Levels!Award(j)
  PROVE  LevelInv'
<1>1. /\ Levels!At(j, "award")
      /\ UNCHANGED <<levelRoles, rolesCached, rolesStack, rolesHeld, spamTracker, spamStale, statesMade,
                     orphaned>>
  BY DEF Levels!Award, Levels!rewards
<1>2. levelJobs[j] \in LevelJob /\ levelJobs[j].step = "award" /\ levelJobs[j] # NoJob
  BY <1>1, LevelJobAt DEF LevelInv
<1>3. xp \in Nat /\ xp <= Levels!MaxSafeXP /\ Levels!MaxSafeXP \in Nat /\ memberLevel \in 1..MaxLevel
      /\ memberLevel = Levels!CalculateLevel(xp)
  BY SafeXP, MemberLevelInRange DEF LevelInv, LevelTypes
<1>4. CASE \E n \in Amounts :
             /\ xp' = Levels!Capped(xp + n) /\ memberLevel' = Levels!CalculateLevel(xp')
             /\ Levels!Goes(j, IF memberLevel' > memberLevel THEN "sync" ELSE "done")
             /\ levelDisturbed' = (levelDisturbed \/ (memberLevel' > memberLevel /\ Levels!Syncing))
             /\ UNCHANGED <<lastEarned, awards>>
  <2>1. PICK n \in Amounts : xp' = Levels!Capped(xp + n)
    BY <1>4
  <2>2. xp' \in 0..Levels!MaxSafeXP /\ xp' >= xp /\ xp' \in Nat
    BY <1>3, <2>1, CappedXP DEF Levels!Capped, LevelsAssumed
  <2>3. /\ memberLevel' = Levels!CalculateLevel(xp')
        /\ levelDisturbed' = (levelDisturbed \/ (memberLevel' > memberLevel /\ Levels!Syncing))
        /\ UNCHANGED <<lastEarned, awards>>
    BY <1>4
  <2>4. memberLevel' >= memberLevel /\ memberLevel' \in 1..MaxLevel
    BY <1>3, <2>2, <2>3, LevelRises, LevelInRange
  <2> DEFINE step == IF memberLevel' > memberLevel THEN "sync" ELSE "done"
             r == [levelJobs[j] EXCEPT !.step = step]
  <2>5. Levels!Becomes(j, r) /\ step \in {"sync", "done"} /\ (step = "done" => memberLevel' = memberLevel)
    BY <1>3, <1>4, <2>4 DEF Levels!Goes, LevelsAssumed
  <2> HIDE DEF step
  <2>6. r \in LevelJob /\ r.step = step
    BY <1>2, <2>5 DEF LevelJob
  <2> HIDE DEF r
  <2>7. /\ levelJobs' \in [Jobs -> LevelJob \cup {NoJob}] /\ levelJobs'[j] = IF step = "done" THEN NoJob ELSE r
        /\ r # NoJob /\ \A k \in Jobs \ {j} : levelJobs'[k] = levelJobs[k]
    BY <2>5, <2>6, LevelBecomes DEF LevelInv
  <2>8. LevelTypes'
    BY <1>1, <2>2, <2>3, <2>7 DEF LevelInv, LevelTypes
  <2>9. Spaced'
    <3>1. ~LevelAt(j, {"check", "award"})' /\ UNCHANGED Levels!spam
      BY <1>1, <2>3, <2>5, <2>6, <2>7 DEF LevelAt, Levels!spam
    <3> QED BY <2>7, <3>1, SpacedStays DEF LevelInv
  <2>10. RolesSync'
    <3>1. CASE step = "done"
      <4>1. SyncSound(j)' /\ ~Covers(j)
        BY <1>2, <2>7, <3>1 DEF SyncSound, Covers, LevelAt
      <4> QED BY <1>1, <2>3, <2>5, <2>7, <3>1, <4>1, RolesStay DEF LevelInv
    <3>2. CASE step = "sync"
      <4>1. LevelAt(j, {"sync"})'
        BY <2>6, <2>7, <3>2 DEF LevelAt
      <4>2. ~levelDisturbed' => ~levelDisturbed /\ ~Levels!Syncing
        BY <2>3, <2>4, <3>2 DEF step
      <4> QED BY <1>1, <2>7, <4>1, <4>2, RolesRestart DEF LevelInv
    <3> QED BY <2>5, <3>1, <3>2
  <2> QED BY <2>8, <2>9, <2>10 DEF LevelInv
<1>5. CASE /\ Levels!Goes(j, "done")
           /\ lastEarned' = lastEarned \ {levelJobs[j].state} /\ awards' = awards - 1
           /\ UNCHANGED <<xp, memberLevel, levelDisturbed>>
  <2> DEFINE r == [levelJobs[j] EXCEPT !.step = "done"]
  <2>1. Levels!Becomes(j, r) /\ r \in LevelJob /\ r.step = "done"
    BY <1>2, <1>5 DEF Levels!Goes, LevelJob
  <2> HIDE DEF r
  <2>2. /\ levelJobs' \in [Jobs -> LevelJob \cup {NoJob}] /\ levelJobs'[j] = NoJob
        /\ \A k \in Jobs \ {j} : levelJobs'[k] = levelJobs[k]
    BY <2>1, LevelBecomes DEF LevelInv
  <2>3. LevelTypes'
    BY <1>1, <1>5, <2>2 DEF LevelInv, LevelTypes
  <2>4. SyncSound(j)' /\ ~Covers(j)
    BY <1>2, <2>2 DEF SyncSound, Covers, LevelAt
  <2>5. RolesSync'
    BY <1>1, <1>5, <2>2, <2>4, RolesStay DEF LevelInv
  <2>6. Spaced'
    <3> DEFINE state == levelJobs[j].state
    <3>1. state \in lastEarned /\ lastEarned' = lastEarned \ {state} /\ awards' = awards - 1 /\ UNCHANGED States
      BY <1>1, <1>2, <1>5 DEF LevelInv, Spaced, LevelAt, States
    <3>2. IsFiniteSet(lastEarned)
      BY EarnedIsFinite DEF LevelInv
    <3>3. awards' = Cardinality(lastEarned')
      BY <3>1, <3>2, FS_RemoveElement DEF LevelInv, Spaced
    <3>4. \A k \in Jobs :
            /\ LevelAt(k, {"check"})' => LevelAt(k, {"check"}) /\ levelJobs'[k] = levelJobs[k]
            /\ LevelAt(k, {"award"})' => k # j /\ LevelAt(k, {"award"}) /\ levelJobs'[k] = levelJobs[k]
      BY <2>2 DEF LevelAt
    <3>5. \A k \in Jobs : LevelAt(k, {"award"})' => levelJobs[k].state \in lastEarned \ {state}
      BY <1>2, <3>4 DEF LevelInv, Spaced, LevelAt
    <3>6. \A k \in Jobs : LevelAt(k, {"award"})' => levelJobs'[k].state \in lastEarned'
      BY <3>1, <3>4, <3>5
    <3>7. \A k, l \in Jobs :
            LevelAt(k, {"award"})' /\ LevelAt(l, {"award"})' /\ levelJobs'[k].state = levelJobs'[l].state => k = l
      BY <3>4 DEF LevelInv, Spaced
    <3>8. \A k \in Jobs : LevelAt(k, {"check"})' => levelJobs'[k].state \in States'
      BY <3>1, <3>4 DEF LevelInv, Spaced
    <3>9. IsFiniteSet(orphaned') /\ lastEarned' \subseteq States'
      BY <1>1, <3>1 DEF LevelInv, Spaced
    <3> QED BY <3>3, <3>6, <3>7, <3>8, <3>9 DEF Spaced
  <2> QED BY <2>3, <2>5, <2>6 DEF LevelInv
<1> QED BY <1>4, <1>5 DEF Levels!Award, Levels!user

LEMMA LevelTimesKeep ==
  ASSUME LevelsAssumed, LevelInv,
         Levels!Minute \/ Levels!FindStale \/ Levels!CleanupSpamTracker \/ Levels!CacheExpires
  PROVE  LevelInv'
<1>1. /\ UNCHANGED <<xp, memberLevel, levelRoles, rolesStack, rolesHeld, levelJobs, statesMade, levelDisturbed>>
      /\ rolesCached' \in {rolesCached, Nothing} /\ spamTracker' \in {spamTracker, 0}
      /\ spamStale' \in {0, spamTracker'}
  BY DEF Levels!Minute, Levels!FindStale, Levels!CleanupSpamTracker, Levels!CacheExpires, Levels!user,
         Levels!rewards, Levels!spam, LevelInv, LevelTypes
<1>2. LevelTypes'
  BY <1>1 DEF LevelInv, LevelTypes
<1>3. RolesSync'
  BY <1>1 DEF LevelInv, RolesSync, SyncSound, Covers, LevelAt, RolesRight, LevelTarget, LevelRewards
<1>4. Spaced'
  <2>1. CASE Levels!Minute
    <3>1. /\ \A k \in Jobs : ~LevelAt(k, {"award"})'
          /\ \A k \in Jobs : LevelAt(k, {"check"})' => LevelAt(k, {"check"})
          /\ UNCHANGED <<spamTracker, orphaned, levelJobs>> /\ awards' = 0 /\ lastEarned' = {}
      BY <1>1, <2>1 DEF Levels!Minute, Levels!At, LevelAt
    <3>2. awards' = Cardinality(lastEarned')
      BY <3>1, FS_EmptySet
    <3> QED BY <3>1, <3>2 DEF LevelInv, Spaced, States
  <2>2. CASE Levels!CleanupSpamTracker
    <3> DEFINE used == spamStale \in lastEarned \/ \E k \in Jobs : Levels!At(k, "check") /\ levelJobs[k].state = spamStale
    <3>1. /\ spamTracker' = 0 /\ UNCHANGED <<lastEarned, awards, levelJobs>>
          /\ orphaned' = IF used THEN orphaned \cup {spamStale} ELSE orphaned
          /\ spamStale = spamTracker
      BY <2>2 DEF Levels!CleanupSpamTracker, LevelInv, LevelTypes
    <3>2. IsFiniteSet(orphaned')
      BY <3>1, FS_AddElement DEF LevelInv, Spaced
    <3>3. \A x \in States : x \in States' \/ (x = spamTracker /\ ~used)
      BY <3>1 DEF States
    <3>4. lastEarned' \subseteq States'
      BY <3>1, <3>3 DEF LevelInv, Spaced
    <3>5. \A k \in Jobs : LevelAt(k, {"check"})' => levelJobs'[k].state \in States'
      BY <3>1, <3>3 DEF LevelInv, Spaced, LevelAt, Levels!At
    <3>6. \A k \in Jobs : LevelAt(k, {"award"})' = LevelAt(k, {"award"})
      BY <3>1 DEF LevelAt
    <3> QED BY <3>1, <3>2, <3>4, <3>5, <3>6 DEF LevelInv, Spaced
  <2>3. CASE Levels!FindStale \/ Levels!CacheExpires
    <3>1. UNCHANGED <<spamTracker, lastEarned, awards, orphaned, levelJobs>>
      BY <1>1, <2>3 DEF Levels!FindStale, Levels!CacheExpires, Levels!spam
    <3> QED BY <3>1 DEF LevelInv, Spaced, LevelAt, States
  <2> QED BY <2>1, <2>2, <2>3
<1> QED BY <1>2, <1>3, <1>4 DEF LevelInv

\* What a command makes of the experience is of the level that it writes beside it.
LEMMA ChangedXP ==
  ASSUME LevelsAssumed, LevelTypes, NEW n \in Amounts,
         NEW how \in {"add", "remove", "set", "level", "reset"}
  PROVE  /\ Levels!Changed(how, n) \in 0..Levels!MaxSafeXP
         /\ Levels!LevelSet(how, n) = Levels!CalculateLevel(Levels!Changed(how, n))
<1> USE DEF Levels!Addxp, Levels!Removexp, Levels!Setxp, Levels!Setlevel, Levels!Resetxp
<1>1. /\ xp \in Nat /\ xp <= Levels!MaxSafeXP /\ Levels!MaxSafeXP \in Nat /\ n \in Nat /\ xp + n \in Nat
  BY SafeXP DEF LevelTypes, LevelsAssumed
<1>2. CASE how = "add"
  <2>1. Levels!Changed(how, n) = Levels!Capped(xp + n) /\ Levels!LevelSet(how, n) = Levels!CalculateLevel(Levels!Changed(how, n))
    BY <1>2 DEF Levels!Changed, Levels!LevelSet
  <2> QED BY <1>1, <2>1, CappedXP
<1>3. CASE how = "remove"
  <2>1. /\ Levels!Changed(how, n) = IF n > xp THEN 0 ELSE xp - n
        /\ Levels!LevelSet(how, n) = Levels!CalculateLevel(Levels!Changed(how, n))
    BY <1>3 DEF Levels!Changed, Levels!LevelSet
  <2> QED BY <1>1, <2>1
<1>4. CASE how = "set"
  <2>1. Levels!Changed(how, n) = Levels!Capped(n) /\ Levels!LevelSet(how, n) = Levels!CalculateLevel(Levels!Changed(how, n))
    BY <1>4 DEF Levels!Changed, Levels!LevelSet
  <2> QED BY <1>1, <2>1, CappedXP
<1>5. CASE how = "level"
  <2>1. /\ Levels!Changed(how, n) = Levels!RequiredXPForLevel(Levels!CalculateLevel(n))
        /\ Levels!LevelSet(how, n) = Levels!CalculateLevel(n)
    BY <1>5 DEF Levels!Changed, Levels!LevelSet
  <2>2. Levels!CalculateLevel(n) \in 1..MaxLevel
    BY <1>1, LevelInRange
  <2> QED BY <2>1, <2>2, RequiredIsOfLevel
<1>6. CASE how = "reset"
  <2>1. Levels!Changed(how, n) = 0 /\ Levels!LevelSet(how, n) = Levels!CalculateLevel(Levels!Changed(how, n))
    BY <1>6 DEF Levels!Changed, Levels!LevelSet
  <2> QED BY <1>1, <2>1
<1> QED BY <1>2, <1>3, <1>4, <1>5, <1>6

\* A command begins, with a synchronization to follow or without.
LEMMA CommandKeeps ==
  ASSUME LevelsAssumed, LevelInv, NEW j \in Jobs, NEW step \in {"sync", "invalidate"},
         levelJobs[j] = NoJob, Levels!Becomes(j, [Levels!Blank EXCEPT !.step = step]),
         UNCHANGED Levels!spam, UNCHANGED <<rolesCached, rolesStack, rolesHeld>>,
         levelRoles' \in LevelRoleSets, levelDisturbed' \in BOOLEAN,
         xp' \in 0..Levels!MaxSafeXP, memberLevel' = Levels!CalculateLevel(xp'),
         ~levelDisturbed' => /\ step = "sync" /\ ~levelDisturbed /\ UNCHANGED levelRoles
                             /\ UNCHANGED memberLevel \/ ~Levels!Syncing
  PROVE  LevelInv'
<1> DEFINE r == [Levels!Blank EXCEPT !.step = step]
<1>1. r \in LevelJob /\ r.step = step
  BY BlankLevelJob DEF Levels!Blank
<1> HIDE DEF r
<1>2. /\ levelJobs' \in [Jobs -> LevelJob \cup {NoJob}] /\ levelJobs'[j] = r /\ r # NoJob
      /\ \A k \in Jobs \ {j} : levelJobs'[k] = levelJobs[k]
  BY <1>1, LevelBecomes DEF LevelInv, r
<1>3. LevelTypes'
  BY <1>2 DEF LevelInv, LevelTypes, Levels!spam
<1>4. ~LevelAt(j, {"check", "award"})'
  BY <1>1, <1>2 DEF LevelAt
<1>5. Spaced'
  BY <1>2, <1>4, SpacedStays DEF LevelInv
<1>6. RolesSync'
  <2>1. CASE levelDisturbed'
    BY <2>1 DEF RolesSync
  <2>2. CASE ~levelDisturbed'
    <3>1. LevelAt(j, {"sync"})'
      BY <1>1, <1>2, <2>2 DEF LevelAt
    <3> QED BY <1>2, <2>2, <3>1, RolesRestart DEF LevelInv
  <2> QED BY <2>1, <2>2
<1> QED BY <1>3, <1>5, <1>6 DEF LevelInv

LEMMA LevelCommandsKeep ==
  ASSUME LevelsAssumed, LevelInv, NEW j \in Jobs, Levels!Commands(j)
  PROVE  LevelInv'
<1>0. /\ xp \in 0..Levels!MaxSafeXP /\ memberLevel = Levels!CalculateLevel(xp) /\ levelRoles \in LevelRoleSets
      /\ levelDisturbed \in BOOLEAN
  BY DEF LevelInv, LevelTypes
<1>1. ASSUME NEW n \in Amounts, NEW how \in {"add", "remove", "set", "level", "reset"}, Levels!ChangeXP(j, how, n)
      PROVE  LevelInv'
  <2>1. /\ levelJobs[j] = NoJob /\ Levels!Becomes(j, [Levels!Blank EXCEPT !.step = "sync"])
        /\ UNCHANGED Levels!spam /\ UNCHANGED <<rolesCached, rolesStack, rolesHeld, levelRoles>>
        /\ xp' = Levels!Changed(how, n) /\ memberLevel' = Levels!LevelSet(how, n)
        /\ levelDisturbed' = (levelDisturbed \/ (memberLevel' # memberLevel /\ Levels!Syncing))
    BY <1>1 DEF Levels!ChangeXP, Levels!Starts, Levels!Free, Levels!rewards
  <2>2. xp' \in 0..Levels!MaxSafeXP /\ memberLevel' = Levels!CalculateLevel(xp')
    BY <2>1, ChangedXP DEF LevelInv
  <2>3. levelDisturbed' \in BOOLEAN
    BY <2>1
  <2> QED BY <1>0, <2>1, <2>2, <2>3, CommandKeeps
<1>2. ASSUME NEW l \in 1..MaxLevel, NEW role \in Roles \cup {Nothing}, Levels!Addlevelrole(j, l, role)
      PROVE  LevelInv'
  <2>1. /\ levelJobs[j] = NoJob /\ Levels!Becomes(j, [Levels!Blank EXCEPT !.step = "invalidate"])
        /\ UNCHANGED Levels!spam /\ UNCHANGED <<rolesCached, rolesStack, rolesHeld, xp, memberLevel>>
        /\ levelRoles' = [levelRoles EXCEPT ![l] = role] /\ levelDisturbed' = TRUE
    BY <1>2 DEF Levels!Addlevelrole, Levels!Starts, Levels!Free, Levels!user
  <2>2. levelRoles' \in LevelRoleSets
    BY <1>0, <2>1 DEF LevelRoleSets
  <2> QED BY <1>0, <2>1, <2>2, CommandKeeps
<1>3. CASE Levels!InvalidateGuildLevelRolesCache(j)
  <2> DEFINE r == [levelJobs[j] EXCEPT !.step = "done"]
  <2>1. /\ Levels!At(j, "invalidate") /\ Levels!Becomes(j, r) /\ rolesCached' = Nothing
        /\ UNCHANGED Levels!spam
        /\ UNCHANGED <<xp, memberLevel, levelRoles, rolesStack, rolesHeld, levelDisturbed>>
    BY <1>3 DEF Levels!InvalidateGuildLevelRolesCache, Levels!Goes, Levels!user
  <2>2. levelJobs[j].step = "invalidate" /\ r \in LevelJob /\ r.step = "done"
    BY <2>1, LevelJobAt DEF LevelJob, LevelInv
  <2> HIDE DEF r
  <2>3. /\ levelJobs' \in [Jobs -> LevelJob \cup {NoJob}] /\ levelJobs'[j] = NoJob
        /\ \A k \in Jobs \ {j} : levelJobs'[k] = levelJobs[k]
    BY <2>1, <2>2, LevelBecomes DEF LevelInv
  <2>4. LevelTypes'
    BY <2>1, <2>3 DEF LevelInv, LevelTypes, Levels!spam
  <2>5. SyncSound(j)' /\ ~Covers(j) /\ ~LevelAt(j, {"check", "award"})'
    BY <2>2, <2>3 DEF SyncSound, Covers, LevelAt
  <2>6. RolesSync' /\ Spaced'
    BY <2>1, <2>3, <2>5, RolesStay, SpacedStays DEF LevelInv
  <2> QED BY <2>4, <2>6 DEF LevelInv
<1>4. CASE Levels!Synclevels(j)
  <2>1. /\ levelJobs[j] = NoJob /\ Levels!Becomes(j, [Levels!Blank EXCEPT !.step = "sync"])
        /\ UNCHANGED Levels!spam
        /\ UNCHANGED <<rolesCached, rolesStack, rolesHeld, levelRoles, xp, memberLevel, levelDisturbed>>
    BY <1>4 DEF Levels!Synclevels, Levels!Starts, Levels!Free, Levels!rewards, Levels!user
  <2> QED BY <1>0, <2>1, CommandKeeps
<1> QED BY <1>1, <1>2, <1>3, <1>4
        DEF Levels!Commands, Levels!Removelevelrole, Levels!Levels, Levels!Addxp, Levels!Removexp,
            Levels!Setxp, Levels!Setlevel, Levels!Resetxp

\* A synchronization goes on: what it had in hand it has still, or there was nothing.
LEMMA SyncGoesOn ==
  ASSUME LevelsAssumed, LevelInv, NEW j \in Jobs, NEW r \in LevelJob,
         r.step \in {"put", "level", "member", "apply", "done"}, Levels!Becomes(j, r),
         UNCHANGED Levels!spam, UNCHANGED <<xp, memberLevel, levelRoles, rolesStack, rolesHeld>>,
         rolesCached' \in LevelRoleSets \cup {Nothing}, levelDisturbed' \in BOOLEAN,
         ~levelDisturbed' =>
           /\ ~levelDisturbed
           /\ levelJobs'[j] = (IF r.step = "done" THEN NoJob ELSE r) =>
                /\ rolesCached' \in {Nothing, rolesCached, levelRoles}
                /\ SyncSound(j)' /\ (Covers(j) => Covers(j)' \/ RolesRight)
  PROVE  LevelInv'
<1>1. /\ levelJobs' \in [Jobs -> LevelJob \cup {NoJob}] /\ levelJobs'[j] = (IF r.step = "done" THEN NoJob ELSE r)
      /\ r # NoJob /\ \A k \in Jobs \ {j} : levelJobs'[k] = levelJobs[k]
  BY LevelBecomes DEF LevelInv
<1>2. LevelTypes'
  BY <1>1 DEF LevelInv, LevelTypes, Levels!spam
<1>3. ~LevelAt(j, {"check", "award"})'
  BY <1>1 DEF LevelAt
<1>4. RolesSync' /\ Spaced'
  BY <1>1, <1>3, RolesStay, SpacedStays DEF LevelInv
<1> QED BY <1>2, <1>4 DEF LevelInv

\* Without rewards there is nothing to do.
LEMMA NothingToReward ==
  ASSUME LevelsAssumed, LevelInv, LevelRewards = {}
  PROVE  RolesRight
<1>1. LevelTarget \subseteq LevelRewards
  BY MemberLevelInRange, TargetIsRewarded DEF LevelTarget, LevelRewards, LevelInv, LevelTypes
<1> QED BY <1>1 DEF RolesRight

LEMMA ReadsRolesKeep ==
  ASSUME LevelsAssumed, LevelInv, NEW j \in Jobs, Levels!LevelRolesCached(j) \/ Levels!LevelRolesRead(j)
  PROVE  LevelInv'
<1>1. /\ Levels!At(j, "sync") /\ UNCHANGED Levels!spam
      /\ UNCHANGED <<xp, memberLevel, levelRoles, rolesCached, rolesStack, rolesHeld>>
  BY DEF Levels!LevelRolesCached, Levels!LevelRolesRead, Levels!user, Levels!rewards
<1>2. levelJobs[j] \in LevelJob /\ levelJobs[j].step = "sync" /\ levelJobs[j] # NoJob
  BY <1>1, LevelJobAt DEF LevelInv
<1>3. rolesCached' \in LevelRoleSets \cup {Nothing} /\ levelDisturbed \in BOOLEAN /\ levelRoles \in LevelRoleSets
  BY <1>1 DEF LevelInv, LevelTypes
<1>4. CASE Levels!LevelRolesCached(j)
  <2> DEFINE step == IF Levels!Rewarded(rolesCached) = {} THEN "done" ELSE "level"
             r == [levelJobs[j] EXCEPT !.step = step, !.lrs = rolesCached]
  <2>1. Levels!Becomes(j, r) /\ rolesCached # Nothing /\ UNCHANGED levelDisturbed /\ step \in {"done", "level"}
        /\ rolesCached \in LevelRoleSets
    BY <1>4, <1>1, <1>3 DEF Levels!LevelRolesCached
  <2>2. step = "done" => Levels!Rewarded(rolesCached) = {}
    OBVIOUS
  <2> HIDE DEF step
  <2>3. r \in LevelJob /\ r.step = step /\ r.lrs = rolesCached
    BY <1>2, <2>1 DEF LevelJob
  <2> HIDE DEF r
  <2>4. ASSUME ~levelDisturbed, levelJobs'[j] = IF r.step = "done" THEN NoJob ELSE r
        PROVE  SyncSound(j)' /\ (Covers(j)' \/ RolesRight)
    <3>1. rolesCached = levelRoles
      BY <2>1, <2>4 DEF LevelInv, RolesSync
    <3>2. SyncSound(j)'
      BY <1>1, <2>1, <2>3, <2>4, <3>1 DEF SyncSound, LevelAt
    <3>3. CASE step = "done"
      BY <2>2, <3>1, <3>2, <3>3, NothingToReward DEF LevelRewards
    <3>4. CASE step = "level"
      <4>1. r # NoJob
        BY <2>3 DEF LevelsAssumed
      <4> QED BY <2>3, <2>4, <3>2, <3>4, <4>1 DEF Covers, LevelAt
    <3> QED BY <2>1, <3>3, <3>4
  <2> QED BY <1>1, <1>3, <2>1, <2>3, <2>4, SyncGoesOn
<1>5. CASE Levels!Becomes(j, [levelJobs[j] EXCEPT !.step = "put", !.lrs = levelRoles]) /\ UNCHANGED levelDisturbed
  <2> DEFINE r == [levelJobs[j] EXCEPT !.step = "put", !.lrs = levelRoles]
  <2>1. r \in LevelJob /\ r.step = "put" /\ r.lrs = levelRoles
    BY <1>2, <1>3 DEF LevelJob
  <2>2. Levels!Becomes(j, r)
    BY <1>5
  <2> HIDE DEF r
  <2>3. r # NoJob
    BY <2>1 DEF LevelsAssumed
  <2>4. ASSUME levelJobs'[j] = r PROVE SyncSound(j)' /\ Covers(j)'
    BY <1>1, <2>1, <2>3, <2>4 DEF SyncSound, Covers, LevelAt
  <2> QED BY <1>1, <1>3, <1>5, <2>1, <2>2, <2>4, SyncGoesOn
<1>6. CASE Levels!Goes(j, "done") /\ levelDisturbed' = TRUE
  <2> DEFINE r == [levelJobs[j] EXCEPT !.step = "done"]
  <2>1. r \in LevelJob /\ r.step = "done" /\ Levels!Becomes(j, r)
    BY <1>2, <1>6 DEF LevelJob, Levels!Goes
  <2> HIDE DEF r
  <2> QED BY <1>1, <1>3, <1>6, <2>1, SyncGoesOn
<1> QED BY <1>4, <1>5, <1>6 DEF Levels!LevelRolesRead

LEMMA PutsRolesKeep ==
  ASSUME LevelsAssumed, LevelInv, NEW j \in Jobs, Levels!LevelRolesPut(j)
  PROVE  LevelInv'
<1> DEFINE lrs == levelJobs[j].lrs
           step == IF Levels!Rewarded(lrs) = {} THEN "done" ELSE "level"
           r == [levelJobs[j] EXCEPT !.step = step]
<1>1. /\ Levels!At(j, "put") /\ UNCHANGED Levels!spam /\ rolesCached' = lrs /\ Levels!Becomes(j, r)
      /\ UNCHANGED <<xp, memberLevel, levelRoles, rolesStack, rolesHeld, levelDisturbed>>
  BY DEF Levels!LevelRolesPut, Levels!user, Levels!Goes
<1>2. levelJobs[j] \in LevelJob /\ levelJobs[j].step = "put" /\ levelJobs[j] # NoJob
  BY <1>1, LevelJobAt DEF LevelInv
<1>3. lrs \in LevelRoleSets
  BY <1>2 DEF LevelJob
<1>4. step \in {"done", "level"} /\ (step = "done" => Levels!Rewarded(lrs) = {})
  OBVIOUS
<1>5. ~levelDisturbed => lrs = levelRoles
  BY <1>2 DEF LevelInv, RolesSync, SyncSound, LevelAt
<1> HIDE DEF step, lrs
<1>6. r \in LevelJob /\ r.step = step /\ r.lrs = lrs
  BY <1>2, <1>3, <1>4 DEF LevelJob, lrs
<1> HIDE DEF r
<1>7. ASSUME ~levelDisturbed, levelJobs'[j] = IF r.step = "done" THEN NoJob ELSE r
      PROVE  SyncSound(j)' /\ (Covers(j)' \/ RolesRight)
  <2>1. SyncSound(j)'
    BY <1>1, <1>4, <1>5, <1>6, <1>7 DEF SyncSound, LevelAt
  <2>2. CASE step = "done"
    BY <1>4, <1>5, <1>7, <2>1, <2>2, NothingToReward DEF LevelRewards
  <2>3. CASE step = "level"
    <3>1. r # NoJob
      BY <1>6 DEF LevelsAssumed
    <3> QED BY <1>6, <1>7, <2>1, <2>3, <3>1 DEF Covers, LevelAt
  <2> QED BY <1>4, <2>2, <2>3
<1>8. levelDisturbed' \in BOOLEAN
  BY <1>1 DEF LevelInv, LevelTypes
<1> QED BY <1>1, <1>3, <1>4, <1>5, <1>6, <1>7, <1>8, SyncGoesOn

LEMMA ReadLevelKeeps ==
  ASSUME LevelsAssumed, LevelInv, NEW j \in Jobs, Levels!ReadLevel(j)
  PROVE  LevelInv'
<1>1. /\ Levels!At(j, "level") /\ UNCHANGED Levels!spam
      /\ UNCHANGED <<xp, memberLevel, levelRoles, rolesCached, rolesStack, rolesHeld>>
  BY DEF Levels!ReadLevel, Levels!user, Levels!rewards
<1>2. levelJobs[j] \in LevelJob /\ levelJobs[j].step = "level" /\ levelJobs[j] # NoJob
  BY <1>1, LevelJobAt DEF LevelInv
<1>3. /\ rolesCached' \in LevelRoleSets \cup {Nothing} /\ levelDisturbed \in BOOLEAN
      /\ memberLevel \in 1..MaxLevel
  BY <1>1, MemberLevelInRange DEF LevelInv, LevelTypes
<1>4. CASE Levels!Becomes(j, [levelJobs[j] EXCEPT !.step = "member", !.level = memberLevel]) /\ UNCHANGED levelDisturbed
  <2> DEFINE r == [levelJobs[j] EXCEPT !.step = "member", !.level = memberLevel]
  <2>1. r \in LevelJob /\ r.step = "member" /\ r.level = memberLevel /\ r.lrs = levelJobs[j].lrs
    BY <1>2, <1>3 DEF LevelJob
  <2>2. Levels!Becomes(j, r)
    BY <1>4
  <2> HIDE DEF r
  <2>3. r # NoJob
    BY <2>1 DEF LevelsAssumed
  <2>4. ASSUME ~levelDisturbed, levelJobs'[j] = r PROVE SyncSound(j)' /\ Covers(j)'
    <3>1. levelJobs[j].lrs = levelRoles
      BY <1>2, <2>4 DEF LevelInv, RolesSync, SyncSound, LevelAt
    <3> QED BY <1>1, <2>1, <2>3, <2>4, <3>1 DEF SyncSound, Covers, LevelAt
  <2> QED BY <1>1, <1>3, <1>4, <2>1, <2>2, <2>4, SyncGoesOn
<1>5. CASE Levels!Goes(j, "done") /\ levelDisturbed' = TRUE
  <2> DEFINE r == [levelJobs[j] EXCEPT !.step = "done"]
  <2>1. r \in LevelJob /\ r.step = "done" /\ Levels!Becomes(j, r)
    BY <1>2, <1>5 DEF LevelJob, Levels!Goes
  <2> HIDE DEF r
  <2> QED BY <1>1, <1>3, <1>5, <2>1, SyncGoesOn
<1> QED BY <1>4, <1>5 DEF Levels!ReadLevel

LEMMA PlanKeeps ==
  ASSUME LevelsAssumed, LevelInv, NEW j \in Jobs, Levels!Plan(j)
  PROVE  LevelInv'
<1> DEFINE target == Levels!Target(levelJobs[j].lrs, levelJobs[j].level, rolesStack)
           had == rolesHeld \cap Levels!Rewarded(levelJobs[j].lrs)
<1>1. /\ Levels!At(j, "member") /\ UNCHANGED Levels!spam
      /\ UNCHANGED <<xp, memberLevel, levelRoles, rolesCached, rolesStack, rolesHeld>>
  BY DEF Levels!Plan, Levels!user, Levels!rewards
<1>2. levelJobs[j] \in LevelJob /\ levelJobs[j].step = "member" /\ levelJobs[j] # NoJob
      /\ levelJobs[j].lrs \in LevelRoleSets /\ levelJobs[j].level \in 1..MaxLevel
  BY <1>1, LevelJobAt DEF LevelInv, LevelJob
<1>3. rolesCached' \in LevelRoleSets \cup {Nothing} /\ levelDisturbed \in BOOLEAN
  BY <1>1 DEF LevelInv, LevelTypes
<1>4. Levels!Rewarded(levelJobs[j].lrs) \subseteq Roles
  BY <1>2 DEF Levels!Rewarded, LevelRoleSets, Levels!Levels
<1>5. target \subseteq Roles /\ had \subseteq Roles
  BY <1>2, <1>4, TargetIsRewarded
<1>6. ~levelDisturbed => target = LevelTarget /\ had = rolesHeld \cap LevelRewards
  BY <1>2 DEF LevelInv, RolesSync, SyncSound, LevelAt, LevelTarget, LevelRewards
<1> HIDE DEF target, had
<1>7. CASE /\ Levels!Becomes(j, [levelJobs[j] EXCEPT !.step = "apply", !.adds = target \ had, !.removes = had \ target])
           /\ UNCHANGED levelDisturbed
  <2> DEFINE r == [levelJobs[j] EXCEPT !.step = "apply", !.adds = target \ had, !.removes = had \ target]
  <2>1. target \ had \in SUBSET Roles /\ had \ target \in SUBSET Roles
    BY <1>5
  <2>2. r \in LevelJob /\ r.step = "apply" /\ r.adds = target \ had /\ r.removes = had \ target
        /\ r.lrs = levelJobs[j].lrs
    BY <1>2, <2>1 DEF LevelJob
  <2>3. Levels!Becomes(j, r)
    BY <1>7
  <2> HIDE DEF r
  <2>4. r # NoJob
    BY <2>2 DEF LevelsAssumed
  <2>5. ASSUME ~levelDisturbed, levelJobs'[j] = r PROVE SyncSound(j)' /\ Covers(j)'
    <3>1. levelJobs[j].lrs = levelRoles
      BY <1>2, <2>5 DEF LevelInv, RolesSync, SyncSound, LevelAt
    <3>2. UNCHANGED <<LevelTarget, LevelRewards>>
      BY <1>1 DEF LevelTarget, LevelRewards
    <3>3. r.adds = LevelTarget \ (rolesHeld \cap LevelRewards) /\ r.removes = (rolesHeld \cap LevelRewards) \ LevelTarget
      BY <1>6, <2>2, <2>5
    <3>4. SyncSound(j)'
      BY <1>1, <2>2, <2>4, <2>5, <3>1, <3>2, <3>3 DEF SyncSound, LevelAt
    <3>5. LevelTarget \ rolesHeld \subseteq r.adds
      BY <3>3
    <3>6. Covers(j)'
      BY <1>1, <2>2, <2>4, <2>5, <3>2, <3>3, <3>5 DEF Covers, LevelAt
    <3> QED BY <3>4, <3>6
  <2> QED BY <1>1, <1>3, <1>7, <2>2, <2>3, <2>5, SyncGoesOn
<1>8. CASE Levels!Goes(j, "done") /\ levelDisturbed' = TRUE
  <2> DEFINE r == [levelJobs[j] EXCEPT !.step = "done"]
  <2>1. r \in LevelJob /\ r.step = "done" /\ Levels!Becomes(j, r)
    BY <1>2, <1>8 DEF LevelJob, Levels!Goes
  <2> HIDE DEF r
  <2> QED BY <1>1, <1>3, <1>8, <2>1, SyncGoesOn
<1> QED BY <1>7, <1>8 DEF Levels!Plan, target, had

LEMMA AppliesKeep ==
  ASSUME LevelsAssumed, LevelInv, NEW j \in Jobs, Levels!Apply(j)
  PROVE  LevelInv'
<1> DEFINE adds == levelJobs[j].adds
           removes == levelJobs[j].removes
<1>1. /\ Levels!At(j, "apply") /\ UNCHANGED Levels!spam
      /\ UNCHANGED <<xp, memberLevel, levelRoles, rolesCached, rolesStack>>
  BY DEF Levels!Apply, Levels!user, Levels!rewards
<1>2. levelJobs[j] \in LevelJob /\ levelJobs[j].step = "apply" /\ levelJobs[j] # NoJob
      /\ adds \in SUBSET Roles /\ removes \in SUBSET Roles
  BY <1>1, LevelJobAt DEF LevelInv, LevelJob
<1>3. PICK role \in (IF adds # {} THEN adds ELSE removes) :
        /\ Levels!Becomes(j, [levelJobs[j] EXCEPT !.adds = @ \ {role}, !.removes = IF adds = {} THEN @ \ {role} ELSE @])
        /\ \/ rolesHeld' = (IF adds # {} THEN rolesHeld \cup {role} ELSE rolesHeld \ {role}) /\ UNCHANGED levelDisturbed
           \/ levelDisturbed' = TRUE
  BY DEF Levels!Apply
<1> DEFINE r == [levelJobs[j] EXCEPT !.adds = @ \ {role}, !.removes = IF adds = {} THEN @ \ {role} ELSE @]
<1>4. /\ r \in LevelJob /\ r.step = "apply" /\ r.lrs = levelJobs[j].lrs
      /\ r.adds = adds \ {role} /\ r.removes = IF adds = {} THEN removes \ {role} ELSE removes
  <2>1. adds \ {role} \in SUBSET Roles /\ (IF adds = {} THEN removes \ {role} ELSE removes) \in SUBSET Roles
    BY <1>2
  <2> QED BY <1>2, <2>1 DEF LevelJob
<1>5. Levels!Becomes(j, r)
  BY <1>3
<1> HIDE DEF r
<1>6. /\ levelJobs' \in [Jobs -> LevelJob \cup {NoJob}] /\ levelJobs'[j] = r
      /\ r # NoJob /\ \A k \in Jobs \ {j} : levelJobs'[k] = levelJobs[k]
  BY <1>4, <1>5, LevelBecomes DEF LevelInv
<1>7. LevelTypes'
  BY <1>1, <1>3, <1>6 DEF LevelInv, LevelTypes, Levels!spam
<1>8. ~LevelAt(j, {"check", "award"})'
  BY <1>4, <1>6 DEF LevelAt
<1>9. Spaced'
  BY <1>1, <1>6, <1>8, SpacedStays DEF LevelInv
<1>10. ASSUME ~levelDisturbed'
       PROVE  /\ rolesCached' \in {Nothing, levelRoles'} /\ \A k \in Jobs : SyncSound(k)'
              /\ RolesRight' \/ \E k \in Jobs : Covers(k)'
  <2>1. ~levelDisturbed /\ rolesHeld' = IF adds # {} THEN rolesHeld \cup {role} ELSE rolesHeld \ {role}
    BY <1>3, <1>10
  <2>2. UNCHANGED <<LevelTarget, LevelRewards>>
    BY <1>1 DEF LevelTarget, LevelRewards
  <2>3. \A k \in Jobs : SyncSound(k)
    BY <2>1 DEF LevelInv, RolesSync
  <2>4. adds \subseteq LevelTarget /\ removes \cap LevelTarget = {} /\ levelJobs[j].lrs = levelRoles
    BY <1>2, <2>3 DEF SyncSound, LevelAt
  <2>5. r.adds \subseteq LevelTarget /\ r.removes \cap LevelTarget = {}
    BY <1>4, <2>4
  <2>6. ASSUME NEW k \in Jobs PROVE SyncSound(k)'
    <3>1. CASE k = j
      BY <1>1, <1>4, <1>6, <2>2, <2>4, <2>5, <3>1 DEF SyncSound, LevelAt
    <3>2. CASE k # j
      BY <1>1, <1>6, <2>2, <2>3, <3>2 DEF SyncSound, LevelAt
    <3> QED BY <3>1, <3>2
  <2>7. /\ LevelTarget \ rolesHeld' \subseteq LevelTarget \ rolesHeld
        /\ (rolesHeld' \cap LevelRewards) \ LevelTarget \subseteq (rolesHeld \cap LevelRewards) \ LevelTarget
        /\ role \notin LevelTarget \ rolesHeld'
        /\ adds = {} => role \notin rolesHeld' /\ role \notin LevelTarget
    BY <1>3, <2>1, <2>4
  <2>8. RolesRight => RolesRight'
    <3>1. LevelTarget \subseteq LevelRewards
      BY MemberLevelInRange, TargetIsRewarded DEF LevelTarget, LevelRewards, LevelInv, LevelTypes
    <3> QED BY <2>2, <2>7, <3>1 DEF RolesRight
  <2>9. ASSUME NEW k \in Jobs, Covers(k) PROVE Covers(k)'
    <3>1. CASE k = j
      <4>1. LevelTarget \ rolesHeld \subseteq adds /\ (rolesHeld \cap LevelRewards) \ LevelTarget \subseteq removes
        BY <1>2, <2>9, <3>1 DEF Covers, LevelAt
      <4>2. /\ LevelTarget \ rolesHeld' \subseteq r.adds
            /\ (rolesHeld' \cap LevelRewards) \ LevelTarget \subseteq r.removes
        BY <1>4, <2>7, <4>1
      <4> QED BY <1>4, <1>6, <2>2, <3>1, <4>2 DEF Covers, LevelAt
    <3>2. CASE k # j
      BY <1>6, <2>2, <2>7, <2>9, <3>2 DEF Covers, LevelAt
    <3> QED BY <3>1, <3>2
  <2>10. RolesRight \/ \E k \in Jobs : Covers(k)
    BY <2>1 DEF LevelInv, RolesSync
  <2>11. rolesCached' \in {Nothing, levelRoles'}
    BY <1>1, <2>1 DEF LevelInv, RolesSync
  <2> QED BY <2>6, <2>8, <2>9, <2>10, <2>11
<1>11. RolesSync'
  BY <1>10 DEF RolesSync
<1> QED BY <1>7, <1>9, <1>11 DEF LevelInv

LEMMA SyncedKeeps ==
  ASSUME LevelsAssumed, LevelInv, NEW j \in Jobs, Levels!Synced(j)
  PROVE  LevelInv'
<1> DEFINE r == [levelJobs[j] EXCEPT !.step = "done"]
<1>1. /\ Levels!At(j, "apply") /\ UNCHANGED Levels!spam /\ levelJobs[j].adds = {} /\ levelJobs[j].removes = {}
      /\ Levels!Becomes(j, r)
      /\ UNCHANGED <<xp, memberLevel, levelRoles, rolesCached, rolesStack, rolesHeld, levelDisturbed>>
  BY DEF Levels!Synced, Levels!user, Levels!rewards, Levels!Goes
<1>2. levelJobs[j] \in LevelJob /\ levelJobs[j].step = "apply"
  BY <1>1, LevelJobAt DEF LevelInv
<1>3. r \in LevelJob /\ r.step = "done"
  BY <1>2 DEF LevelJob
<1> HIDE DEF r
<1>4. LevelTarget \subseteq LevelRewards
  BY MemberLevelInRange, TargetIsRewarded DEF LevelTarget, LevelRewards, LevelInv, LevelTypes
<1>5. Covers(j) => RolesRight
  BY <1>1, <1>2, <1>4 DEF Covers, LevelAt, RolesRight
<1>6. levelJobs'[j] = NoJob => SyncSound(j)'
  BY DEF SyncSound, LevelAt
<1>7. rolesCached' \in LevelRoleSets \cup {Nothing} /\ levelDisturbed' \in BOOLEAN
  BY <1>1 DEF LevelInv, LevelTypes
<1> QED BY <1>1, <1>3, <1>5, <1>6, <1>7, SyncGoesOn

LEMMA LevelKeeps ==
  ASSUME LevelsAssumed, LevelInv, [Levels!Next]_(Levels!vars)
  PROVE  LevelInv'
<1>1. ASSUME NEW j \in Jobs, Levels!Sync(j) PROVE LevelInv'
  BY <1>1, ReadsRolesKeep, PutsRolesKeep, ReadLevelKeeps, PlanKeeps, AppliesKeep, SyncedKeeps DEF Levels!Sync
<1>2. CASE UNCHANGED Levels!vars
  <2>1. /\ UNCHANGED <<xp, memberLevel, levelRoles, rolesCached, rolesStack, rolesHeld, spamTracker, spamStale>>
        /\ UNCHANGED <<lastEarned, levelJobs, statesMade, awards, orphaned, levelDisturbed>>
    BY <1>2 DEF Levels!vars, Levels!user, Levels!rewards, Levels!spam
  <2>2. LevelTypes'
    BY <2>1 DEF LevelInv, LevelTypes
  <2>3. Spaced'
    BY <2>1 DEF LevelInv, Spaced, LevelAt, States
  <2>4. RolesSync'
    BY <2>1 DEF LevelInv, RolesSync, SyncSound, Covers, LevelAt, RolesRight, LevelTarget, LevelRewards
  <2> QED BY <2>2, <2>3, <2>4 DEF LevelInv
<1> QED BY <1>1, <1>2, MessageKeeps, CheckKeeps, AwardKeeps, LevelCommandsKeep, LevelTimesKeep DEF Levels!Next

LEMMA LevelInit ==
  ASSUME LevelsAssumed, Levels!Init
  PROVE  LevelInv
<1>1. /\ xp = 0 /\ memberLevel = 1 /\ levelRoles \in LevelRoleSets /\ levelRoles[1] = Nothing
      /\ rolesCached = Nothing /\ rolesHeld = {} /\ spamTracker = 0 /\ lastEarned = {}
      /\ levelJobs = [j \in Jobs |-> NoJob] /\ statesMade = 0 /\ awards = 0
      /\ orphaned = {} /\ spamStale = 0 /\ lastEarned = {} /\ levelDisturbed = FALSE
  BY DEF Levels!Init, Levels!Levels, LevelRoleSets
<1>2. LevelTypes
  <2>1. xp \in 0..Levels!MaxSafeXP /\ memberLevel = Levels!CalculateLevel(xp)
    <3>1. 0 \in 0..Levels!MaxSafeXP
      BY SafeXP
    <3>2. xp = 0 /\ memberLevel = 1
      BY <1>1
    <3> QED BY <3>1, <3>2, SafeXP
  <2>2. levelJobs \in [Jobs -> LevelJob \cup {NoJob}]
    BY <1>1
  <2>3. rolesCached \in LevelRoleSets \cup {Nothing}
    BY <1>1
  <2>4. spamTracker \in Nat /\ statesMade \in Nat
    BY <1>1
  <2> QED BY <1>1, <2>1, <2>2, <2>3, <2>4 DEF LevelTypes
<1>3. \A j \in Jobs : \A steps : ~LevelAt(j, steps)
  BY <1>1 DEF LevelAt
<1>4. Spaced
  BY <1>1, <1>3, FS_EmptySet DEF Spaced, States
<1>5. LevelTarget = {}
  <2>1. \A k \in 1..1 : levelRoles[k] = Nothing
    BY <1>1
  <2> QED BY <1>1, <2>1 DEF LevelTarget, Levels!Target
<1>6. RolesSync
  BY <1>1, <1>3, <1>5 DEF RolesSync, SyncSound, RolesRight
<1> QED BY <1>2, <1>4, <1>6 DEF LevelInv

LevelWhenRun == focus = "leveling" => LevelInv

\* For any roles, amounts of experience and number of levels, however messages, commands and
\* synchronizations meet: the level in the row is that of the experience, a member is awarded
\* once a minute and once more for each state that the cleanup took from under a message or
\* an award, and when everything is handled undisturbed the member has the roles of the level
\* and no others of the rewards (listeners/leveling.go, commands/leveling).
THEOREM LevelsFollowAlways ==
    ASSUME LevelsAssumed
    PROVE  ServicesSpec => []LevelsFollow
<1>1. ServicesInit => LevelWhenRun
  BY InitOfOne, LevelInit DEF LevelWhenRun
<1>2. LevelWhenRun /\ [ServicesNext]_<<focus, From1, lockVars>> => LevelWhenRun'
  BY StepOfOne, LevelKeeps DEF LevelWhenRun
<1>3. LevelWhenRun => LevelsFollow
  BY LevelFollows DEF LevelWhenRun, LevelsFollow
<1> QED BY <1>1, <1>2, <1>3, PTL DEF ServicesSpec
=============================================================================
