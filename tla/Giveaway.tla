------------------------------- MODULE Giveaway -------------------------------
(***************************************************************************)
(* One giveaway from its creation to its end: commands/giveaway/           *)
(* {commands,interaction,scheduler}.go over database/giveaway.go.          *)
(*                                                                         *)
(* The rows of the database survive the process; the timer, the handlers   *)
(* in flight and the reroll lock do not.  A handler is a goroutine running *)
(* one interaction, or one end the scheduler started; each of its steps is *)
(* one statement on the database, one section under activeTimersMu or      *)
(* rerollMu, or one message to Discord.                                    *)
(*                                                                         *)
(* Not here: eligibility of members (any participants may turn out to be   *)
(* the eligible ones), what the giveaway's message shows but its button,   *)
(* the list command, parameter validation.                                 *)
(***************************************************************************)
EXTENDS Naturals, FiniteSets

CONSTANTS
    Users,          \* Members who may enter
    NoUser,         \* No user
    WinnersCount,   \* winners_count of the giveaway
    Handlers,       \* Handlers that may run at the same time
    DbErrors,       \* Whether statements on the database may fail, one in the
                    \* life of a process (bound of the model)
    MaxCrashes      \* Bound of the model: how often the process stops

ASSUME GiveawayAssumption ==
    /\ NoUser \notin Users
    /\ WinnersCount \in Nat \ {0}
    /\ DbErrors \in BOOLEAN
    /\ MaxCrashes \in Nat

VARIABLES
    status,         \* Column status, "none" before the row is inserted
    winners,        \* Column winners_json
    participants,   \* Table giveaway_participants
    due,            \* Whether end_time has passed
    button,         \* Whether the message shows the button of this giveaway
    process,        \* The bot: "down", "starting", "running" or "stopping"
    timer,          \* activeTimers of the giveaway, and its callback
    handler,        \* The goroutines
    rerolling,      \* rerollInFlight of the giveaway
    announced,      \* Ghost: how many ends were announced
    rerolled,       \* Ghost: the winners of the last reroll announced in this process
    failed,         \* Ghost: whether a statement failed since the process started
    crashes         \* Ghost: how often the process stopped

row       == <<status, winners, participants>>
world     == <<due, button>>
scheduler == <<process, timer, rerolling, crashes>>
ghosts    == <<announced, rerolled, failed>>
vars      == <<row, world, scheduler, handler, ghosts>>

Tasks ==
    [op: {"idle", "create", "join", "leave", "end", "cancel", "reroll"},
     pc: {"done", "publish", "rollback", "schedule", "insert", "delete", "read",
          "finalize", "announce", "stop", "lock", "write"},
     auto: BOOLEAN, user: Users \cup {NoUser}, winners: SUBSET Users]

Started(op, pc, auto, user) ==
    [op |-> op, pc |-> pc, auto |-> auto, user |-> user, winners |-> {}]

Task(op, pc)        == Started(op, pc, FALSE, NoUser)
Entry(op, pc, user) == Started(op, pc, FALSE, user)
AutoEnd             == Started("end", "read", TRUE, NoUser)
Idle                == Task("idle", "done")

NoReroll == {NoUser}

Init ==
    /\ status = "none" /\ winners = {} /\ participants = {}
    /\ due = FALSE /\ button = FALSE
    /\ process = "running"
    /\ timer = "none"
    /\ handler = [h \in Handlers |-> Idle]
    /\ rerolling = FALSE
    /\ announced = 0
    /\ rerolled = NoReroll
    /\ failed = FALSE
    /\ crashes = 0

-----------------------------------------------------------------------------
(* Helpers.                                                                *)

At(h, op, pc)  == handler[h].op = op /\ handler[h].pc = pc
Becomes(h, t)  == handler' = [handler EXCEPT ![h] = t]
Moves(h, pc)   == handler' = [handler EXCEPT ![h].pc = pc]
Draws(h, drawn, pc) ==
    handler' = [handler EXCEPT ![h].pc = pc, ![h].winners = drawn]
Ends(h)        == Becomes(h, Idle)

\* An interaction arrives: its goroutine starts with a read of the row.
Arrives(h) == process # "down" /\ handler[h] = Idle

\* A statement on the database returns an error, or not.
Fails    == DbErrors /\ ~failed /\ failed' = TRUE
Succeeds == UNCHANGED failed

\* timer.Stop and the deletion from activeTimers: a callback that already runs
\* is not stopped by it.
Stopped(t) == IF t = "armed" THEN "none" ELSE t

-----------------------------------------------------------------------------
(* Creation.                                                               *)

\* The message is sent and the row inserted.
CreateInserts(h) ==
    /\ Arrives(h)
    /\ status = "none" /\ participants = {}
    /\ status' = "active"
    /\ Becomes(h, Task("create", "publish"))
    /\ UNCHANGED <<winners, participants, world, scheduler, ghosts>>

\* The message gets its button, or the creation is rolled back.
CreatePublishes(h) ==
    /\ At(h, "create", "publish")
    /\ \/ Moves(h, "schedule") /\ button' = TRUE
       \/ Moves(h, "rollback") /\ UNCHANGED button
    /\ UNCHANGED <<row, due, scheduler, ghosts>>

CreateRollsBack(h) ==
    /\ At(h, "create", "rollback")
    /\ \/ Succeeds /\ status' = IF status = "active" THEN "cancelled" ELSE status
       \/ Fails /\ UNCHANGED status
    /\ Ends(h)
    /\ UNCHANGED <<winners, participants, world, scheduler, announced, rerolled>>

\* ScheduleGiveaway of the record just created, whose status is "active"
CreateSchedules(h) ==
    /\ At(h, "create", "schedule")
    /\ \/ process = "stopping" /\ Ends(h) /\ UNCHANGED timer
       \/ process # "stopping" /\ due /\ Becomes(h, AutoEnd) /\ timer' = Stopped(timer)
       \/ process # "stopping" /\ ~due /\ Ends(h) /\ timer' = "armed"
    /\ UNCHANGED <<row, world, process, rerolling, crashes, ghosts>>

-----------------------------------------------------------------------------
(* Entering and leaving.                                                   *)

JoinReads(h, u) ==
    /\ Arrives(h) /\ button
    /\ status = "active"
    /\ Becomes(h, Entry("join", "insert", u))
    /\ UNCHANGED <<row, world, scheduler, ghosts>>

JoinInserts(h) ==
    /\ At(h, "join", "insert")
    /\ \/ Succeeds /\ participants' = participants \cup {handler[h].user}
       \/ Fails /\ UNCHANGED participants
    /\ Ends(h)
    /\ UNCHANGED <<status, winners, world, scheduler, announced, rerolled>>

LeaveReads(h, u) ==
    /\ Arrives(h)
    /\ status = "active" /\ u \in participants
    /\ Becomes(h, Entry("leave", "delete", u))
    /\ UNCHANGED <<row, world, scheduler, ghosts>>

LeaveDeletes(h) ==
    /\ At(h, "leave", "delete")
    /\ \/ Succeeds /\ participants' = participants \ {handler[h].user}
       \/ Fails /\ UNCHANGED participants
    /\ Ends(h)
    /\ UNCHANGED <<status, winners, world, scheduler, announced, rerolled>>

-----------------------------------------------------------------------------
(* EndGiveaway, from the scheduler or from the end command.                *)

EndArrives(h) ==
    /\ Arrives(h)
    /\ status = "active"
    /\ Becomes(h, Task("end", "read"))
    /\ UNCHANGED <<row, world, scheduler, ghosts>>

\* The participants are read, and winners drawn among the eligible.
EndDraws(h) ==
    /\ At(h, "end", "read")
    /\ \/ \E drawn \in SUBSET participants :
            /\ Cardinality(drawn) <= WinnersCount
            /\ Draws(h, drawn, "finalize")
            /\ Succeeds
       \/ Fails /\ Ends(h)
    /\ UNCHANGED <<row, world, scheduler, announced, rerolled>>

\* Mutant of EndFinalizes: the UPDATE does not ask for an active giveaway.
EndFinalizesAgain(h) ==
    /\ At(h, "end", "finalize")
    /\ status' = "ended"
    /\ winners' = handler[h].winners
    /\ Moves(h, "announce")
    /\ UNCHANGED <<participants, world, scheduler, ghosts>>

\* EndGiveawayAtomic: nobody else finalised the giveaway.
EndFinalizes(h) ==
    /\ At(h, "end", "finalize")
    /\ status = "active"
    /\ status' = "ended"
    /\ winners' = handler[h].winners
    /\ Moves(h, "announce")
    /\ UNCHANGED <<participants, world, scheduler, ghosts>>

EndGivesUp(h) ==
    /\ At(h, "end", "finalize")
    /\ (status # "active" /\ Succeeds) \/ Fails
    /\ Ends(h)
    /\ UNCHANGED <<row, world, scheduler, announced, rerolled>>

EndAnnounces(h) ==
    /\ At(h, "end", "announce")
    /\ timer' = Stopped(timer)
    /\ announced' = announced + 1
    /\ Ends(h)
    /\ UNCHANGED <<row, world, process, rerolling, crashes, rerolled, failed>>

-----------------------------------------------------------------------------
(* CancelGiveaway.                                                         *)

CancelReads(h) ==
    /\ Arrives(h)
    /\ status = "active"
    /\ Becomes(h, Task("cancel", "stop"))
    /\ UNCHANGED <<row, world, scheduler, ghosts>>

CancelStopsTimer(h) ==
    /\ At(h, "cancel", "stop")
    /\ timer' = Stopped(timer)
    /\ Moves(h, "write")
    /\ UNCHANGED <<row, world, process, rerolling, crashes, ghosts>>

\* Mutant of CancelWrites: the UPDATE does not ask for an active giveaway.
CancelWritesAlways(h) ==
    /\ At(h, "cancel", "write")
    /\ status' = "cancelled"
    /\ Ends(h)
    /\ UNCHANGED <<winners, participants, world, scheduler, ghosts>>

\* CancelGiveawayAtomic
CancelWrites(h) ==
    /\ At(h, "cancel", "write")
    /\ \/ Succeeds /\ status' = IF status = "active" THEN "cancelled" ELSE status
       \/ Fails /\ UNCHANGED status
    /\ Ends(h)
    /\ UNCHANGED <<winners, participants, world, scheduler, announced, rerolled>>

-----------------------------------------------------------------------------
(* RerollGiveaway.                                                         *)

RerollArrives(h) ==
    /\ Arrives(h)
    /\ status = "ended"
    /\ Becomes(h, Task("reroll", "lock"))
    /\ UNCHANGED <<row, world, scheduler, ghosts>>

\* Mutant of RerollLocks: a reroll does not wait for another.
RerollLocksNothing(h) ==
    /\ At(h, "reroll", "lock")
    /\ Moves(h, "read")
    /\ rerolling' = TRUE
    /\ UNCHANGED <<row, world, process, timer, crashes, ghosts>>

RerollLocks(h) ==
    /\ At(h, "reroll", "lock")
    /\ \/ rerolling /\ Ends(h) /\ UNCHANGED rerolling
       \/ ~rerolling /\ Moves(h, "read") /\ rerolling' = TRUE
    /\ UNCHANGED <<row, world, process, timer, crashes, ghosts>>

RerollEnds(h) == Ends(h) /\ rerolling' = FALSE

\* Winners are drawn, the command may ask for any number; nobody may be eligible.
RerollDraws(h) ==
    /\ At(h, "reroll", "read")
    /\ \/ \E drawn \in SUBSET participants :
            /\ drawn # {}
            /\ Draws(h, drawn, "write")
            /\ UNCHANGED rerolling
       \/ RerollEnds(h)
    /\ UNCHANGED <<row, world, process, timer, crashes, ghosts>>

\* UpdateGiveawayStatusAndWinners overwrites status and winners.
RerollWrites(h) ==
    /\ At(h, "reroll", "write")
    /\ \/ /\ status' = "ended"
          /\ winners' = handler[h].winners
          /\ Moves(h, "announce")
          /\ Succeeds /\ UNCHANGED rerolling
       \/ Fails /\ RerollEnds(h) /\ UNCHANGED <<status, winners>>
    /\ UNCHANGED <<participants, world, process, timer, crashes, announced, rerolled>>

RerollAnnounces(h) ==
    /\ At(h, "reroll", "announce")
    /\ rerolled' = handler[h].winners
    /\ RerollEnds(h)
    /\ UNCHANGED <<row, world, process, timer, crashes, announced, failed>>

-----------------------------------------------------------------------------
(* The scheduler and the process.                                          *)

EndTimePasses ==
    /\ status = "active" /\ ~due
    /\ due' = TRUE
    /\ UNCHANGED <<row, button, scheduler, handler, ghosts>>

TimerFires ==
    /\ timer = "armed" /\ due
    /\ timer' = "firing"
    /\ UNCHANGED <<row, world, process, rerolling, crashes, handler, ghosts>>

\* The timer's callback reads the row afresh under activeTimersMu.
TimerCallback ==
    /\ timer = "firing"
    /\ timer' = "none"
    /\ \/ /\ process # "stopping" /\ status = "active"
          /\ \E h \in Handlers : handler[h] = Idle /\ Becomes(h, AutoEnd)
          /\ Succeeds
       \/ /\ process = "stopping" \/ status # "active"
          /\ Succeeds /\ UNCHANGED handler
       \/ /\ process # "stopping"
          /\ Fails /\ UNCHANGED handler
    /\ UNCHANGED <<row, world, process, rerolling, crashes, announced, rerolled>>

\* Mutant of SchedulerInit: only giveaways still to end are looked at.
SchedulerInitAhead ==
    /\ process = "starting"
    /\ process' = "running"
    /\ timer' = IF status = "active" /\ ~due THEN "armed" ELSE timer
    /\ UNCHANGED <<row, world, rerolling, crashes, handler, ghosts>>

\* InitGiveawayScheduler: active giveaways are ended at once or scheduled.
SchedulerInit ==
    /\ process = "starting"
    /\ process' = "running"
    /\ \/ /\ status = "active" /\ due
          /\ \E h \in Handlers : handler[h] = Idle /\ Becomes(h, AutoEnd)
          /\ Succeeds /\ UNCHANGED timer
       \/ /\ status = "active" /\ ~due
          /\ timer' = "armed"
          /\ Succeeds /\ UNCHANGED handler
       \/ /\ (status # "active" /\ Succeeds) \/ Fails
          /\ UNCHANGED <<timer, handler>>
    /\ UNCHANGED <<row, world, rerolling, crashes, announced, rerolled>>

\* StopGiveawayScheduler: the timers stop, and the ends the scheduler started
\* are waited for.
SchedulerStops ==
    /\ process = "running"
    /\ crashes < MaxCrashes
    /\ process' = "stopping"
    /\ timer' = Stopped(timer)
    /\ UNCHANGED <<row, world, rerolling, crashes, handler, ghosts>>

\* What the process holds in memory is gone.
Down ==
    /\ process' = "down"
    /\ timer' = "none"
    /\ handler' = [h \in Handlers |-> Idle]
    /\ rerolling' = FALSE
    /\ rerolled' = NoReroll
    /\ failed' = FALSE
    /\ crashes' = crashes + 1
    /\ UNCHANGED <<row, world, announced>>

Exit  == process = "stopping" /\ (\A h \in Handlers : ~handler[h].auto) /\ Down
Crash == process # "down" /\ crashes < MaxCrashes /\ Down

Restart ==
    /\ process = "down"
    /\ process' = "starting"
    /\ UNCHANGED <<row, world, timer, rerolling, crashes, handler, ghosts>>

-----------------------------------------------------------------------------
Arrival(h) ==
    \/ CreateInserts(h)
    \/ \E u \in Users : JoinReads(h, u) \/ LeaveReads(h, u)
    \/ EndArrives(h)
    \/ CancelReads(h)
    \/ RerollArrives(h)

HandlerStep(h) ==
    \/ CreatePublishes(h) \/ CreateRollsBack(h) \/ CreateSchedules(h)
    \/ JoinInserts(h) \/ LeaveDeletes(h)
    \/ EndDraws(h) \/ EndFinalizes(h) \/ EndGivesUp(h) \/ EndAnnounces(h)
    \/ CancelStopsTimer(h) \/ CancelWrites(h)
    \/ RerollLocks(h) \/ RerollDraws(h) \/ RerollWrites(h) \/ RerollAnnounces(h)

SchedulerStep == TimerFires \/ TimerCallback \/ SchedulerInit \/ Exit \/ Restart

Next ==
    \/ \E h \in Handlers : Arrival(h) \/ HandlerStep(h)
    \/ SchedulerStep
    \/ EndTimePasses
    \/ SchedulerStops
    \/ Crash

Spec == Init /\ [][Next]_vars

\* Goroutines and timers run, and a bot that went down is started again.  A
\* goroutine that the scheduler starts always finds a place: SF makes up for
\* the interactions that may occupy all Handlers of the model.
Fairness ==
    /\ \A h \in Handlers : WF_vars(HandlerStep(h))
    /\ WF_vars(TimerFires) /\ WF_vars(Exit) /\ WF_vars(Restart)
    /\ SF_vars(TimerCallback) /\ SF_vars(SchedulerInit)

FairSpec == Spec /\ Fairness

-----------------------------------------------------------------------------
TypeOK ==
    /\ status \in {"none", "active", "ended", "cancelled"}
    /\ winners \subseteq Users /\ participants \subseteq Users
    /\ due \in BOOLEAN /\ button \in BOOLEAN /\ rerolling \in BOOLEAN
    /\ process \in {"down", "starting", "running", "stopping"}
    /\ timer \in {"none", "armed", "firing"}
    /\ handler \in [Handlers -> Tasks]
    /\ announced \in Nat /\ crashes \in Nat /\ failed \in BOOLEAN
    /\ rerolled \in SUBSET (Users \cup {NoUser})

Announcing == {h \in Handlers : At(h, "end", "announce")}

\* However many timers, restarts and commands end a giveaway, one of them does:
\* its end is announced at most once, and never if it was cancelled.
EndsOnce ==
    /\ announced + Cardinality(Announcing) <= 1
    /\ announced > 0 \/ Announcing # {} => status = "ended"

\* An ended or cancelled giveaway stays what it is, although a reroll writes the
\* status column whatever it holds.
FinalIsFinal ==
    [][(status \in {"ended", "cancelled"}) => status' = status]_vars

\* The winners a reroll announced last are the recorded ones: no reroll slips
\* its own in between another's write and announcement.
RerollIsRecorded == rerolled # NoReroll /\ ~rerolling => winners = rerolled

\* A giveaway whose time is over ends, in this process or after a restart, unless
\* the database fails a statement of the process; the next process makes up for it.
EndsUnlessError ==
    (status = "active" /\ due /\ ~failed) ~> (status # "active" \/ failed)
=============================================================================
