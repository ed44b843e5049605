------------------------------- MODULE RadioIdle -------------------------------
(***************************************************************************)
(* How the radio of a guild gives up: the timer of an empty channel        *)
(* (recovery.go), the eviction of idle sessions (session.go), and          *)
(* Shutdown with the workers it waits for (module.go).                     *)
(*                                                                         *)
(* RadioSession follows one session through its life; here sessions are    *)
(* made, dropped and replaced, and what happens inside one is reduced to   *)
(* its epoch, its phase, its connection and 24/7 mode.  A session plays    *)
(* only while it is connected, to the one voice channel there is.  Queue,  *)
(* player and card are left out: an idle session is taken to have none.    *)
(***************************************************************************)
EXTENDS Naturals

CONSTANTS
  Jobs,         \* bound: goroutines at a time, the sweeper and Shutdown aside
  MaxSessions,  \* bound: sessions made for the guild
  MaxTimers,    \* bound: timers running or noted at a time
  MaxRequests,  \* bound: commands
  MaxMoves      \* bound: changes of who listens

VARIABLES
  humans,     \* whether anybody listens
  sessions,   \* the sessions made, those no longer in the map too
  made,       \* how many they are
  current,    \* Module.sessions[guild], 0 for none
  noted,      \* InactivityManager.timers[guild], 0 for none
  timers,     \* for each timer the epoch it is for, 0 when it does not run
  jobs,
  sweeper,    \* the worker of startIdleSessionSweeper
  shutdown,   \* where Module.shutdown is
  requests, moves,
  missed,     \* ghost: sessions whose pause no timer will end
  held        \* ghost: sessions that a command had looked up when they were given up

vars == <<humans, sessions, made, current, noted, timers, jobs, sweeper, shutdown, requests,
          moves, missed, held>>
bounds == <<requests, moves>>
map == <<made, current>>
manager == <<noted, timers>>

Ids == 1..MaxSessions
TimerIds == 1..MaxTimers
Resting == [pc |-> "resting", session |-> 0, epoch |-> 0, empty |-> FALSE]
NewSession == [epoch |-> 1, phase |-> "idle", cause |-> "none", connected |-> FALSE,
               stay |-> FALSE, old |-> FALSE]

TypeOK ==
  /\ humans \in BOOLEAN /\ made \in 0..MaxSessions /\ current \in 0..made
  /\ sessions \in [Ids -> [epoch : Nat, phase : {"idle", "playing", "paused"},
                           cause : {"none", "manual", "empty channel"},
                           connected : BOOLEAN, stay : BOOLEAN, old : BOOLEAN]]
  /\ noted \in 0..MaxTimers /\ timers \in [TimerIds -> Nat]
  /\ jobs \in [Jobs -> [pc : {"resting", "evaluate", "callback", "timeout", "got", "join", "start"},
                        session : 0..MaxSessions, epoch : Nat, empty : BOOLEAN]]
  /\ sweeper \in {"waits", "drops", "ended"}
  /\ shutdown \in {"up", "closed", "stopped", "done", "gave up"}
  /\ requests \in 0..MaxRequests /\ moves \in 0..MaxMoves
  /\ missed \subseteq Ids /\ held \subseteq Ids

Init ==
  /\ humans \in BOOLEAN /\ sessions = [id \in Ids |-> NewSession] /\ made = 0 /\ current = 0
  /\ noted = 0 /\ timers = [t \in TimerIds |-> 0]
  /\ jobs = [j \in Jobs |-> Resting]
  /\ sweeper = "waits" /\ shutdown = "up"
  /\ requests = 0 /\ moves = 0 /\ missed = {} /\ held = {}

At(j, pc) == jobs[j].pc = pc
End(j) == jobs' = [jobs EXCEPT ![j] = Resting]

\* Module.mu is free: the sweeper holds it between its last look and the deletion.
MapIsFree == sweeper # "drops"

\* Mutant: workers are let in after Shutdown has begun to wait for them.
AdmittedAlways == TRUE

\* tryAddWorker.
Admitted == shutdown = "up"

\* beginStoppingLocked and finishStoppingLocked.
Stopped(id) == [NewSession EXCEPT !.epoch = sessions[id].epoch + 1]

\* StopTimer: a timer that has fired is forgotten only.
StopTimer ==
  /\ noted' = 0
  /\ timers' = IF noted = 0 THEN timers ELSE [timers EXCEPT ![noted] = 0]

(***************************************************************************)
(* Who listens.                                                            *)
(***************************************************************************)

Move ==
  /\ moves < MaxMoves /\ moves' = moves + 1 /\ humans' = ~humans
  /\ UNCHANGED <<sessions, map, manager, jobs, sweeper, shutdown, requests, missed, held>>

\* An event counts who is in the bot's channel; handlers run in any order, and there may be
\* several for one change.
Event(j) ==
  /\ At(j, "resting") /\ MapIsFree /\ current # 0 /\ sessions[current].connected
  /\ jobs' = [jobs EXCEPT ![j] =
                [Resting EXCEPT !.pc = "evaluate", !.session = current, !.empty = ~humans]]
  /\ UNCHANGED <<humans, sessions, map, manager, sweeper, shutdown, bounds, missed, held>>

\* Mutant: a pause without a timer.
EvaluateNoTimer(j) ==
  LET id == jobs[j].session IN
  /\ At(j, "evaluate") /\ jobs[j].empty /\ ~sessions[id].stay
  /\ sessions' = IF sessions[id].phase = "playing"
                 THEN [sessions EXCEPT ![id].phase = "paused", ![id].cause = "empty channel"]
                 ELSE sessions
  /\ End(j)
  /\ UNCHANGED <<humans, map, manager, sweeper, shutdown, bounds, missed, held>>

\* EvaluateInactivity for an empty channel: the session pauses, and a timer is made unless
\* one is noted, be it of an earlier epoch.
EvaluateEmpty(j) ==
  LET id == jobs[j].session
      paused == sessions[id].phase = "playing"
  IN
  /\ At(j, "evaluate") /\ jobs[j].empty /\ ~sessions[id].stay
  /\ sessions' = IF paused
                 THEN [sessions EXCEPT ![id].phase = "paused", ![id].cause = "empty channel"]
                 ELSE sessions
  /\ IF noted = 0
     THEN /\ \E t \in TimerIds :
               timers[t] = 0 /\ noted' = t /\ timers' = [timers EXCEPT ![t] = sessions[id].epoch]
          /\ missed' = missed \ {id}
     ELSE /\ UNCHANGED manager
          /\ missed' = IF paused /\ timers[noted] # sessions[id].epoch
                       THEN missed \cup {id} ELSE missed
  /\ End(j)
  /\ UNCHANGED <<humans, map, sweeper, shutdown, bounds, held>>

EvaluateStay(j) ==
  /\ At(j, "evaluate") /\ jobs[j].empty /\ sessions[jobs[j].session].stay
  /\ End(j)
  /\ UNCHANGED <<humans, sessions, map, manager, sweeper, shutdown, bounds, missed, held>>

EvaluateHumans(j) ==
  LET id == jobs[j].session IN
  /\ At(j, "evaluate") /\ ~jobs[j].empty
  /\ StopTimer
  /\ sessions' = IF sessions[id].cause = "empty channel"
                 THEN [sessions EXCEPT ![id].phase = "playing", ![id].cause = "none"]
                 ELSE sessions
  /\ missed' = missed \ {id}
  /\ End(j)
  /\ UNCHANGED <<humans, map, sweeper, shutdown, bounds, held>>

(***************************************************************************)
(* The timer.                                                              *)
(***************************************************************************)

Fire(j, t) ==
  /\ At(j, "resting") /\ timers[t] # 0
  /\ timers' = [timers EXCEPT ![t] = 0]
  /\ jobs' = [jobs EXCEPT ![j] = [Resting EXCEPT !.pc = "callback", !.epoch = timers[t]]]
  /\ UNCHANGED <<humans, sessions, map, noted, sweeper, shutdown, bounds, missed, held>>

\* The callback deletes the guild's entry, be it of a newer timer, and starts a worker.
Callback(j) ==
  /\ At(j, "callback") /\ noted' = 0
  /\ IF Admitted THEN jobs' = [jobs EXCEPT ![j].pc = "timeout"] ELSE End(j)
  /\ UNCHANGED <<humans, sessions, map, timers, sweeper, shutdown, bounds, missed, held>>

\* handleInactivityTimeout: nobody counts again.
Timeout(j) ==
  /\ At(j, "timeout") /\ MapIsFree /\ End(j)
  /\ IF current # 0 /\ sessions[current].epoch = jobs[j].epoch /\ ~sessions[current].stay
     THEN /\ sessions' = [sessions EXCEPT ![current] = Stopped(current)]
          /\ UNCHANGED missed
     ELSE /\ missed' = missed \cup (IF current # 0 /\ sessions[current].stay THEN {current} ELSE {})
          /\ UNCHANGED sessions
  /\ UNCHANGED <<humans, map, manager, sweeper, shutdown, bounds, held>>

(***************************************************************************)
(* Commands.                                                               *)
(***************************************************************************)

\* getSession, which makes a session where there is none.
Lookup(j) ==
  /\ At(j, "resting") /\ MapIsFree /\ shutdown = "up"
  /\ requests < MaxRequests /\ requests' = requests + 1
  /\ \/ current # 0 /\ UNCHANGED map
     \/ current = 0 /\ made < MaxSessions /\ made' = made + 1 /\ current' = made + 1
  /\ jobs' = [jobs EXCEPT ![j] = [Resting EXCEPT !.pc = "got", !.session = current']]
  /\ UNCHANGED <<humans, sessions, manager, sweeper, shutdown, moves, missed, held>>

\* Connect, under voiceJoinMu until it returns.
Connect(j) ==
  LET id == jobs[j].session IN
  /\ At(j, "got") /\ \A k \in Jobs : jobs[k].session = id => ~At(k, "join")
  /\ sessions' = [sessions EXCEPT ![id].old = FALSE]
  /\ jobs' = [jobs EXCEPT ![j] = IF sessions[id].connected THEN Resting
                                 ELSE [@ EXCEPT !.pc = "join", !.epoch = sessions[id].epoch]]
  /\ UNCHANGED <<humans, map, manager, sweeper, shutdown, bounds, missed, held>>

\* The session is connected, and something may start to play.
Joined(j) ==
  LET id == jobs[j].session IN
  /\ At(j, "join") /\ sessions[id].epoch = jobs[j].epoch
  /\ sessions' = [sessions EXCEPT ![id].connected = TRUE, ![id].epoch = @ + 1]
  /\ \/ End(j)
     \/ Admitted /\ jobs' = [jobs EXCEPT ![j].pc = "start", ![j].epoch = @ + 1]
  /\ UNCHANGED <<humans, map, manager, sweeper, shutdown, bounds, missed, held>>

\* It could not join, or was stopped meanwhile.
NotJoined(j) ==
  /\ At(j, "join") /\ End(j)
  /\ UNCHANGED <<humans, sessions, map, manager, sweeper, shutdown, bounds, missed, held>>

\* The worker of startNext commits its stream, or finds that it is stale.
Started(j) ==
  LET id == jobs[j].session IN
  /\ At(j, "start") /\ End(j)
  /\ sessions' = IF sessions[id].epoch = jobs[j].epoch
                 THEN [sessions EXCEPT ![id].phase = "playing", ![id].cause = "none"]
                 ELSE sessions
  /\ UNCHANGED <<humans, map, manager, sweeper, shutdown, bounds, missed, held>>

\* Control and UpdateSettings.
Pause(id) ==
  /\ sessions[id].phase = "playing"
  /\ sessions' = [sessions EXCEPT ![id].phase = "paused", ![id].cause = "manual", ![id].old = FALSE]

Resume(id) ==
  /\ sessions[id].phase = "paused"
  /\ sessions' = [sessions EXCEPT ![id].phase = "playing", ![id].cause = "none", ![id].old = FALSE]

Leave(id) == sessions' = [sessions EXCEPT ![id] = Stopped(id)]

Toggle247(id) == sessions' = [sessions EXCEPT ![id].stay = ~@, ![id].old = FALSE]

Control(j) ==
  /\ At(j, "got") /\ End(j)
  /\ LET id == jobs[j].session IN Pause(id) \/ Resume(id) \/ Leave(id) \/ Toggle247(id)
  /\ UNCHANGED <<humans, map, manager, sweeper, shutdown, bounds, missed, held>>

\* The last track ends.
Finish(id) ==
  /\ sessions[id].phase = "playing"
  /\ sessions' = [sessions EXCEPT ![id].phase = "idle"]
  /\ UNCHANGED <<humans, map, manager, jobs, sweeper, shutdown, bounds, missed, held>>

(***************************************************************************)
(* Idle sessions.                                                          *)
(***************************************************************************)

\* 15 minutes without activity; by then every timer of a minute has run out, and whoever was
\* at work is done.
Age ==
  /\ current # 0 /\ sessions[current].phase = "idle" /\ ~sessions[current].old
  /\ (\A t \in TimerIds : timers[t] = 0) /\ \A j \in Jobs : At(j, "resting")
  /\ sessions' = [sessions EXCEPT ![current].old = TRUE]
  /\ UNCHANGED <<humans, map, manager, jobs, sweeper, shutdown, bounds, missed, held>>

\* Mutant: a connection is no reason to stay.
CanGoConnected(id) == sessions[id].old /\ sessions[id].phase = "idle" /\ ~sessions[id].stay

CanGo(id) ==
  /\ sessions[id].old /\ sessions[id].phase = "idle" /\ ~sessions[id].stay
  /\ ~sessions[id].connected

\* A command has looked the session up and may yet connect it.
GotHold(id) == \E j \in Jobs : jobs[j].session = id /\ At(j, "got")

\* evictIdleSessions looks twice, the second time after the first with nothing in between
\* that it waits for; then the session's mutex is released.
Sweep ==
  /\ sweeper = "waits" /\ current # 0 /\ CanGo(current)
  /\ sweeper' = "drops"
  /\ held' = IF GotHold(current) THEN held \cup {current} ELSE held
  /\ UNCHANGED <<humans, sessions, map, manager, jobs, shutdown, bounds, missed>>

Drop ==
  /\ sweeper = "drops" /\ sweeper' = "waits"
  /\ current' = 0
  /\ UNCHANGED <<humans, sessions, made, manager, jobs, shutdown, bounds, missed, held>>

\* workerCtx is done.
SweeperEnds ==
  /\ sweeper = "waits" /\ shutdown # "up" /\ sweeper' = "ended"
  /\ UNCHANGED <<humans, sessions, map, manager, jobs, shutdown, bounds, missed, held>>

(***************************************************************************)
(* Shutdown: the callers share one run of it and its result.               *)
(***************************************************************************)

\* No session is looked up and no worker begins any more.
ShutdownBegins ==
  /\ shutdown = "up" /\ MapIsFree /\ shutdown' = "closed"
  /\ UNCHANGED <<humans, sessions, map, manager, jobs, sweeper, bounds, missed, held>>

StopSessions ==
  /\ shutdown = "closed" /\ shutdown' = "stopped"
  /\ IF current = 0
     THEN UNCHANGED <<sessions, manager, held>>
     ELSE /\ StopTimer
          /\ sessions' = [sessions EXCEPT ![current] = Stopped(current)]
          /\ held' = IF GotHold(current) THEN held \cup {current} ELSE held
  /\ UNCHANGED <<humans, map, jobs, sweeper, bounds, missed>>

Working(j) == jobs[j].pc \in {"timeout", "start"}

\* workerWg.Wait returns, or the context ends first.
WorkersDone ==
  /\ shutdown = "stopped"
  /\ \/ shutdown' = "gave up"
     \/ shutdown' = "done" /\ sweeper = "ended" /\ \A j \in Jobs : ~Working(j)
  /\ UNCHANGED <<humans, sessions, map, manager, jobs, sweeper, bounds, missed, held>>

(***************************************************************************)
(* The specification.                                                      *)
(***************************************************************************)

JobStep(j) ==
  \/ Event(j) \/ EvaluateEmpty(j) \/ EvaluateStay(j) \/ EvaluateHumans(j)
  \/ (\E t \in TimerIds : Fire(j, t)) \/ Callback(j) \/ Timeout(j)
  \/ Lookup(j) \/ Connect(j) \/ Joined(j) \/ NotJoined(j) \/ Started(j) \/ Control(j)

Next ==
  \/ Move \/ (\E j \in Jobs : JobStep(j)) \/ (\E id \in Ids : Finish(id)) \/ Age
  \/ Sweep \/ Drop \/ SweeperEnds
  \/ ShutdownBegins \/ StopSessions \/ WorkersDone

Spec == Init /\ [][Next]_vars

(***************************************************************************)
(* Properties.                                                             *)
(***************************************************************************)

\* A session paused for an empty channel does not stay so: a timer of its epoch runs, or has
\* fired and is being handled.  Excepted are 24/7 mode, a timer that fired while that was on,
\* and a timer of an earlier epoch that kept a new one from being made (recovery.go:68-80).
PausedIsBounded ==
  (current # 0 /\ sessions[current].cause = "empty channel" /\ shutdown = "up") =>
    \/ sessions[current].stay \/ current \in missed
    \/ \E t \in TimerIds : timers[t] = sessions[current].epoch
    \/ \E j \in Jobs : /\ jobs[j].pc \in {"callback", "timeout"}
                       /\ jobs[j].epoch = sessions[current].epoch

\* Once Shutdown has waited for the workers none runs and none begins (module.go:206-256).
WorkersEnd == shutdown = "done" => sweeper = "ended" /\ \A j \in Jobs : ~Working(j)

\* A session that was dropped, or stopped by Shutdown, is not connected, unless a command had
\* already looked it up and went on (session.go:347-395, module.go:633-662).
DroppedIsIdle ==
  \A id \in Ids :
    /\ sessions[id].connected
    /\ id # current \/ shutdown \in {"stopped", "done", "gave up"}
    => id \in held
=============================================================================
