----------------------------- MODULE RadioSession -----------------------------
(***************************************************************************)
(* The radio session of one guild: internal/radio/{module,session,         *)
(* playback,recovery}.go.                                                  *)
(*                                                                         *)
(* Every action is one critical section under session.mu, together with    *)
(* the Stop, cancel and Close calls its goroutine makes right after it:    *)
(* those only mark a stream or a connection that the section has just      *)
(* detached.  A goroutine that leaves the section to fetch, prepare, join  *)
(* or wait is a record (of `starter`, `joins`, ...)  holding what the code *)
(* captured before it left, so that what it does next may be stale.        *)
(*                                                                         *)
(* Not here: pausing of the stream itself and inactivity counting, the     *)
(* prebuffer, the controller message, settings loading, module shutdown.   *)
(***************************************************************************)
EXTENDS RadioQueue

CONSTANTS
    Requests,             \* Requests (sequences of tracks) users may make
    Channels, NoChannel,  \* Voice channels, and the empty channel ID
    Conns, NoConn,        \* Voice connections, and the nil connection
    Workers,              \* Goroutines available to startNextWorker
    AutojoinChannel,      \* autojoinChannelID, or NoChannel
    AutoPlay,             \* Whether Module.autoPlay is configured
    FailureLimit,         \* Consecutive source failures that stop the radio (5)
    MaxRecoveryAttempts,  \* WatchdogConfig.MaxRecoveryAttempts
    Operations,           \* What users and Discord may do in this instance
    \* Bounds of the model: no step goes past them
    MaxEpoch, MaxGeneration, MaxKicks, QueueBound

Phases == {"idle", "connecting", "loading", "playing", "paused", "recovering", "stopping"}

AllOperations ==
    {"connect", "enqueue", "pause", "skip", "previous", "loop", "shuffle", "clear",
     "stop", "toggle247", "botMoved", "botMovedRecovering", "botDisconnected",
     "channelDeleted", "inactive", "connectionLost", "stall",
     "slowTeardown", "connectDuringMove", "lostBeforeAdoption"}

ASSUME SessionAssumption ==
    /\ Requests \subseteq Seq(Tracks) \ {<< >>}
    /\ NoChannel \notin Channels
    /\ NoConn \notin Conns
    /\ AutojoinChannel \in Channels \cup {NoChannel}
    /\ AutoPlay \in BOOLEAN
    /\ FailureLimit \in Nat \ {0}
    /\ MaxRecoveryAttempts \in Nat
    /\ Operations \subseteq AllOperations
    /\ {MaxEpoch, MaxGeneration, MaxKicks, QueueBound} \subseteq Nat

VARIABLES
    session,     \* The fields of the Go session that are not the playlist
    playlist,    \* queue, history, current and loopMode
    dialed,      \* Connections that VoicePort.Join has returned so far
    open,        \* Those that are open (not IsClosed)
    streams,     \* Opus stream goroutines that have not ended
    starter,     \* startNextWorker goroutines
    joins,       \* Goroutines joining a voice channel
    losses,      \* processVoiceLoss calls that have not locked the session yet
    teardown,    \* Epoch of the voice loss about to stop the session, or 0
    kicks,       \* startNext calls that have not locked the session yet
    stalls,      \* stallCounts of the guild
    exhaustion,  \* Epoch of the pending exhaustion timer, or 0
    prefetch     \* The background autoplay fetch of a committed stream

voiceVars    == <<dialed, open, joins, losses, teardown>>
playbackVars == <<streams, starter, kicks, prefetch>>
watchdogVars == <<stalls, exhaustion>>
vars == <<session, playlist, voiceVars, playbackVars, watchdogVars>>

NoStream   == 0
\* A worker holds the epoch and generation it captured, and for a fetch whether
\* the queue revision and the autoplay token are still those it captured.
IdleWorker == [pc |-> "idle", epoch |-> 0, generation |-> 0,
               fresh |-> FALSE, latest |-> FALSE]
NoFetch    == [epoch |-> 0, generation |-> 0]

Init ==
    /\ session = [phase |-> "idle", channel |-> NoChannel, voice |-> NoConn,
                  playback |-> NoStream, starting |-> FALSE, epoch |-> 1,
                  generation |-> 0, is247 |-> FALSE, transition |-> FALSE,
                  moveTarget |-> NoChannel, stopping |-> FALSE,
                  restarting |-> FALSE, failures |-> 0]
    /\ playlist = EmptyPlaylist
    /\ dialed = {}
    /\ open = {}
    /\ streams = {}
    /\ starter = [w \in Workers |-> IdleWorker]
    /\ joins = {}
    /\ losses = {}
    /\ teardown = 0
    /\ kicks = 0
    /\ stalls = 0
    /\ exhaustion = 0
    /\ prefetch = NoFetch

-----------------------------------------------------------------------------
(* Helpers.                                                                *)

Connected(s) == s.voice # NoConn /\ s.voice \in open

\* Mutant of CanStart: a track starts over the one that plays.
CanStartOver(s) == ~s.stopping /\ Connected(s)

CanStart(s) == ~s.stopping /\ Connected(s) /\ s.playback = NoStream

\* Commands, voice events and voice losses hold effectMu (and Enqueue
\* connectMu), which processVoiceLoss keeps between its two sections.
EffectsFree == teardown = 0

\* Connect holds voiceJoinMu from its first section to its return; the other
\* joins hold it while they join.
HoldsJoinMu(j) == j.kind = "connect" \/ j.pc = "joining"
JoinMuFree == \A j \in joins : ~HoldsJoinMu(j)

CloseAll(cs) == open' = open \ cs

\* Mutant of StopStream: a detached stream is not told to stop.
LeaveStream(g) == streams

\* PlaybackHandle.Stop: the stream ends soon, on its own.
StopStream(g) ==
    {IF st.generation = g THEN [st EXCEPT !.stopped = TRUE] ELSE st : st \in streams}

NextEpoch(s)      == [s EXCEPT !.epoch = @ + 1]
NextGeneration(s) == [s EXCEPT !.generation = @ + 1]
Detached(s)       == [s EXCEPT !.playback = NoStream]

\* beginStoppingLocked and finishStoppingLocked
BegunStopping(s) ==
    [NextGeneration(NextEpoch(s)) EXCEPT !.phase = "stopping", !.stopping = TRUE]
FinishedStopping(s) ==
    [Detached(s) EXCEPT !.channel = NoChannel, !.voice = NoConn, !.phase = "idle",
                        !.stopping = FALSE, !.is247 = FALSE, !.transition = FALSE,
                        !.moveTarget = NoChannel]

\* nextQueueRevisionLocked: fetches that captured the revision cannot append.
Revised == [w \in Workers |-> [starter[w] EXCEPT !.fresh = FALSE]]
RevisedIf(changed) == IF changed THEN Revised ELSE starter

\* autoplayToken++: every fetch in flight is stale.
Outdated == [w \in Workers |-> [starter[w] EXCEPT !.latest = FALSE]]

\* The bounds of the model.  MaxKicks holds users back only: a goroutine turns
\* into at most one call of startNext.
WithinBounds ==
    /\ session'.epoch <= MaxEpoch
    /\ session'.generation <= MaxGeneration
    /\ Len(playlist'.queue) <= QueueBound

UserWithinBounds == WithinBounds /\ kicks' <= MaxKicks

-----------------------------------------------------------------------------
(* startNext and startNextWorker: the only way a track starts to play.     *)

FreeWorkers == {w \in Workers : starter[w].pc = "idle"}

StartedLoading(s) == [s EXCEPT !.starting = TRUE, !.phase = "loading"]

SpawnStarter ==
    LET w == CHOOSE v \in FreeWorkers : TRUE
    IN  /\ FreeWorkers # {}
        /\ starter' = [starter EXCEPT ![w] = [IdleWorker EXCEPT !.pc = "entry"]]

\* Mutant of StartNext: it does not heed playbackStarting.
StartNextTwice ==
    \/ /\ CanStart(session)
       /\ session' = StartedLoading(session)
       /\ SpawnStarter
    \/ ~CanStart(session) /\ UNCHANGED <<session, starter>>

\* startNext, apart from where it is called
StartNext ==
    \/ /\ CanStart(session) /\ ~session.starting
       /\ session' = StartedLoading(session)
       /\ SpawnStarter
    \/ /\ ~CanStart(session) \/ session.starting
       /\ UNCHANGED <<session, starter>>

Kick ==
    /\ kicks > 0
    /\ kicks' = kicks - 1
    /\ StartNext
    /\ UNCHANGED <<playlist, streams, prefetch, voiceVars, watchdogVars>>

\* Mutant of GiveUp: playbackStarting stays set.
GiveUpSilently(w, s) ==
    /\ session' = s
    /\ starter' = [starter EXCEPT ![w] = IdleWorker]

\* The worker gives up and lets the next startNext in.
GiveUp(w, s) ==
    /\ session' = [s EXCEPT !.starting = FALSE]
    /\ starter' = [starter EXCEPT ![w] = IdleWorker]

Proceed(w, pc) == starter' = [starter EXCEPT ![w].pc = pc]

NeedsAutoplay ==
    /\ AutoPlay
    /\ playlist.queue = << >>
    /\ playlist.current = NoTrack
    /\ playlist.loop = "off"

\* tryFetchAutoplayCandidate, first section.
StarterEnters(w) ==
    /\ starter[w].pc = "entry"
    /\ \/ ~CanStart(session) /\ GiveUp(w, session)
       \/ /\ CanStart(session) /\ ~NeedsAutoplay
          /\ Proceed(w, "select")
          /\ UNCHANGED session
       \/ /\ CanStart(session) /\ NeedsAutoplay
          /\ starter' = [Outdated EXCEPT ![w] =
                            [pc |-> "fetch", epoch |-> session.epoch, generation |-> 0,
                             fresh |-> TRUE, latest |-> TRUE]]
          /\ UNCHANGED session
    /\ UNCHANGED <<playlist, streams, kicks, prefetch, voiceVars, watchdogVars>>

\* tryFetchAutoplayCandidate, second section: the fetch found a track, failed,
\* or found none (and then, or when it is out of date, nothing is queued).
StarterFetched(w) ==
    LET stale    == \/ session.stopping
                    \/ session.epoch # starter[w].epoch
                    \/ ~starter[w].latest
        wanted   == /\ starter[w].fresh
                    /\ ~stale
                    /\ playlist.queue = << >>
                    /\ playlist.current = NoTrack
        mayGoOn  == ~stale /\ Connected(session) /\ session.playback = NoStream
    IN
    /\ starter[w].pc = "fetch"
    /\ \/ \E t \in Tracks :
            /\ wanted
            /\ playlist' = AppendedAutoplay(playlist, t)
            /\ IF mayGoOn THEN Proceed(w, "select") /\ UNCHANGED session
                          ELSE GiveUp(w, session)
       \/ /\ wanted
          /\ GiveUp(w, [session EXCEPT !.phase = "idle"])
          /\ UNCHANGED playlist
       \/ /\ IF mayGoOn THEN Proceed(w, "select") /\ UNCHANGED session
                        ELSE GiveUp(w, session)
          /\ UNCHANGED playlist
    /\ UNCHANGED <<streams, kicks, prefetch, voiceVars, watchdogVars>>

\* selectAndPrepareNextTrack
StarterSelects(w) ==
    /\ starter[w].pc = "select"
    /\ \/ /\ ~CanStart(session)
          /\ GiveUp(w, session)
          /\ UNCHANGED playlist
       \/ /\ CanStart(session) /\ playlist.queue = << >>
          /\ GiveUp(w, [session EXCEPT !.phase = "idle"])
          /\ UNCHANGED playlist
       \/ /\ CanStart(session) /\ playlist.queue # << >>
          /\ playlist' = SelectedNext(playlist)
          /\ session' = NextGeneration(session)
          /\ starter' = [Revised EXCEPT ![w] =
                            [pc |-> "start", epoch |-> session.epoch,
                             generation |-> session.generation + 1,
                             fresh |-> FALSE, latest |-> FALSE]]
    /\ UNCHANGED <<streams, kicks, prefetch, voiceVars, watchdogVars>>
    /\ WithinBounds

Attempted(w) ==
    /\ session.epoch = starter[w].epoch
    /\ session.generation = starter[w].generation
    /\ ~session.stopping

\* Engine.Start returns a handle: its stream goroutine already runs.
StreamStarts(w) ==
    /\ starter[w].pc = "start"
    /\ streams' = streams \cup {[generation |-> starter[w].generation,
                                 epoch |-> starter[w].epoch, stopped |-> FALSE]}
    /\ Proceed(w, "commit")
    /\ UNCHANGED <<session, playlist, kicks, prefetch, voiceVars, watchdogVars>>

HasNext(p) == p.queue # << >> \/ AutoPlay

\* Engine.Start returns an error, `unusable` when the source is at fault: the
\* attempt that is still current records or requeues its track.
StartFails(w, unusable) ==
    LET failures == IF unusable THEN session.failures + 1 ELSE session.failures
        tooMany  == unusable /\ failures >= FailureLimit
        retries  == unusable /\ ~tooMany /\ Connected(session) /\ HasNext(playlist')
    IN
    /\ starter[w].pc = "start"
    /\ Attempted(w)
    /\ playlist' = IF unusable THEN RecordedFailure(playlist) ELSE Requeued(playlist)
    /\ session' = [session EXCEPT !.starting = FALSE,
                                  !.failures = IF tooMany THEN 0 ELSE failures,
                                  !.phase    = IF retries THEN "loading" ELSE "idle"]
    /\ starter' = [RevisedIf(playlist.current # NoTrack) EXCEPT ![w] = IdleWorker]
    /\ kicks' = IF retries THEN kicks + 1 ELSE kicks
    /\ UNCHANGED <<streams, prefetch, voiceVars, watchdogVars>>
    /\ WithinBounds

\* The same for an attempt that something overtook.
StaleStartFails(w) ==
    LET vacant  == /\ ~session.stopping
                   /\ session.playback = NoStream
                   /\ playlist.current = NoTrack
        retries == vacant /\ Connected(session) /\ HasNext(playlist)
        parked  == vacant /\ ~retries /\ session.phase = "loading"
    IN
    /\ starter[w].pc = "start"
    /\ ~Attempted(w)
    /\ GiveUp(w, [session EXCEPT !.phase = IF retries THEN "loading"
                                           ELSE IF parked THEN "idle" ELSE @])
    /\ kicks' = IF retries THEN kicks + 1 ELSE kicks
    /\ UNCHANGED <<playlist, streams, prefetch, voiceVars, watchdogVars>>

\* commitPlaybackSession of the current attempt: the stream becomes the
\* session's playback.
StarterCommits(w) ==
    /\ starter[w].pc = "commit"
    /\ Attempted(w)
    /\ playlist.current # NoTrack
    /\ session' = [session EXCEPT !.playback = starter[w].generation,
                                  !.starting = FALSE, !.failures = 0,
                                  !.phase = "playing", !.restarting = FALSE]
    /\ stalls' = IF session.restarting THEN stalls ELSE 0
    /\ prefetch' = IF AutoPlay /\ playlist.queue = << >>
                   THEN [epoch |-> session.epoch, generation |-> session.generation]
                   ELSE prefetch
    /\ starter' = [starter EXCEPT ![w] = IdleWorker]
    /\ UNCHANGED <<playlist, streams, kicks, exhaustion, voiceVars>>

\* Mutant of StarterDiscards: nobody starts what is queued by now.
StarterDiscardsOnly(w) ==
    /\ starter[w].pc = "commit"
    /\ ~Attempted(w) \/ playlist.current = NoTrack
    /\ GiveUp(w, session)
    /\ streams' = {st \in streams : st.generation # starter[w].generation}
    /\ UNCHANGED <<playlist, kicks, prefetch, voiceVars, watchdogVars>>

\* commitPlaybackSession of an overtaken attempt: its stream is stopped, and
\* waited for before playback goes on.
StarterDiscards(w) ==
    /\ starter[w].pc = "commit"
    /\ ~Attempted(w) \/ playlist.current = NoTrack
    /\ GiveUp(w, session)
    /\ streams' = {st \in streams : st.generation # starter[w].generation}
    /\ kicks' = IF ~session.stopping /\ playlist.current = NoTrack /\ playlist.queue # << >>
                THEN kicks + 1 ELSE kicks
    /\ UNCHANGED <<playlist, prefetch, voiceVars, watchdogVars>>

-----------------------------------------------------------------------------
(* The stream's end: completePlayback.                                     *)

Held(st) == \E w \in Workers :
                starter[w].pc = "commit" /\ starter[w].generation = st.generation

Completes(st) ==
    /\ session.epoch = st.epoch
    /\ session.generation = st.generation
    /\ ~session.stopping

\* A committed stream ends at the end of its file, stopped, or on a broken
\* source; `replay` is FALSE for the last.
StreamEnds(st, replay) ==
    LET goesOn == Connected(session) /\ HasNext(playlist')
    IN
    /\ ~Held(st)
    /\ streams' = streams \ {st}
    /\ IF Completes(st)
       THEN /\ playlist' = Finished(playlist, replay)
            /\ session' = [Detached(session) EXCEPT
                             !.phase = IF goesOn THEN "loading" ELSE "idle"]
            /\ starter' = RevisedIf(playlist'.queue # playlist.queue)
            /\ kicks' = IF goesOn THEN kicks + 1 ELSE kicks
       ELSE UNCHANGED <<session, playlist, starter, kicks>>
    /\ UNCHANGED <<prefetch, voiceVars, watchdogVars>>
    /\ WithinBounds

\* A committed stream ends on a voice error: the loss is processed later, for
\* no connection in particular.
StreamLosesVoice(st) ==
    /\ ~Held(st)
    /\ streams' = streams \ {st}
    /\ losses' = IF Completes(st) THEN losses \cup {NoConn} ELSE losses
    /\ UNCHANGED <<session, playlist, dialed, open, starter, joins, teardown, kicks,
                   prefetch, watchdogVars>>

\* startAutoplayPrebuffer: the background fetch of a committed stream ends.
PrefetchEnds ==
    LET wanted == /\ ~session.stopping
                  /\ prefetch = [epoch |-> session.epoch,
                                 generation |-> session.generation]
                  /\ playlist.queue = << >>
    IN
    /\ prefetch # NoFetch
    /\ prefetch' = NoFetch
    /\ \/ /\ wanted
          /\ \E t \in Tracks : playlist' = AppendedAutoplay(playlist, t)
          /\ starter' = Revised
       \/ UNCHANGED <<playlist, starter>>
    /\ UNCHANGED <<session, streams, kicks, voiceVars, watchdogVars>>

-----------------------------------------------------------------------------
(* Connect.                                                                *)

JoinKinds == {"connect", "recovery", "move"}

JoinsOf(kind) == {j \in joins : j.kind = kind}

Join(kind, pc, channel) ==
    [kind |-> kind, pc |-> pc, epoch |-> session.epoch, channel |-> channel,
     moving |-> session.channel # channel, conn |-> NoConn]

Advance(j, pc) == joins' = (joins \ {j}) \cup {[j EXCEPT !.pc = pc]}

\* Connect to the channel the session is already connected to starts whatever
\* waits; otherwise it joins, holding voiceJoinMu.
Connect(channel) ==
    /\ "connect" \in Operations
    /\ JoinMuFree
    /\ ~session.stopping
    /\ \/ /\ session.channel = channel /\ Connected(session)
          /\ kicks' = kicks + 1
          /\ UNCHANGED <<session, joins>>
       \/ /\ session.channel # channel \/ ~Connected(session)
          /\ joins' = joins \cup {Join("connect", "joining", channel)}
          /\ session' = [session EXCEPT !.transition = TRUE]
          /\ UNCHANGED kicks
    /\ UNCHANGED <<playlist, dialed, open, streams, starter, losses, teardown,
                   prefetch, watchdogVars>>
    /\ UserWithinBounds

\* A recovery or an external move gets voiceJoinMu.
JoinBegins(j) ==
    /\ j.pc = "queued"
    /\ JoinMuFree
    /\ Advance(j, "joining")
    /\ UNCHANGED <<session, playlist, dialed, open, losses, teardown, playbackVars,
                   watchdogVars>>

\* VoicePort.Join returns an open connection, or an error.
JoinSucceeds(j) ==
    LET conn == CHOOSE c \in Conns \ dialed : TRUE
    IN  /\ j.pc = "joining"
        /\ Conns \ dialed # {}
        /\ dialed' = dialed \cup {conn}
        /\ open' = open \cup {conn}
        /\ joins' = (joins \ {j}) \cup {[j EXCEPT !.pc = "joined", !.conn = conn]}
        /\ UNCHANGED <<session, playlist, losses, teardown, playbackVars, watchdogVars>>

\* Mutant of JoinFails: the goroutine returns on the error.
JoinFailureDropped(j) ==
    /\ j.pc = "joining"
    /\ joins' = joins \ {j}
    /\ UNCHANGED <<session, playlist, dialed, open, losses, teardown, playbackVars,
                   watchdogVars>>

JoinFails(j) ==
    /\ j.pc = "joining"
    /\ Advance(j, "joined")
    /\ UNCHANGED <<session, playlist, dialed, open, losses, teardown, playbackVars,
                   watchdogVars>>

Overtaken(j) == session.stopping \/ session.epoch # j.epoch

\* Mutant of ConnectFails: the stale connection is not closed.
ConnectLeaks(j) ==
    /\ j.kind = "connect" /\ j.pc = "joined"
    /\ j.conn = NoConn \/ Overtaken(j)
    /\ joins' = (joins \ {j}) \cup {[j EXCEPT !.pc = "ending", !.conn = NoConn]}
    /\ UNCHANGED <<session, playlist, dialed, open, losses, teardown, playbackVars,
                   watchdogVars>>

\* Connect's second section when the join failed or the session moved on.
ConnectFails(j) ==
    /\ j.kind = "connect" /\ j.pc = "joined"
    /\ j.conn = NoConn \/ Overtaken(j)
    /\ CloseAll({j.conn})
    /\ joins' = (joins \ {j}) \cup {[j EXCEPT !.pc = "ending", !.conn = NoConn]}
    /\ UNCHANGED <<session, playlist, dialed, losses, teardown, playbackVars,
                   watchdogVars>>

\* Connect's second section: the session takes the connection over and plays
\* its current track again from the head of the queue.  SuppressAutoplay keeps
\* it from starting an empty queue.  Two interleavings the code does not exclude
\* are admitted by name only: Connect taking over while a voice loss is about to
\* stop the session, and while an external move is in flight.
ConnectCommits(j, suppress) ==
    LET s == IF j.moving THEN NextGeneration(NextEpoch(session)) ELSE session
    IN
    /\ j.kind = "connect" /\ j.pc = "joined"
    /\ j.conn # NoConn /\ ~Overtaken(j)
    /\ teardown # 0 => "slowTeardown" \in Operations
    /\ session.moveTarget # NoChannel => "connectDuringMove" \in Operations
    /\ session' = [Detached(s) EXCEPT !.voice = j.conn, !.phase = "idle",
                                      !.channel = j.channel]
    /\ playlist' = Requeued(playlist)
    /\ starter' = RevisedIf(playlist.current # NoTrack)
    /\ streams' = StopStream(session.playback)
    /\ CloseAll({session.voice})
    /\ joins' = (joins \ {j}) \cup
                  {[j EXCEPT !.conn = NoConn,
                             !.pc = IF suppress /\ playlist'.queue = << >>
                                    THEN "ending" ELSE "starting"]}
    /\ UNCHANGED <<dialed, losses, teardown, kicks, prefetch, watchdogVars>>
    /\ WithinBounds

\* The startNext of a join that took over; a move has nothing left to do.
JoinStarts(j) ==
    /\ j.pc = "starting"
    /\ IF j.kind = "move" THEN joins' = joins \ {j} ELSE Advance(j, "ending")
    /\ StartNext
    /\ UNCHANGED <<playlist, dialed, open, streams, losses, teardown, kicks,
                   prefetch, watchdogVars>>

\* The deferred end of Connect and of a recovery.
JoinEnds(j) ==
    /\ j.pc = "ending"
    /\ joins' = joins \ {j}
    /\ session' = [session EXCEPT !.transition = FALSE]
    /\ UNCHANGED <<playlist, dialed, open, losses, teardown, playbackVars,
                   watchdogVars>>

-----------------------------------------------------------------------------
(* Enqueue and Control.                                                    *)

Enqueue(request, placement) ==
    LET starts == CanStart(session) /\ ~session.starting
    IN
    /\ "enqueue" \in Operations
    /\ EffectsFree
    /\ ~session.stopping
    /\ HasRoomFor(playlist, request)
    /\ playlist' = Enqueued(playlist, request, placement)
    /\ session' = [session EXCEPT !.phase = IF @ = "idle" THEN "loading" ELSE @]
    /\ starter' = Revised
    /\ kicks' = IF starts THEN kicks + 1 ELSE kicks
    /\ UNCHANGED <<streams, prefetch, voiceVars, watchdogVars>>
    /\ UserWithinBounds

Controls(operation) == operation \in Operations /\ EffectsFree /\ ~session.stopping

Pause ==
    /\ Controls("pause")
    /\ playlist.current # NoTrack /\ session.phase = "playing"
    /\ session' = [session EXCEPT !.phase = "paused"]
    /\ UNCHANGED <<playlist, voiceVars, playbackVars, watchdogVars>>

Resume ==
    /\ Controls("pause")
    /\ playlist.current # NoTrack /\ session.phase = "paused"
    /\ session' = [session EXCEPT !.phase = "playing"]
    /\ UNCHANGED <<playlist, voiceVars, playbackVars, watchdogVars>>

\* Mutant of Restart: the stream stays the session's playback.
RestartAttached(p) ==
    /\ playlist' = p
    /\ session' = [NextGeneration(session) EXCEPT !.phase = "loading"]
    /\ streams' = StopStream(session.playback)
    /\ starter' = Revised
    /\ kicks' = kicks + 1
    /\ UNCHANGED <<prefetch, voiceVars, watchdogVars>>
    /\ UserWithinBounds

\* What skip and previous share.
Restart(p) ==
    /\ playlist' = p
    /\ session' = [NextGeneration(Detached(session)) EXCEPT !.phase = "loading"]
    /\ streams' = StopStream(session.playback)
    /\ starter' = Revised
    /\ kicks' = kicks + 1
    /\ UNCHANGED <<prefetch, voiceVars, watchdogVars>>
    /\ UserWithinBounds

Skip ==
    /\ Controls("skip")
    /\ playlist.current # NoTrack \/ playlist.queue # << >> \/ session.starting
    /\ Restart(Skipped(playlist))

Previous ==
    /\ Controls("previous")
    /\ HasPrevious(playlist)
    /\ Restart(SelectedPrevious(playlist))

Edit(playlists) ==
    /\ playlist' \in playlists
    /\ starter' = Revised
    /\ UNCHANGED <<session, streams, kicks, prefetch, voiceVars, watchdogVars>>

Loop    == Controls("loop") /\ Edit({LoopSet(playlist, NextLoop(playlist.loop))})
SetLoop == Controls("loop") /\ Edit({LoopSet(playlist, m) : m \in LoopModes \ {playlist.loop}})
Shuffle == Controls("shuffle") /\ Edit(Shuffled(playlist))
Clear   == Controls("clear") /\ Edit({Cleared(playlist)})

\* Everything the session has is dropped at once: leave, a channel that is
\* deleted, a channel that stays empty.
StopAll ==
    /\ session' = FinishedStopping(BegunStopping(session))
    /\ playlist' = Emptied(playlist)
    /\ streams' = StopStream(session.playback)
    /\ CloseAll({session.voice})
    /\ WithinBounds

Stop ==
    /\ Controls("stop")
    /\ StopAll
    /\ UNCHANGED <<dialed, starter, joins, losses, teardown, kicks, prefetch,
                   watchdogVars>>

\* UpdateSettings with Is247Set; a loss about to stop the session does not heed
\* it any more (admitted by name only).
Toggle247 ==
    /\ "toggle247" \in Operations
    /\ teardown # 0 => "slowTeardown" \in Operations
    /\ session' = [session EXCEPT !.is247 = ~@]
    /\ UNCHANGED <<playlist, voiceVars, playbackVars, watchdogVars>>

-----------------------------------------------------------------------------
(* Voice events: HandleVoiceState, HandleChannelDeleted, inactivity.       *)

Arrives(event) == event \in Operations /\ EffectsFree

\* Discord moved the bot out of the session's channel: the session follows.
BotMoved(channel) ==
    LET s == NextGeneration(NextEpoch(session))
    IN
    /\ Arrives("botMoved")
    /\ ~session.transition
    /\ session.voice # NoConn
    /\ session.channel \notin {NoChannel, channel}
    /\ session.moveTarget = NoChannel
    /\ session' = [Detached(s) EXCEPT !.moveTarget = channel, !.transition = TRUE,
                                      !.voice = NoConn, !.channel = channel,
                                      !.phase = "connecting"]
    /\ joins' = joins \cup {[kind |-> "move", pc |-> "queued", epoch |-> s.epoch,
                             channel |-> channel, moving |-> TRUE, conn |-> NoConn]}
    /\ playlist' = Requeued(playlist)
    /\ starter' = RevisedIf(playlist.current # NoTrack)
    /\ streams' = StopStream(session.playback)
    /\ CloseAll({session.voice})
    /\ UNCHANGED <<dialed, losses, teardown, kicks, prefetch, watchdogVars>>
    /\ WithinBounds

Displaced(channel) ==
    /\ ~session.transition
    /\ session.voice = NoConn \/ session.channel \in {NoChannel, channel}
    /\ session.channel # channel

\* Discord placed the bot elsewhere while the session has no connection.
BotSeen(channel) ==
    /\ Arrives("botMoved")
    /\ Displaced(channel) /\ session.phase # "recovering"
    /\ session' = [session EXCEPT !.channel = channel]
    /\ UNCHANGED <<playlist, voiceVars, playbackVars, watchdogVars>>

\* The same during a recovery, which is given up, and with it the claim of the
\* worker that may be starting a track.
BotSeenRecovering(channel) ==
    /\ Arrives("botMovedRecovering")
    /\ Displaced(channel) /\ session.phase = "recovering"
    /\ session' = [NextEpoch(session) EXCEPT !.channel = channel, !.phase = "idle",
                                             !.starting = FALSE]
    /\ starter' = Outdated
    /\ UNCHANGED <<playlist, streams, kicks, prefetch, voiceVars, watchdogVars>>
    /\ WithinBounds

\* Discord disconnected the bot.
BotDisconnected ==
    /\ Arrives("botDisconnected")
    /\ ~session.stopping /\ ~session.transition
    /\ session.phase \notin {"recovering", "stopping"}
    /\ session.voice # NoConn /\ session.channel # NoChannel
    /\ losses' = losses \cup {NoConn}
    /\ UNCHANGED <<session, playlist, dialed, open, joins, teardown, playbackVars,
                   watchdogVars>>

ChannelDeleted ==
    /\ Arrives("channelDeleted")
    /\ session.channel # NoChannel
    /\ StopAll
    /\ UNCHANGED <<dialed, starter, joins, losses, teardown, kicks, prefetch,
                   watchdogVars>>

\* handleInactivityTimeout, its timer bound to the current epoch
InactivityTimeout ==
    /\ Arrives("inactive")
    /\ ~session.stopping /\ ~session.is247
    /\ StopAll
    /\ UNCHANGED <<dialed, starter, joins, losses, teardown, kicks, prefetch,
                   watchdogVars>>

\* The worker of an external move after its join.
MoveEnds(j) ==
    LET valid == ~Overtaken(j) /\ session.moveTarget = j.channel
        moved == [session EXCEPT !.moveTarget = NoChannel, !.transition = FALSE]
    IN
    /\ j.kind = "move" /\ j.pc = "joined"
    /\ \/ /\ ~valid
          /\ CloseAll({j.conn})
          /\ joins' = joins \ {j}
          /\ UNCHANGED session
       \/ /\ valid /\ j.conn = NoConn
          /\ session' = [moved EXCEPT !.channel = NoChannel, !.phase = "idle"]
          /\ joins' = joins \ {j}
          /\ UNCHANGED open
       \/ /\ valid /\ j.conn # NoConn
          /\ session' = [moved EXCEPT !.voice = j.conn, !.phase = "loading"]
          /\ joins' = (joins \ {j}) \cup {[j EXCEPT !.pc = "starting", !.conn = NoConn]}
          /\ UNCHANGED open
    /\ UNCHANGED <<playlist, dialed, losses, teardown, playbackVars, watchdogVars>>

-----------------------------------------------------------------------------
(* Voice loss: processVoiceLoss and the recovery it starts.                *)

\* An open connection fails: triggerVoiceLoss closes it and reports it.  When
\* its joiner has not handed it over yet, the report is ignored and the session
\* adopts a closed connection: admitted by name only.
ConnectionLost(conn) ==
    /\ "connectionLost" \in Operations
    /\ conn # session.voice => "lostBeforeAdoption" \in Operations
    /\ conn \in open
    /\ open' = open \ {conn}
    /\ losses' = losses \cup {conn}
    /\ UNCHANGED <<session, playlist, dialed, joins, teardown, playbackVars,
                   watchdogVars>>

Irrelevant(conn) ==
    \/ session.stopping
    \/ session.phase = "recovering"
    \/ conn # NoConn /\ session.voice # conn

RecoveryTarget == IF session.channel = NoChannel THEN AutojoinChannel ELSE session.channel

\* Mutant of Recovers: 24/7 mode does not count.
RecoversToPlay(p) == p.queue # << >> /\ RecoveryTarget # NoChannel

\* Whether a lost connection is worth another, for what is left to play.
Recovers(p) ==
    /\ p.queue # << >> \/ session.is247
    /\ RecoveryTarget # NoChannel

LossIgnored(conn) ==
    /\ EffectsFree
    /\ Irrelevant(conn)
    /\ losses' = losses \ {conn}
    /\ UNCHANGED <<session, playlist, dialed, open, joins, teardown, playbackVars,
                   watchdogVars>>

\* First section: the session lets go of the connection; it recovers if there
\* is work to do, and otherwise is about to stop.
LossBegins(conn) ==
    LET s == NextEpoch(session)
    IN
    /\ EffectsFree
    /\ ~Irrelevant(conn)
    /\ losses' = losses \ {conn}
    /\ session' = [Detached(s) EXCEPT !.phase = "recovering", !.voice = NoConn]
    /\ playlist' = Requeued(playlist)
    /\ starter' = RevisedIf(playlist.current # NoTrack)
    /\ streams' = StopStream(session.playback)
    /\ CloseAll({session.voice})
    /\ IF Recovers(playlist')
       THEN /\ joins' = joins \cup
                 {[kind |-> "recovery", pc |-> "waiting", epoch |-> s.epoch,
                   channel |-> RecoveryTarget, moving |-> FALSE, conn |-> NoConn]}
            /\ UNCHANGED teardown
       ELSE /\ teardown' = s.epoch
            /\ UNCHANGED joins
    /\ UNCHANGED <<dialed, kicks, prefetch, watchdogVars>>
    /\ WithinBounds

\* Second section of a loss with nothing to recover for.
LossTearsDown ==
    /\ teardown # 0
    /\ teardown' = 0
    /\ IF session.epoch = teardown /\ ~session.stopping
       THEN /\ session' = FinishedStopping(BegunStopping(session))
            /\ playlist' = Emptied(playlist)
       ELSE UNCHANGED <<session, playlist>>
    /\ UNCHANGED <<dialed, open, joins, losses, playbackVars, watchdogVars>>
    /\ WithinBounds

GivesUpRecovery(j) == Overtaken(j) \/ session.phase # "recovering"

\* The two seconds of a recovery are over.
RecoveryWaited(j) ==
    /\ j.pc = "waiting"
    /\ IF GivesUpRecovery(j)
       THEN joins' = joins \ {j} /\ UNCHANGED session
       ELSE /\ Advance(j, "queued")
            /\ session' = [session EXCEPT !.transition = TRUE]
    /\ UNCHANGED <<playlist, dialed, open, losses, teardown, playbackVars,
                   watchdogVars>>

\* The recovery after its join: one failed join stops the session.
RecoveryEnds(j) ==
    /\ j.kind = "recovery" /\ j.pc = "joined"
    /\ joins' = (joins \ {j}) \cup
                  {[j EXCEPT !.conn = NoConn,
                             !.pc = IF GivesUpRecovery(j) \/ j.conn = NoConn
                                    THEN "ending" ELSE "starting"]}
    /\ \/ /\ GivesUpRecovery(j)
          /\ CloseAll({j.conn})
          /\ UNCHANGED <<session, playlist>>
       \/ /\ ~GivesUpRecovery(j) /\ j.conn = NoConn
          /\ session' = FinishedStopping(BegunStopping(session))
          /\ playlist' = Emptied(playlist)
          /\ UNCHANGED open
       \/ /\ ~GivesUpRecovery(j) /\ j.conn # NoConn
          /\ session' = [session EXCEPT !.voice = j.conn, !.channel = j.channel,
                                        !.phase = "loading"]
          /\ UNCHANGED <<playlist, open>>
    /\ UNCHANGED <<dialed, losses, teardown, playbackVars, watchdogVars>>
    /\ WithinBounds

-----------------------------------------------------------------------------
(* The watchdog: handleWatchdogStall and handleWatchdogExhaustionCleanup.  *)

Stalled(st) == "stall" \in Operations /\ ~Held(st) /\ Completes(st)

StallRestarts(st) ==
    /\ Stalled(st)
    /\ stalls < MaxRecoveryAttempts
    /\ stalls' = stalls + 1
    /\ session' = [NextGeneration(Detached(session)) EXCEPT
                     !.restarting = TRUE, !.phase = "loading"]
    /\ playlist' = Requeued(playlist)
    /\ starter' = RevisedIf(playlist.current # NoTrack)
    /\ streams' = StopStream(session.playback)
    /\ kicks' = kicks + 1
    /\ UNCHANGED <<exhaustion, prefetch, voiceVars>>
    /\ WithinBounds

\* Mutant of StallExhausts: the timer is bound to the epoch before the stop.
StallExhaustsEarly(st) ==
    /\ Stalled(st)
    /\ stalls >= MaxRecoveryAttempts
    /\ stalls' = stalls + 1
    /\ session' = [Detached(BegunStopping(session)) EXCEPT !.voice = NoConn]
    /\ exhaustion' = session.epoch
    /\ streams' = StopStream(session.playback)
    /\ CloseAll({session.voice})
    /\ UNCHANGED <<playlist, dialed, starter, joins, losses, teardown, kicks, prefetch>>
    /\ WithinBounds

\* Attempts are exhausted: the session stops, but keeps its playlist until the
\* exhaustion timer fires.
StallExhausts(st) ==
    /\ Stalled(st)
    /\ stalls >= MaxRecoveryAttempts
    /\ stalls' = stalls + 1
    /\ session' = [Detached(BegunStopping(session)) EXCEPT !.voice = NoConn]
    /\ exhaustion' = session.epoch + 1
    /\ streams' = StopStream(session.playback)
    /\ CloseAll({session.voice})
    /\ UNCHANGED <<playlist, dialed, starter, joins, losses, teardown, kicks, prefetch>>
    /\ WithinBounds

ExhaustionCleanup ==
    /\ exhaustion # 0
    /\ JoinMuFree /\ EffectsFree
    /\ exhaustion' = 0
    /\ IF session.epoch = exhaustion
       THEN /\ session' = FinishedStopping(session)
            /\ playlist' = Emptied(playlist)
       ELSE UNCHANGED <<session, playlist>>
    /\ UNCHANGED <<stalls, voiceVars, playbackVars>>

-----------------------------------------------------------------------------
StarterStep(w) ==
    \/ StarterEnters(w)
    \/ StarterFetched(w)
    \/ StarterSelects(w)
    \/ StreamStarts(w)
    \/ \E unusable \in BOOLEAN : StartFails(w, unusable)
    \/ StaleStartFails(w)
    \/ StarterCommits(w)
    \/ StarterDiscards(w)

StreamStep ==
    \/ \E st \in streams, replay \in BOOLEAN : StreamEnds(st, replay)
    \/ \E st \in streams : StreamLosesVoice(st)
    \/ \E st \in streams : StallRestarts(st)
    \/ \E st \in streams : StallExhausts(st)

\* The joins of one kind.
JoinStep(kind) ==
    \/ \E j \in JoinsOf(kind) : JoinBegins(j)
    \/ \E j \in JoinsOf(kind) : JoinSucceeds(j)
    \/ \E j \in JoinsOf(kind) : JoinFails(j)
    \/ \E j \in JoinsOf(kind) : JoinStarts(j)
    \/ \E j \in JoinsOf(kind) : JoinEnds(j)

ConnectStep ==
    \/ \E j \in joins : ConnectFails(j)
    \/ \E j \in joins, suppress \in BOOLEAN : ConnectCommits(j, suppress)

RecoveryStep ==
    \/ \E j \in joins : RecoveryWaited(j)
    \/ \E j \in joins : RecoveryEnds(j)

MoveStep == \E j \in joins : MoveEnds(j)

LossStep ==
    \/ \E conn \in losses : LossIgnored(conn)
    \/ \E conn \in losses : LossBegins(conn)

UserStep ==
    \/ \E channel \in Channels : Connect(channel)
    \/ \E request \in Requests, placement \in Placements : Enqueue(request, placement)
    \/ Pause \/ Resume \/ Skip \/ Previous \/ Loop \/ SetLoop \/ Shuffle \/ Clear \/ Stop
    \/ Toggle247

DiscordStep ==
    \/ \E channel \in Channels :
          BotMoved(channel) \/ BotSeen(channel) \/ BotSeenRecovering(channel)
    \/ BotDisconnected
    \/ ChannelDeleted
    \/ InactivityTimeout
    \/ \E conn \in Conns : ConnectionLost(conn)

Next ==
    \/ UserStep
    \/ DiscordStep
    \/ Kick
    \/ \E w \in Workers : StarterStep(w)
    \/ StreamStep
    \/ PrefetchEnds
    \/ \E kind \in JoinKinds : JoinStep(kind)
    \/ ConnectStep
    \/ RecoveryStep
    \/ MoveStep
    \/ LossStep
    \/ LossTearsDown
    \/ ExhaustionCleanup

Spec == Init /\ [][Next]_vars

\* Goroutines go on, timers fire, a join ends (it has a timeout); users, Discord
\* and the end of a track are not relied upon.  Who waits for voiceJoinMu gets it
\* however often others take it: sync.Mutex hands over to a starving waiter.
Fairness ==
    /\ WF_vars(Kick)
    /\ \A w \in Workers : WF_vars(StarterStep(w))
    /\ \A kind \in JoinKinds :
          /\ WF_vars(JoinStep(kind))
          /\ SF_vars(\E j \in JoinsOf(kind) : JoinBegins(j))
    /\ WF_vars(ConnectStep)
    /\ WF_vars(RecoveryStep)
    /\ WF_vars(MoveStep)
    /\ WF_vars(LossStep)
    /\ WF_vars(LossTearsDown)
    /\ SF_vars(ExhaustionCleanup)

FairSpec == Spec /\ Fairness

-----------------------------------------------------------------------------
Sessions ==
    [phase: Phases, channel: Channels \cup {NoChannel}, voice: Conns \cup {NoConn},
     playback: Nat, starting: BOOLEAN, epoch: Nat, generation: Nat, is247: BOOLEAN,
     transition: BOOLEAN, moveTarget: Channels \cup {NoChannel}, stopping: BOOLEAN,
     restarting: BOOLEAN, failures: Nat]

WorkerStates ==
    [pc: {"idle", "entry", "fetch", "select", "start", "commit"},
     epoch: Nat, generation: Nat, fresh: BOOLEAN, latest: BOOLEAN]

JoinStates ==
    [kind: JoinKinds,
     pc: {"waiting", "queued", "joining", "joined", "starting", "ending"},
     epoch: Nat, channel: Channels, moving: BOOLEAN, conn: Conns \cup {NoConn}]

StreamStates == [generation: Nat, epoch: Nat, stopped: BOOLEAN]

TypeOK ==
    /\ session \in Sessions
    /\ playlist \in Playlists
    /\ open \subseteq dialed /\ dialed \subseteq Conns
    /\ streams \subseteq StreamStates
    /\ starter \in [Workers -> WorkerStates]
    /\ joins \subseteq JoinStates
    /\ losses \subseteq Conns \cup {NoConn}
    /\ {teardown, kicks, stalls, exhaustion} \subseteq Nat
    /\ prefetch \in [epoch: Nat, generation: Nat]

Busy(w)       == starter[w].pc # "idle"
Attempting(w) == starter[w].pc \in {"start", "commit"} /\ Attempted(w)

\* playbackStarting is a mutex without a token: it is set exactly while one
\* worker is between startNext and the end of its attempt.
OneStarter ==
    /\ \A v, w \in Workers : Busy(v) /\ Busy(w) => v = w
    /\ session.starting <=> \E w \in Workers : Busy(w)

\* The stream the session calls its playback belongs to its current generation
\* and to its current track, and no other track is being started.
PlaybackIsCurrent ==
    session.playback # NoStream =>
        /\ session.playback = session.generation
        /\ playlist.current # NoTrack
        /\ session.phase \in {"playing", "paused"}
        /\ ~session.starting

\* Whatever detaches a stream stops it: no stream plays that the session, or
\* the worker about to hand it over, does not hold.
NoOrphanStream ==
    \A st \in streams : st.stopped \/ Held(st) \/ session.playback = st.generation

\* A current track plays, or is being started by the attempt that is current,
\* or waits for a stopping session to be emptied: it is never forgotten.
CurrentHasOwner ==
    playlist.current # NoTrack =>
        \/ session.playback # NoStream
        \/ session.stopping
        \/ \E w \in Workers : Attempting(w)

\* Every open voice connection is the session's, or held by a goroutine that
\* will hand it over or close it.
NoOrphanConnection == open \subseteq {session.voice} \cup {j.conn : j \in joins}

\* Nothing that makes a sound or holds a socket is left without somebody to stop it.
NoOrphans == NoOrphanStream /\ NoOrphanConnection

\* The session runs its playlist as RadioPlaylist promises; in particular no
\* track replaces another that is current.
Playlist == INSTANCE RadioPlaylist
ImplementsPlaylist == Playlist!Spec

\* A connected session with tracks to play that shows "loading" has a goroutine
\* that will start one.
Served ==
    session.phase = "loading" /\ CanStart(session) /\ playlist.queue # << >> =>
        session.starting \/ kicks > 0 \/ \E j \in joins : j.pc = "starting"

\* A worker comes back from its fetch for autoplay in another epoch than it left.
ReturnsTooLate ==
    \E w \in Workers : starter[w].epoch # session.epoch /\ StarterFetched(w)

\* No wake-up is lost between workers that give up, or whose track fails, and the
\* startNext calls they turned away: a queue that is served stays served.  One step
\* is excepted: a worker whose fetch for autoplay a loss, a move or a Connect has
\* overtaken gives up, and the startNext of whoever reconnected found it starting.
QueueIsServed == Served /\ [][Served => Served' \/ ReturnsTooLate]_vars

\* Whether a bound of the model has stopped the session's own goroutines.
AtBound == session.epoch = MaxEpoch \/ session.generation = MaxGeneration

\* Every start of a track ends and lets the next one in.
StartEnds == session.starting ~> ~session.starting \/ AtBound

\* A stopping session is emptied and accepts commands again.
StoppingEnds == session.stopping ~> ~session.stopping

\* A session that lost its voice connection gets another or ends.
LossIsResolved ==
    session.phase = "recovering" ~> Connected(session) \/ session.phase = "idle" \/ AtBound

\* Nothing the session has begun stays half done.
NothingHangs == StartEnds /\ StoppingEnds /\ LossIsResolved

\* A goroutine will bring the session back to the channel it is in by name.
Rejoins(j) ==
    /\ ~Overtaken(j)
    /\ j.channel = session.channel
    /\ \/ /\ j.kind = "recovery" /\ session.phase = "recovering"
          /\ j.pc \in {"waiting", "queued", "joining", "joined"}
       \/ /\ j.kind = "move" /\ session.moveTarget = j.channel
          /\ j.pc \in {"queued", "joining", "joined"}

\* In 24/7 mode, and in a channel or on the way back to it.
Resides ==
    /\ session.is247
    /\ session.channel # NoChannel
    /\ session.voice # NoConn \/ \E j \in joins : Rejoins(j)

SentAway == Toggle247 \/ Stop \/ ChannelDeleted

\* A user connects the session, or moves the bot, elsewhere.
TakenAlong == ConnectStep \/ \E channel \in Channels : BotMoved(channel)

\* The one attempt to rejoin fails; the session leaves the phase that the recovery
\* looks for, or (once the end of a Connect has cleared `transition`) the channel
\* that the move joins; the watchdog, or a loss decided before, stops it.
GivenUp ==
    \/ \E j \in joins : j.conn = NoConn /\ (RecoveryEnds(j) \/ MoveEnds(j))
    \/ /\ session.phase = "recovering"
       /\ Skip \/ Previous \/ \E channel \in Channels : BotSeenRecovering(channel)
    \/ session.moveTarget # NoChannel /\ \E channel \in Channels : BotSeen(channel)
    \/ \E st \in streams : StallExhausts(st)
    \/ LossTearsDown

\* A session that resides in its channel in 24/7 mode keeps the mode, the channel,
\* and a connection or a goroutine that joins again, until it is sent away or given
\* up: no other loss, timer, event or overtaken goroutine ends it, and only a user
\* takes it to another channel.
StaysUnlessRejoinFails ==
    [][Resides => \/ Resides' /\ (session'.channel = session.channel \/ TakenAlong)
                  \/ SentAway \/ GivenUp]_vars
=============================================================================
