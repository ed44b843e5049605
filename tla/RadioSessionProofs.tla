-------------------------- MODULE RadioSessionProofs --------------------------
(***************************************************************************)
(* Proofs about RadioSession, for any tracks, channels, connections,       *)
(* workers, limits and bounds: one track is started at a time, a current   *)
(* track is never forgotten, and the session implements RadioPlaylist;     *)
(* then its streams and connections, its queue, and its stay in a channel. *)
(***************************************************************************)
EXTENDS RadioSession, FiniteSetTheorems, TLAPS

-----------------------------------------------------------------------------
(* What the operations of the playlist do to its current track.            *)

\* A playlist as far as the proofs look into it.
Shaped(p) ==
    /\ DOMAIN p = {"queue", "history", "current", "loop"}
    /\ p.loop \in LoopModes

LEMMA EmptyShaped == Shaped(EmptyPlaylist) /\ EmptyPlaylist.current = NoTrack
BY DEF Shaped, EmptyPlaylist, LoopModes

LEMMA EnqueuedShaped ==
    ASSUME NEW p, Shaped(p), NEW r, NEW placement
    PROVE  Shaped(Enqueued(p, r, placement)) /\ Enqueued(p, r, placement).current = p.current
BY DEF Shaped, Enqueued

LEMMA AppendedShaped ==
    ASSUME NEW p, Shaped(p), NEW t
    PROVE  Shaped(AppendedAutoplay(p, t)) /\ AppendedAutoplay(p, t).current = p.current
BY DEF Shaped, AppendedAutoplay

LEMMA ClearedShaped ==
    ASSUME NEW p, Shaped(p) PROVE Shaped(Cleared(p)) /\ Cleared(p).current = p.current
BY DEF Shaped, Cleared

LEMMA ShuffledShaped ==
    ASSUME NEW p, Shaped(p), NEW q \in Shuffled(p) PROVE Shaped(q) /\ q.current = p.current
BY DEF Shaped, Shuffled

LEMMA RequeuedShaped ==
    ASSUME NEW p, Shaped(p) PROVE Shaped(Requeued(p)) /\ Requeued(p).current = NoTrack
BY DEF Shaped, Requeued

LEMMA SelectedNextShaped ==
    ASSUME NEW p, Shaped(p) PROVE Shaped(SelectedNext(p))
BY DEF Shaped, SelectedNext

LEMMA FinishedShaped ==
    ASSUME NEW p, Shaped(p), NEW replay \in BOOLEAN
    PROVE  Shaped(Finished(p, replay)) /\ Finished(p, replay).current = NoTrack
BY RequeuedShaped DEF Shaped, Finished

LEMMA SkippedShaped ==
    ASSUME NEW p, Shaped(p) PROVE Shaped(Skipped(p)) /\ Skipped(p).current = NoTrack
BY DEF Shaped, Skipped, UnloopTrack, LoopModes

LEMMA SelectedPreviousShaped ==
    ASSUME NEW p, Shaped(p)
    PROVE  Shaped(SelectedPrevious(p)) /\ SelectedPrevious(p).current = NoTrack
BY DEF Shaped, SelectedPrevious, UnloopTrack, LoopModes

LEMMA RecordedFailureShaped ==
    ASSUME NEW p, Shaped(p)
    PROVE  Shaped(RecordedFailure(p)) /\ RecordedFailure(p).current = NoTrack
BY DEF Shaped, RecordedFailure

LEMMA LoopSetShaped ==
    ASSUME NEW p, Shaped(p), NEW mode \in LoopModes
    PROVE  Shaped(LoopSet(p, mode)) /\ LoopSet(p, mode).current = p.current
BY DEF Shaped, LoopSet

LEMMA NextLoopIsMode ==
    ASSUME NEW mode \in LoopModes PROVE NextLoop(mode) \in LoopModes
BY DEF NextLoop, LoopModes

LEMMA EmptiedShaped ==
    ASSUME NEW p, Shaped(p) PROVE Shaped(Emptied(p)) /\ Emptied(p).current = NoTrack
BY DEF Shaped, Emptied
-----------------------------------------------------------------------------
(* What the helpers do to the session and the workers.                     *)

LEMMA DetachedIsSession ==
    ASSUME NEW s \in Sessions
    PROVE  /\ Detached(s) \in Sessions /\ Detached(s).starting = s.starting
           /\ Detached(s).stopping = s.stopping
BY DEF Detached, NoStream, Sessions

LEMMA NextGenerationIsSession ==
    ASSUME NEW s \in Sessions
    PROVE  /\ NextGeneration(s) \in Sessions /\ NextGeneration(s).starting = s.starting
           /\ NextGeneration(s).generation = s.generation + 1
           /\ NextGeneration(s).epoch = s.epoch /\ NextGeneration(s).playback = s.playback
           /\ NextGeneration(s).stopping = s.stopping
BY DEF NextGeneration, Sessions

LEMMA NextEpochIsSession ==
    ASSUME NEW s \in Sessions
    PROVE  NextEpoch(s) \in Sessions /\ NextEpoch(s).starting = s.starting
BY DEF NextEpoch, Sessions

LEMMA BegunIsSession ==
    ASSUME NEW s \in Sessions
    PROVE  /\ BegunStopping(s) \in Sessions /\ BegunStopping(s).starting = s.starting
           /\ BegunStopping(s).stopping
<1> DEFINE t == NextGeneration(NextEpoch(s))
<1>1. t \in Sessions /\ t.starting = s.starting
  BY NextEpochIsSession, NextGenerationIsSession
<1>2. BegunStopping(s) = [t EXCEPT !.phase = "stopping", !.stopping = TRUE]
  BY DEF BegunStopping
<1> HIDE DEF t
<1> QED
  BY <1>1, <1>2 DEF Sessions, Phases

LEMMA FinishedIsSession ==
    ASSUME NEW s \in Sessions
    PROVE  FinishedStopping(s) \in Sessions /\ FinishedStopping(s).starting = s.starting
<1> DEFINE t == Detached(s)
<1>1. t \in Sessions /\ t.starting = s.starting
  BY DetachedIsSession
<1> HIDE DEF t
<1> DEFINE u == [t EXCEPT !.channel = NoChannel, !.voice = NoConn, !.phase = "idle"]
<1>2. u \in Sessions /\ u.starting = s.starting
  BY <1>1 DEF Sessions, Phases
<1>3. FinishedStopping(s) =
        [u EXCEPT !.stopping = FALSE, !.is247 = FALSE, !.transition = FALSE,
                  !.moveTarget = NoChannel]
  BY DEF FinishedStopping, t
<1> HIDE DEF u
<1> QED
  BY <1>2, <1>3 DEF Sessions

SameWorkers(a, b) ==
    \A w \in Workers :
        /\ a[w].pc = b[w].pc
        /\ a[w].epoch = b[w].epoch
        /\ a[w].generation = b[w].generation

LEMMA RevisedWorkers ==
    ASSUME starter \in [Workers -> WorkerStates]
    PROVE  /\ Revised \in [Workers -> WorkerStates] /\ SameWorkers(Revised, starter)
           /\ \A changed \in BOOLEAN :
                  /\ RevisedIf(changed) \in [Workers -> WorkerStates]
                  /\ SameWorkers(RevisedIf(changed), starter)
BY DEF Revised, RevisedIf, SameWorkers, WorkerStates

LEMMA OutdatedWorkers ==
    ASSUME starter \in [Workers -> WorkerStates]
    PROVE  Outdated \in [Workers -> WorkerStates] /\ SameWorkers(Outdated, starter)
BY DEF Outdated, SameWorkers, WorkerStates

-----------------------------------------------------------------------------
(* The inductive invariant.                                                *)

CoreTypes ==
    /\ session \in Sessions
    /\ Shaped(playlist)
    /\ starter \in [Workers -> WorkerStates]
    /\ joins \subseteq JoinStates

Waiting(w)  == starter[w].pc \in {"entry", "fetch", "select"}
Starting(w) == starter[w].pc \in {"start", "commit"}

\* Between startNext and its selection, a worker finds no current track.
NothingCurrentYet == \A w \in Workers : Waiting(w) => playlist.current = NoTrack

\* An attempt has a generation that no stream handle confuses with none.
AttemptsAreNumbered == \A w \in Workers : Starting(w) => starter[w].generation # NoStream

Inv ==
    /\ CoreTypes
    /\ OneStarter
    /\ NothingCurrentYet
    /\ AttemptsAreNumbered
    /\ CurrentHasOwner

LEMMA InitInv == Init => Inv
<1> SUFFICES ASSUME Init PROVE Inv
  OBVIOUS
<1>1. IdleWorker \in WorkerStates /\ IdleWorker.pc = "idle"
  BY DEF IdleWorker, WorkerStates
<1>2. session \in Sessions /\ session.starting = FALSE
  BY DEF Init, Sessions, Phases, NoStream
<1>3. CoreTypes /\ playlist.current = NoTrack
  BY <1>1, <1>2, EmptyShaped DEF Init, CoreTypes
<1>4. \A w \in Workers : starter[w].pc = "idle"
  BY <1>1 DEF Init
<1> QED
  BY <1>2, <1>3, <1>4
  DEF Inv, OneStarter, NothingCurrentYet, AttemptsAreNumbered, CurrentHasOwner, Busy,
      Waiting, Starting

\* A step that leaves the workers where they are and playbackStarting as it is, and
\* keeps a current track only together with what owns it.
LEMMA QuietStep ==
    ASSUME Inv, CoreTypes', SameWorkers(starter', starter),
           session'.starting = session.starting,
           \/ playlist'.current = NoTrack
           \/ /\ playlist'.current = playlist.current
              /\ \/ session'.stopping
                 \/ /\ session'.epoch = session.epoch
                    /\ session'.generation = session.generation
                    /\ session'.playback = session.playback
                    /\ session'.stopping = session.stopping
    PROVE  Inv'
<1> USE DEF SameWorkers
<1>1. OneStarter'
  BY DEF Inv, OneStarter, Busy
<1>2. NothingCurrentYet'
  BY DEF Inv, NothingCurrentYet, Waiting
<1>3. AttemptsAreNumbered'
  BY DEF Inv, AttemptsAreNumbered, Starting
<1>4. CurrentHasOwner'
  BY DEF Inv, CurrentHasOwner, Attempting, Attempted
<1> QED
  BY <1>1, <1>2, <1>3, <1>4 DEF Inv
-----------------------------------------------------------------------------
(* Joins and connections.                                                  *)

JoinPcs == {"waiting", "queued", "joining", "joined", "starting", "ending"}

LEMMA MovedJoin ==
    ASSUME NEW j \in JoinStates, NEW pc \in JoinPcs, NEW c \in Conns \cup {NoConn}
    PROVE  /\ [j EXCEPT !.pc = pc] \in JoinStates
           /\ [j EXCEPT !.pc = pc, !.conn = c] \in JoinStates
           /\ [j EXCEPT !.conn = c, !.pc = pc] \in JoinStates
BY DEF JoinStates, JoinPcs

LEMMA NewJoin ==
    ASSUME NEW kind \in JoinKinds, NEW pc \in JoinPcs, NEW channel \in Channels,
           NEW epoch \in Nat, NEW moving \in BOOLEAN
    PROVE  [kind |-> kind, pc |-> pc, epoch |-> epoch, channel |-> channel,
            moving |-> moving, conn |-> NoConn] \in JoinStates
BY DEF JoinStates, JoinPcs

\* A step that leaves session, playlist and workers alone.
LEMMA JoinsOnlyStep ==
    ASSUME Inv, UNCHANGED <<session, playlist, starter>>, joins' \subseteq JoinStates
    PROVE  Inv'
BY QuietStep DEF Inv, CoreTypes, SameWorkers

\* A step that leaves playlist and workers alone, and what of the session decides
\* about the current track.
LEMMA SessionOnlyStep ==
    ASSUME Inv, UNCHANGED <<playlist, starter>>, joins' \subseteq JoinStates,
           session' \in Sessions, session'.starting = session.starting,
           session'.epoch = session.epoch, session'.generation = session.generation,
           session'.playback = session.playback, session'.stopping = session.stopping
    PROVE  Inv'
BY QuietStep DEF Inv, CoreTypes, SameWorkers

\* A step that leaves no track current.
LEMMA UncurrentStep ==
    ASSUME Inv, session' \in Sessions, session'.starting = session.starting,
           Shaped(playlist'), playlist'.current = NoTrack,
           starter' \in [Workers -> WorkerStates], SameWorkers(starter', starter),
           joins' \subseteq JoinStates
    PROVE  Inv'
BY QuietStep DEF Inv, CoreTypes

\* A step that edits the playlist without touching the current track.
LEMMA EditStep ==
    ASSUME Inv, session' \in Sessions, session'.starting = session.starting,
           session'.epoch = session.epoch, session'.generation = session.generation,
           session'.playback = session.playback, session'.stopping = session.stopping,
           Shaped(playlist'), playlist'.current = playlist.current,
           starter' \in [Workers -> WorkerStates], SameWorkers(starter', starter),
           joins' = joins
    PROVE  Inv'
BY QuietStep DEF Inv, CoreTypes

LEMMA ConnectInv == ASSUME Inv, NEW channel \in Channels, Connect(channel) PROVE Inv'
<1>1. Join("connect", "joining", channel) \in JoinStates
  <2>1. session.epoch \in Nat
    BY DEF Inv, CoreTypes, Sessions
  <2> QED
    BY <2>1, NewJoin DEF Join, JoinKinds, JoinPcs
<1>2. joins' \subseteq JoinStates
  BY <1>1 DEF Connect, Inv, CoreTypes
<1>3. /\ session' \in Sessions /\ session'.starting = session.starting
      /\ session'.epoch = session.epoch /\ session'.generation = session.generation
      /\ session'.playback = session.playback /\ session'.stopping = session.stopping
  BY DEF Connect, Inv, CoreTypes, Sessions
<1> QED
  BY <1>2, <1>3, SessionOnlyStep DEF Connect

LEMMA JoinMovesInv ==
    ASSUME Inv, NEW j \in joins,
           JoinBegins(j) \/ JoinSucceeds(j) \/ JoinFails(j) \/ ConnectFails(j)
    PROVE  Inv'
<1>1. j \in JoinStates
  BY DEF Inv, CoreTypes
<1>2. CASE JoinBegins(j)
  <2>1. joins' \subseteq JoinStates
    BY <1>1, <1>2, MovedJoin DEF JoinBegins, Advance, JoinPcs, Inv, CoreTypes
  <2> QED
    BY <1>2, <2>1, JoinsOnlyStep DEF JoinBegins, playbackVars
<1>3. CASE JoinSucceeds(j)
  <2> DEFINE conn == CHOOSE c \in Conns \ dialed : TRUE
  <2>1. conn \in Conns \cup {NoConn}
    BY <1>3 DEF JoinSucceeds
  <2> HIDE DEF conn
  <2>2. [j EXCEPT !.pc = "joined", !.conn = conn] \in JoinStates
    BY <1>1, <2>1, MovedJoin DEF JoinPcs
  <2>3. joins' \subseteq JoinStates
    BY <1>3, <2>2 DEF JoinSucceeds, Inv, CoreTypes, conn
  <2> QED
    BY <1>3, <2>3, JoinsOnlyStep DEF JoinSucceeds, playbackVars
<1>4. CASE JoinFails(j)
  <2>1. joins' \subseteq JoinStates
    BY <1>1, <1>4, MovedJoin DEF JoinFails, Advance, JoinPcs, Inv, CoreTypes
  <2> QED
    BY <1>4, <2>1, JoinsOnlyStep DEF JoinFails, playbackVars
<1>5. CASE ConnectFails(j)
  <2>1. joins' \subseteq JoinStates
    BY <1>1, <1>5, MovedJoin DEF ConnectFails, JoinPcs, Inv, CoreTypes
  <2> QED
    BY <1>5, <2>1, JoinsOnlyStep DEF ConnectFails, playbackVars
<1> QED
  BY <1>2, <1>3, <1>4, <1>5
LEMMA ConnectCommitsInv ==
    ASSUME Inv, NEW j \in joins, NEW suppress \in BOOLEAN, ConnectCommits(j, suppress)
    PROVE  Inv'
<1> DEFINE s == IF j.moving THEN NextGeneration(NextEpoch(session)) ELSE session
           t == Detached(s)
<1>1. j \in JoinStates /\ session \in Sessions
  BY DEF Inv, CoreTypes
<1>2. s \in Sessions /\ s.starting = session.starting
  BY <1>1, NextEpochIsSession, NextGenerationIsSession
<1>3. t \in Sessions /\ t.starting = session.starting
  BY <1>2, DetachedIsSession
<1> HIDE DEF s
<1>4. session' = [t EXCEPT !.voice = j.conn, !.phase = "idle", !.channel = j.channel]
  BY DEF ConnectCommits, s
<1> HIDE DEF t
<1>5. session' \in Sessions /\ session'.starting = session.starting
  BY <1>1, <1>3, <1>4 DEF Sessions, Phases, JoinStates
<1>6. Shaped(playlist') /\ playlist'.current = NoTrack
  BY RequeuedShaped DEF ConnectCommits, Inv, CoreTypes
<1>7. starter' \in [Workers -> WorkerStates] /\ SameWorkers(starter', starter)
  BY RevisedWorkers DEF ConnectCommits, Inv, CoreTypes
<1>8. joins' \subseteq JoinStates
  <2>1. \A pc \in {"ending", "starting"} : [j EXCEPT !.conn = NoConn, !.pc = pc] \in JoinStates
    BY <1>1, MovedJoin DEF JoinPcs
  <2> QED
    BY <2>1 DEF ConnectCommits, Inv, CoreTypes
<1> QED
  BY <1>5, <1>6, <1>7, <1>8, UncurrentStep

LEMMA JoinEndsInv == ASSUME Inv, NEW j \in joins, JoinEnds(j) PROVE Inv'
<1>1. /\ session' \in Sessions /\ session'.starting = session.starting
      /\ session'.epoch = session.epoch /\ session'.generation = session.generation
      /\ session'.playback = session.playback /\ session'.stopping = session.stopping
  BY DEF JoinEnds, Inv, CoreTypes, Sessions
<1>2. joins' \subseteq JoinStates
  BY DEF JoinEnds, Inv, CoreTypes
<1> QED
  BY <1>1, <1>2, SessionOnlyStep DEF JoinEnds, playbackVars

-----------------------------------------------------------------------------
(* Commands.                                                               *)

LEMMA EnqueueInv ==
    ASSUME Inv, NEW request \in Requests, NEW placement \in Placements,
           Enqueue(request, placement)
    PROVE  Inv'
<1>1. /\ session' \in Sessions /\ session'.starting = session.starting
      /\ session'.epoch = session.epoch /\ session'.generation = session.generation
      /\ session'.playback = session.playback /\ session'.stopping = session.stopping
  BY DEF Enqueue, Inv, CoreTypes, Sessions, Phases
<1>2. Shaped(playlist') /\ playlist'.current = playlist.current
  BY EnqueuedShaped DEF Enqueue, Inv, CoreTypes
<1>3. starter' \in [Workers -> WorkerStates] /\ SameWorkers(starter', starter)
  BY RevisedWorkers DEF Enqueue, Inv, CoreTypes
<1> QED
  BY <1>1, <1>2, <1>3, EditStep DEF Enqueue, voiceVars

LEMMA PhaseInv == ASSUME Inv, Pause \/ Resume \/ Toggle247 PROVE Inv'
<1>1. /\ session' \in Sessions /\ session'.starting = session.starting
      /\ session'.epoch = session.epoch /\ session'.generation = session.generation
      /\ session'.playback = session.playback /\ session'.stopping = session.stopping
  BY DEF Pause, Resume, Toggle247, Inv, CoreTypes, Sessions, Phases
<1> QED
  BY <1>1, SessionOnlyStep DEF Pause, Resume, Toggle247, voiceVars, playbackVars, Inv, CoreTypes

LEMMA RestartInv ==
    ASSUME Inv, NEW p, Restart(p), Shaped(p), p.current = NoTrack
    PROVE  Inv'
<1> DEFINE t == NextGeneration(Detached(session))
<1>1. t \in Sessions /\ t.starting = session.starting
  BY DetachedIsSession, NextGenerationIsSession DEF Inv, CoreTypes
<1>2. session' = [t EXCEPT !.phase = "loading"]
  BY DEF Restart
<1> HIDE DEF t
<1>3. session' \in Sessions /\ session'.starting = session.starting
  BY <1>1, <1>2 DEF Sessions, Phases
<1>4. starter' \in [Workers -> WorkerStates] /\ SameWorkers(starter', starter)
  BY RevisedWorkers DEF Restart, Inv, CoreTypes
<1> QED
  BY <1>3, <1>4, UncurrentStep DEF Restart, voiceVars, Inv, CoreTypes

LEMMA SkipInv == ASSUME Inv, Skip \/ Previous PROVE Inv'
BY RestartInv, SkippedShaped, SelectedPreviousShaped DEF Skip, Previous, Inv, CoreTypes

LEMMA EditInv ==
    ASSUME Inv, NEW playlists, Edit(playlists),
           \A p \in playlists : Shaped(p) /\ p.current = playlist.current
    PROVE  Inv'
<1>1. starter' \in [Workers -> WorkerStates] /\ SameWorkers(starter', starter)
  BY RevisedWorkers DEF Edit, Inv, CoreTypes
<1> QED
  BY <1>1, EditStep DEF Edit, voiceVars, Inv, CoreTypes

LEMMA EditsInv == ASSUME Inv, Loop \/ SetLoop \/ Shuffle \/ Clear PROVE Inv'
<1>1. Shaped(playlist) /\ playlist.loop \in LoopModes
  BY DEF Inv, CoreTypes, Shaped
<1>2. CASE Loop
  <2>1. \A p \in {LoopSet(playlist, NextLoop(playlist.loop))} :
            Shaped(p) /\ p.current = playlist.current
    BY <1>1, LoopSetShaped, NextLoopIsMode
  <2> QED
    BY <1>2, <2>1, EditInv DEF Loop
<1>3. CASE SetLoop
  <2>1. \A p \in {LoopSet(playlist, m) : m \in LoopModes \ {playlist.loop}} :
            Shaped(p) /\ p.current = playlist.current
    BY <1>1, LoopSetShaped
  <2> QED
    BY <1>3, <2>1, EditInv DEF SetLoop
<1>4. CASE Shuffle
  <2>1. \A p \in Shuffled(playlist) : Shaped(p) /\ p.current = playlist.current
    BY <1>1, ShuffledShaped
  <2> QED
    BY <1>4, <2>1, EditInv DEF Shuffle
<1>5. CASE Clear
  <2>1. \A p \in {Cleared(playlist)} : Shaped(p) /\ p.current = playlist.current
    BY <1>1, ClearedShaped
  <2> QED
    BY <1>5, <2>1, EditInv DEF Clear
<1> QED
  BY <1>2, <1>3, <1>4, <1>5

LEMMA StopAllInv ==
    ASSUME Inv, StopAll, starter' = starter, joins' = joins
    PROVE  Inv'
<1>1. session' \in Sessions /\ session'.starting = session.starting
  BY BegunIsSession, FinishedIsSession DEF StopAll, Inv, CoreTypes
<1>2. Shaped(playlist') /\ playlist'.current = NoTrack
  BY EmptiedShaped DEF StopAll, Inv, CoreTypes
<1> QED
  BY <1>1, <1>2, UncurrentStep DEF Inv, CoreTypes, SameWorkers

LEMMA StopsInv == ASSUME Inv, Stop \/ ChannelDeleted \/ InactivityTimeout PROVE Inv'
BY StopAllInv DEF Stop, ChannelDeleted, InactivityTimeout
-----------------------------------------------------------------------------
(* Voice events and voice losses.                                          *)

LEMMA BotMovedInv == ASSUME Inv, NEW channel \in Channels, BotMoved(channel) PROVE Inv'
<1> DEFINE s == NextGeneration(NextEpoch(session))
           t == Detached(s)
<1>1. s \in Sessions /\ s.starting = session.starting
  BY NextEpochIsSession, NextGenerationIsSession DEF Inv, CoreTypes
<1>2. t \in Sessions /\ t.starting = session.starting
  BY <1>1, DetachedIsSession
<1>3. s.epoch \in Nat
  BY <1>1 DEF Sessions
<1> HIDE DEF s
<1>4. session' = [t EXCEPT !.moveTarget = channel, !.transition = TRUE, !.voice = NoConn,
                           !.channel = channel, !.phase = "connecting"]
  BY DEF BotMoved, s
<1> HIDE DEF t
<1>5. session' \in Sessions /\ session'.starting = session.starting
  BY <1>2, <1>4 DEF Sessions, Phases
<1>6. joins' \subseteq JoinStates
  <2>1. [kind |-> "move", pc |-> "queued", epoch |-> s.epoch, channel |-> channel,
         moving |-> TRUE, conn |-> NoConn] \in JoinStates
    BY <1>3, NewJoin DEF JoinKinds, JoinPcs
  <2> QED
    BY <2>1 DEF BotMoved, s, Inv, CoreTypes
<1>7. Shaped(playlist') /\ playlist'.current = NoTrack
  BY RequeuedShaped DEF BotMoved, Inv, CoreTypes
<1>8. starter' \in [Workers -> WorkerStates] /\ SameWorkers(starter', starter)
  BY RevisedWorkers DEF BotMoved, Inv, CoreTypes
<1> QED
  BY <1>5, <1>6, <1>7, <1>8, UncurrentStep

LEMMA BotSeenInv == ASSUME Inv, NEW channel \in Channels, BotSeen(channel) PROVE Inv'
<1>1. /\ session' \in Sessions /\ session'.starting = session.starting
      /\ session'.epoch = session.epoch /\ session'.generation = session.generation
      /\ session'.playback = session.playback /\ session'.stopping = session.stopping
  BY DEF BotSeen, Inv, CoreTypes, Sessions
<1> QED
  BY <1>1, SessionOnlyStep DEF BotSeen, voiceVars, playbackVars, Inv, CoreTypes

LEMMA LossesInv ==
    ASSUME Inv,
           \/ BotDisconnected
           \/ \E conn \in Conns : ConnectionLost(conn)
           \/ \E conn \in losses : LossIgnored(conn)
           \/ \E st \in streams : StreamLosesVoice(st)
    PROVE  Inv'
BY JoinsOnlyStep DEF BotDisconnected, ConnectionLost, LossIgnored, StreamLosesVoice,
                     playbackVars, Inv, CoreTypes

LEMMA MoveEndsInv == ASSUME Inv, NEW j \in joins, MoveEnds(j) PROVE Inv'
<1> DEFINE moved == [session EXCEPT !.moveTarget = NoChannel, !.transition = FALSE]
<1>1. j \in JoinStates
  BY DEF Inv, CoreTypes
<1>2. moved \in Sessions /\ moved.starting = session.starting
      /\ moved.epoch = session.epoch /\ moved.generation = session.generation
      /\ moved.playback = session.playback /\ moved.stopping = session.stopping
  BY DEF Inv, CoreTypes, Sessions
<1>3. \/ session' = session
      \/ session' = [moved EXCEPT !.channel = NoChannel, !.phase = "idle"]
      \/ session' = [moved EXCEPT !.voice = j.conn, !.phase = "loading"]
  BY DEF MoveEnds
<1> HIDE DEF moved
<1>4. /\ session' \in Sessions /\ session'.starting = session.starting
      /\ session'.epoch = session.epoch /\ session'.generation = session.generation
      /\ session'.playback = session.playback /\ session'.stopping = session.stopping
  <2>1. CASE session' = session
    BY <2>1 DEF Inv, CoreTypes
  <2>2. CASE session' = [moved EXCEPT !.channel = NoChannel, !.phase = "idle"]
    BY <1>2, <2>2 DEF Sessions, Phases
  <2>3. CASE session' = [moved EXCEPT !.voice = j.conn, !.phase = "loading"]
    <3>1. j.conn \in Conns \cup {NoConn}
      BY <1>1 DEF JoinStates
    <3> QED
      BY <1>2, <2>3, <3>1 DEF Sessions, Phases
  <2> QED
    BY <1>3, <2>1, <2>2, <2>3
<1>5. joins' \subseteq JoinStates
  <2>1. [j EXCEPT !.pc = "starting", !.conn = NoConn] \in JoinStates
    BY <1>1, MovedJoin DEF JoinPcs
  <2> QED
    BY <2>1 DEF MoveEnds, Inv, CoreTypes
<1> QED
  BY <1>4, <1>5, SessionOnlyStep DEF MoveEnds, playbackVars

LEMMA LossBeginsInv == ASSUME Inv, NEW conn \in losses, LossBegins(conn) PROVE Inv'
<1> DEFINE s == NextEpoch(session)
           t == Detached(s)
<1>1. s \in Sessions /\ s.starting = session.starting
  BY NextEpochIsSession DEF Inv, CoreTypes
<1>2. t \in Sessions /\ t.starting = session.starting
  BY <1>1, DetachedIsSession
<1>3. s.epoch \in Nat
  BY <1>1 DEF Sessions
<1> HIDE DEF s
<1>4. session' = [t EXCEPT !.phase = "recovering", !.voice = NoConn]
  BY DEF LossBegins, s
<1> HIDE DEF t
<1>5. session' \in Sessions /\ session'.starting = session.starting
  BY <1>2, <1>4 DEF Sessions, Phases
<1>6. joins' \subseteq JoinStates
  <2>1. CASE Recovers(playlist')
    <3>1. RecoveryTarget \in Channels
      BY <2>1, SessionAssumption DEF Recovers, RecoveryTarget, Inv, CoreTypes, Sessions
    <3>2. [kind |-> "recovery", pc |-> "waiting", epoch |-> s.epoch,
           channel |-> RecoveryTarget, moving |-> FALSE, conn |-> NoConn] \in JoinStates
      BY <1>3, <3>1, NewJoin DEF JoinKinds, JoinPcs
    <3> QED
      BY <2>1, <3>2 DEF LossBegins, s, Inv, CoreTypes
  <2>2. CASE ~Recovers(playlist')
    BY <2>2 DEF LossBegins, Inv, CoreTypes
  <2> QED
    BY <2>1, <2>2
<1>7. Shaped(playlist') /\ playlist'.current = NoTrack
  BY RequeuedShaped DEF LossBegins, Inv, CoreTypes
<1>8. starter' \in [Workers -> WorkerStates] /\ SameWorkers(starter', starter)
  BY RevisedWorkers DEF LossBegins, Inv, CoreTypes
<1> QED
  BY <1>5, <1>6, <1>7, <1>8, UncurrentStep

LEMMA LossTearsDownInv == ASSUME Inv, LossTearsDown PROVE Inv'
<1>1. CASE session' = FinishedStopping(BegunStopping(session)) /\ playlist' = Emptied(playlist)
  <2>1. session' \in Sessions /\ session'.starting = session.starting
    BY <1>1, BegunIsSession, FinishedIsSession DEF Inv, CoreTypes
  <2>2. Shaped(playlist') /\ playlist'.current = NoTrack
    BY <1>1, EmptiedShaped DEF Inv, CoreTypes
  <2> QED
    BY <2>1, <2>2, UncurrentStep DEF LossTearsDown, playbackVars, Inv, CoreTypes, SameWorkers
<1>2. CASE UNCHANGED <<session, playlist>>
  BY <1>2, JoinsOnlyStep DEF LossTearsDown, playbackVars, Inv, CoreTypes
<1> QED
  BY <1>1, <1>2 DEF LossTearsDown

LEMMA RecoveryWaitedInv == ASSUME Inv, NEW j \in joins, RecoveryWaited(j) PROVE Inv'
<1>1. joins' \subseteq JoinStates
  <2>1. [j EXCEPT !.pc = "queued"] \in JoinStates
    BY MovedJoin DEF JoinPcs, Inv, CoreTypes
  <2> QED
    BY <2>1 DEF RecoveryWaited, Advance, Inv, CoreTypes
<1>2. /\ session' \in Sessions /\ session'.starting = session.starting
      /\ session'.epoch = session.epoch /\ session'.generation = session.generation
      /\ session'.playback = session.playback /\ session'.stopping = session.stopping
  BY DEF RecoveryWaited, Inv, CoreTypes, Sessions
<1> QED
  BY <1>1, <1>2, SessionOnlyStep DEF RecoveryWaited, playbackVars

LEMMA RecoveryEndsInv == ASSUME Inv, NEW j \in joins, RecoveryEnds(j) PROVE Inv'
<1>1. j \in JoinStates /\ joins' \subseteq JoinStates
  <2>1. j \in JoinStates
    BY DEF Inv, CoreTypes
  <2>2. \A pc \in {"ending", "starting"} : [j EXCEPT !.conn = NoConn, !.pc = pc] \in JoinStates
    BY <2>1, MovedJoin DEF JoinPcs
  <2> QED
    BY <2>1, <2>2 DEF RecoveryEnds, Inv, CoreTypes
<1>2. CASE UNCHANGED <<session, playlist>>
  BY <1>1, <1>2, JoinsOnlyStep DEF RecoveryEnds, playbackVars
<1>3. CASE session' = FinishedStopping(BegunStopping(session)) /\ playlist' = Emptied(playlist)
  <2>1. session' \in Sessions /\ session'.starting = session.starting
    BY <1>3, BegunIsSession, FinishedIsSession DEF Inv, CoreTypes
  <2>2. Shaped(playlist') /\ playlist'.current = NoTrack
    BY <1>3, EmptiedShaped DEF Inv, CoreTypes
  <2> QED
    BY <1>1, <2>1, <2>2, UncurrentStep DEF RecoveryEnds, playbackVars, Inv, CoreTypes, SameWorkers
<1>4. CASE /\ session' = [session EXCEPT !.voice = j.conn, !.channel = j.channel,
                                         !.phase = "loading"]
           /\ UNCHANGED playlist
  <2>1. /\ session' \in Sessions /\ session'.starting = session.starting
        /\ session'.epoch = session.epoch /\ session'.generation = session.generation
        /\ session'.playback = session.playback /\ session'.stopping = session.stopping
    BY <1>1, <1>4 DEF Inv, CoreTypes, Sessions, Phases, JoinStates
  <2> QED
    BY <1>1, <1>4, <2>1, SessionOnlyStep DEF RecoveryEnds, playbackVars
<1> QED
  BY <1>2, <1>3, <1>4 DEF RecoveryEnds

-----------------------------------------------------------------------------
(* The watchdog and the end of a stream.                                   *)

LEMMA StallRestartsInv == ASSUME Inv, NEW st \in streams, StallRestarts(st) PROVE Inv'
<1> DEFINE t == NextGeneration(Detached(session))
<1>1. t \in Sessions /\ t.starting = session.starting
  BY DetachedIsSession, NextGenerationIsSession DEF Inv, CoreTypes
<1>2. session' = [t EXCEPT !.restarting = TRUE, !.phase = "loading"]
  BY DEF StallRestarts
<1> HIDE DEF t
<1>3. session' \in Sessions /\ session'.starting = session.starting
  BY <1>1, <1>2 DEF Sessions, Phases
<1>4. Shaped(playlist') /\ playlist'.current = NoTrack
  BY RequeuedShaped DEF StallRestarts, Inv, CoreTypes
<1>5. starter' \in [Workers -> WorkerStates] /\ SameWorkers(starter', starter)
  BY RevisedWorkers DEF StallRestarts, Inv, CoreTypes
<1> QED
  BY <1>3, <1>4, <1>5, UncurrentStep DEF StallRestarts, voiceVars, Inv, CoreTypes

LEMMA StallExhaustsInv == ASSUME Inv, NEW st \in streams, StallExhausts(st) PROVE Inv'
<1> DEFINE s == BegunStopping(session)
           t == Detached(s)
<1>1. s \in Sessions /\ s.starting = session.starting /\ s.stopping
  BY BegunIsSession DEF Inv, CoreTypes
<1>2. t \in Sessions /\ t.starting = session.starting /\ t.stopping
  BY <1>1, DetachedIsSession
<1>3. session' = [t EXCEPT !.voice = NoConn]
  BY DEF StallExhausts
<1> HIDE DEF t
<1>4. session' \in Sessions /\ session'.starting = session.starting /\ session'.stopping
  BY <1>2, <1>3 DEF Sessions
<1> QED
  BY <1>4, QuietStep DEF StallExhausts, Inv, CoreTypes, SameWorkers

LEMMA ExhaustionCleanupInv == ASSUME Inv, ExhaustionCleanup PROVE Inv'
<1>1. CASE session' = FinishedStopping(session) /\ playlist' = Emptied(playlist)
  <2>1. session' \in Sessions /\ session'.starting = session.starting
    BY <1>1, FinishedIsSession DEF Inv, CoreTypes
  <2>2. Shaped(playlist') /\ playlist'.current = NoTrack
    BY <1>1, EmptiedShaped DEF Inv, CoreTypes
  <2> QED
    BY <2>1, <2>2, UncurrentStep
    DEF ExhaustionCleanup, voiceVars, playbackVars, Inv, CoreTypes, SameWorkers
<1>2. CASE UNCHANGED <<session, playlist>>
  BY <1>2, JoinsOnlyStep DEF ExhaustionCleanup, voiceVars, playbackVars, Inv, CoreTypes
<1> QED
  BY <1>1, <1>2 DEF ExhaustionCleanup

LEMMA StreamEndsInv ==
    ASSUME Inv, NEW st \in streams, NEW replay \in BOOLEAN, StreamEnds(st, replay)
    PROVE  Inv'
<1>1. CASE Completes(st)
  <2> DEFINE t == Detached(session)
  <2>1. t \in Sessions /\ t.starting = session.starting
    BY DetachedIsSession DEF Inv, CoreTypes
  <2>2. \E phase \in {"loading", "idle"} : session' = [t EXCEPT !.phase = phase]
    BY <1>1 DEF StreamEnds
  <2> HIDE DEF t
  <2>3. session' \in Sessions /\ session'.starting = session.starting
    BY <2>1, <2>2 DEF Sessions, Phases
  <2>4. Shaped(playlist') /\ playlist'.current = NoTrack
    BY <1>1, FinishedShaped DEF StreamEnds, Inv, CoreTypes
  <2>5. starter' \in [Workers -> WorkerStates] /\ SameWorkers(starter', starter)
    BY <1>1, RevisedWorkers DEF StreamEnds, Inv, CoreTypes
  <2> QED
    BY <2>3, <2>4, <2>5, UncurrentStep DEF StreamEnds, voiceVars, Inv, CoreTypes
<1>2. CASE ~Completes(st)
  BY <1>2, JoinsOnlyStep DEF StreamEnds, voiceVars, Inv, CoreTypes
<1> QED
  BY <1>1, <1>2

LEMMA PrefetchEndsInv == ASSUME Inv, PrefetchEnds PROVE Inv'
<1>1. CASE UNCHANGED <<playlist, starter>>
  BY <1>1, JoinsOnlyStep DEF PrefetchEnds, voiceVars, Inv, CoreTypes
<1>2. CASE (\E t \in Tracks : playlist' = AppendedAutoplay(playlist, t)) /\ starter' = Revised
  <2>1. Shaped(playlist') /\ playlist'.current = playlist.current
    BY <1>2, AppendedShaped DEF Inv, CoreTypes
  <2>2. starter' \in [Workers -> WorkerStates] /\ SameWorkers(starter', starter)
    BY <1>2, RevisedWorkers DEF Inv, CoreTypes
  <2> QED
    BY <2>1, <2>2, EditStep DEF PrefetchEnds, voiceVars, Inv, CoreTypes
<1> QED
  BY <1>1, <1>2 DEF PrefetchEnds

-----------------------------------------------------------------------------
(* The workers.                                                            *)

\* A step after which at most one worker is busy.
LEMMA SoleWorkerStep ==
    ASSUME NEW w \in Workers, CoreTypes',
           \A v \in Workers \ {w} : starter'[v].pc = "idle",
           session'.starting = (starter'[w].pc # "idle"),
           starter'[w].pc \in {"entry", "fetch", "select"} => playlist'.current = NoTrack,
           starter'[w].pc \in {"start", "commit"} => starter'[w].generation # NoStream,
           CurrentHasOwner'
    PROVE  Inv'
<1>1. OneStarter'
  BY DEF OneStarter, Busy
<1>2. NothingCurrentYet'
  BY DEF NothingCurrentYet, Waiting
<1>3. AttemptsAreNumbered'
  BY DEF AttemptsAreNumbered, Starting
<1> QED
  BY <1>1, <1>2, <1>3 DEF Inv

\* While one worker is busy the others are idle, and playbackStarting is set.
LEMMA OthersIdle ==
    ASSUME Inv, NEW w \in Workers, starter[w].pc # "idle"
    PROVE  (\A v \in Workers \ {w} : starter[v].pc = "idle") /\ session.starting = TRUE
BY DEF Inv, OneStarter, Busy, CoreTypes, Sessions

\* A worker gives up when no track is current, or something else owns it.
LEMMA GiveUpStep ==
    ASSUME Inv, NEW w \in Workers, starter[w].pc # "idle",
           session' \in Sessions, session'.starting = FALSE,
           Shaped(playlist'), joins' = joins,
           starter' \in [Workers -> WorkerStates], starter'[w].pc = "idle",
           \A v \in Workers \ {w} : starter'[v].pc = starter[v].pc,
           \/ playlist'.current = NoTrack
           \/ session'.stopping
           \/ session'.playback # NoStream
    PROVE  Inv'
<1>1. CoreTypes'
  BY DEF Inv, CoreTypes
<1>2. CurrentHasOwner'
  BY DEF CurrentHasOwner
<1> QED
  BY <1>1, <1>2, OthersIdle, SoleWorkerStep

LEMMA StartNextInv ==
    ASSUME Inv, StartNext, playlist' = playlist, joins' \subseteq JoinStates
    PROVE  Inv'
<1>1. CASE UNCHANGED <<session, starter>>
  BY <1>1, JoinsOnlyStep
<1>2. CASE CanStart(session) /\ ~session.starting /\ session' = StartedLoading(session)
           /\ SpawnStarter
  <2> DEFINE u == CHOOSE v \in FreeWorkers : TRUE
  <2>1. u \in Workers /\ starter' = [starter EXCEPT ![u] = [IdleWorker EXCEPT !.pc = "entry"]]
    BY <1>2 DEF SpawnStarter, FreeWorkers
  <2> HIDE DEF u
  <2>2. \A v \in Workers : starter[v].pc = "idle"
    BY <1>2 DEF Inv, OneStarter, Busy
  <2>3. playlist.current = NoTrack
    BY <1>2, <2>2 DEF Inv, CurrentHasOwner, Attempting, CanStart
  <2>4. [IdleWorker EXCEPT !.pc = "entry"] \in WorkerStates
        /\ [IdleWorker EXCEPT !.pc = "entry"].pc = "entry"
    BY DEF IdleWorker, WorkerStates
  <2>5. session' \in Sessions /\ session'.starting = TRUE
    BY <1>2 DEF StartedLoading, Inv, CoreTypes, Sessions, Phases
  <2>6. CoreTypes' /\ starter'[u].pc = "entry"
    BY <2>1, <2>4, <2>5 DEF Inv, CoreTypes
  <2>7. \A v \in Workers \ {u} : starter'[v].pc = "idle"
    BY <2>1, <2>2 DEF Inv, CoreTypes
  <2>8. CurrentHasOwner'
    BY <2>3 DEF CurrentHasOwner
  <2> QED
    BY <2>1, <2>3, <2>5, <2>6, <2>7, <2>8, SoleWorkerStep
<1> QED
  BY <1>1, <1>2 DEF StartNext

LEMMA KickInv == ASSUME Inv, Kick PROVE Inv'
BY StartNextInv DEF Kick, voiceVars, Inv, CoreTypes

LEMMA JoinStartsInv == ASSUME Inv, NEW j \in joins, JoinStarts(j) PROVE Inv'
<1>1. [j EXCEPT !.pc = "ending"] \in JoinStates
  BY MovedJoin DEF JoinPcs, Inv, CoreTypes
<1>2. joins' \subseteq JoinStates
  BY <1>1 DEF JoinStarts, Advance, Inv, CoreTypes
<1> QED
  BY <1>2, StartNextInv DEF JoinStarts

\* What an idle worker looks like, and one that is moved on.
LEMMA WorkerMoved ==
    ASSUME NEW a \in [Workers -> WorkerStates], NEW w \in Workers, NEW r \in WorkerStates
    PROVE  /\ [a EXCEPT ![w] = r] \in [Workers -> WorkerStates]
           /\ [a EXCEPT ![w] = r][w] = r
           /\ \A v \in Workers \ {w} : [a EXCEPT ![w] = r][v] = a[v]
OBVIOUS

LEMMA IdleIsState == IdleWorker \in WorkerStates /\ IdleWorker.pc = "idle"
BY DEF IdleWorker, WorkerStates

\* The session that GiveUp leaves.
LEMMA GaveUp ==
    ASSUME NEW s \in Sessions
    PROVE  [s EXCEPT !.starting = FALSE] \in Sessions
           /\ [s EXCEPT !.starting = FALSE].starting = FALSE
           /\ [s EXCEPT !.starting = FALSE].stopping = s.stopping
           /\ [s EXCEPT !.starting = FALSE].playback = s.playback
BY DEF Sessions

LEMMA GiveUpInv ==
    ASSUME Inv, NEW w \in Workers, starter[w].pc # "idle",
           NEW s \in Sessions, s.playback = session.playback, s.stopping = session.stopping,
           GiveUp(w, s), Shaped(playlist'), playlist'.current = playlist.current,
           joins' = joins,
           playlist.current = NoTrack \/ session.stopping \/ session.playback # NoStream
    PROVE  Inv'
<1>1. starter \in [Workers -> WorkerStates]
  BY DEF Inv, CoreTypes
<1>2. /\ starter' \in [Workers -> WorkerStates] /\ starter'[w].pc = "idle"
      /\ \A v \in Workers \ {w} : starter'[v].pc = starter[v].pc
  BY <1>1, WorkerMoved, IdleIsState DEF GiveUp
<1>3. /\ session' \in Sessions /\ session'.starting = FALSE
      /\ session'.playback = session.playback /\ session'.stopping = session.stopping
  BY GaveUp DEF GiveUp
<1> QED
  BY <1>2, <1>3, GiveUpStep

\* A worker that waits moves on, still without a current track.
LEMMA WaitingStep ==
    ASSUME Inv, NEW w \in Workers, Waiting(w), session' = session,
           NEW a, SameWorkers(a, starter), a \in [Workers -> WorkerStates],
           NEW r \in WorkerStates, r.pc \in {"fetch", "select"},
           starter' = [a EXCEPT ![w] = r],
           Shaped(playlist'), playlist'.current = playlist.current, joins' = joins
    PROVE  Inv'
<1>1. playlist.current = NoTrack /\ starter[w].pc # "idle"
  BY DEF Inv, NothingCurrentYet, Waiting
<1>2. \A v \in Workers \ {w} : starter[v].pc = "idle"
  BY <1>1, OthersIdle
<1>3. session.starting = TRUE
  BY <1>1, OthersIdle
<1>4. CoreTypes' /\ starter'[w] = r
  BY WorkerMoved DEF Inv, CoreTypes
<1>5. \A v \in Workers \ {w} : starter'[v].pc = "idle"
  BY <1>2, WorkerMoved DEF SameWorkers
<1>6. CurrentHasOwner'
  BY <1>1 DEF CurrentHasOwner
<1> QED
  BY <1>1, <1>3, <1>4, <1>5, <1>6, SoleWorkerStep

LEMMA ProceedInv ==
    ASSUME Inv, NEW w \in Workers, Waiting(w), UNCHANGED session, Proceed(w, "select"),
           Shaped(playlist'), playlist'.current = playlist.current, joins' = joins
    PROVE  Inv'
<1> DEFINE r == [starter[w] EXCEPT !.pc = "select"]
<1>1. starter \in [Workers -> WorkerStates]
  BY DEF Inv, CoreTypes
<1>2. r \in WorkerStates /\ r.pc = "select"
  BY <1>1 DEF WorkerStates
<1>3. starter' = [starter EXCEPT ![w] = r]
  BY DEF Proceed
<1>4. SameWorkers(starter, starter)
  BY DEF SameWorkers
<1> HIDE DEF r
<1> QED
  BY <1>1, <1>2, <1>3, <1>4, WaitingStep

LEMMA StarterEntersInv == ASSUME Inv, NEW w \in Workers, StarterEnters(w) PROVE Inv'
<1>1. /\ session \in Sessions /\ Shaped(playlist) /\ starter \in [Workers -> WorkerStates]
      /\ Waiting(w) /\ playlist.current = NoTrack /\ starter[w].pc # "idle"
      /\ playlist' = playlist /\ joins' = joins
  BY DEF Inv, CoreTypes, NothingCurrentYet, Waiting, StarterEnters, voiceVars
<1>2. CASE GiveUp(w, session)
  BY <1>1, <1>2, GiveUpInv
<1>3. CASE Proceed(w, "select") /\ UNCHANGED session
  BY <1>1, <1>3, ProceedInv
<1>4. CASE /\ starter' = [Outdated EXCEPT ![w] =
                            [pc |-> "fetch", epoch |-> session.epoch, generation |-> 0,
                             fresh |-> TRUE, latest |-> TRUE]]
           /\ UNCHANGED session
  <2> DEFINE r == [pc |-> "fetch", epoch |-> session.epoch, generation |-> 0,
                   fresh |-> TRUE, latest |-> TRUE]
  <2>1. r \in WorkerStates /\ r.pc = "fetch"
    BY <1>1 DEF WorkerStates, Sessions
  <2> HIDE DEF r
  <2>2. starter' = [Outdated EXCEPT ![w] = r]
    BY <1>4 DEF r
  <2>3. Outdated \in [Workers -> WorkerStates] /\ SameWorkers(Outdated, starter)
    BY <1>1, OutdatedWorkers
  <2>4. session' = session /\ Shaped(playlist') /\ playlist'.current = playlist.current
    BY <1>1, <1>4
  <2> QED
    BY <1>1, <2>1, <2>2, <2>3, <2>4, WaitingStep
<1> QED
  BY <1>2, <1>3, <1>4 DEF StarterEnters

LEMMA StarterFetchedInv == ASSUME Inv, NEW w \in Workers, StarterFetched(w) PROVE Inv'
<1>1. /\ session \in Sessions /\ Shaped(playlist)
      /\ Waiting(w) /\ playlist.current = NoTrack /\ starter[w].pc # "idle"
      /\ joins' = joins
  BY DEF Inv, CoreTypes, NothingCurrentYet, Waiting, StarterFetched, voiceVars
<1>2. Shaped(playlist') /\ playlist'.current = playlist.current
  BY <1>1, AppendedShaped DEF StarterFetched
<1>3. CASE GiveUp(w, session)
  BY <1>1, <1>2, <1>3, GiveUpInv
<1>4. CASE GiveUp(w, [session EXCEPT !.phase = "idle"])
  <2> DEFINE s == [session EXCEPT !.phase = "idle"]
  <2>1. /\ s \in Sessions /\ s.playback = session.playback
        /\ s.stopping = session.stopping
    BY <1>1 DEF Sessions, Phases
  <2>2. GiveUp(w, s)
    BY <1>4
  <2> HIDE DEF s
  <2> QED
    BY <1>1, <1>2, <2>1, <2>2, GiveUpInv
<1>5. CASE Proceed(w, "select") /\ UNCHANGED session
  BY <1>1, <1>2, <1>5, ProceedInv
<1> QED
  BY <1>3, <1>4, <1>5 DEF StarterFetched

\* An attempt that is not current owns no track: whoever does is not a worker.
LEMMA OvertakenOwnsNothing ==
    ASSUME Inv, NEW w \in Workers, starter[w].pc # "idle", ~Attempting(w)
    PROVE  playlist.current = NoTrack \/ session.stopping \/ session.playback # NoStream
<1>1. \A v \in Workers \ {w} : ~Attempting(v)
  BY OthersIdle DEF Attempting
<1> QED
  BY <1>1 DEF Inv, CurrentHasOwner

LEMMA StarterSelectsInv == ASSUME Inv, NEW w \in Workers, StarterSelects(w) PROVE Inv'
<1>1. /\ session \in Sessions /\ Shaped(playlist) /\ starter \in [Workers -> WorkerStates]
      /\ playlist.current = NoTrack /\ starter[w].pc # "idle"
      /\ joins' = joins
  BY DEF Inv, CoreTypes, NothingCurrentYet, Waiting, StarterSelects, voiceVars
<1>2. CASE GiveUp(w, session) /\ UNCHANGED playlist
  BY <1>1, <1>2, GiveUpInv
<1>3. CASE GiveUp(w, [session EXCEPT !.phase = "idle"]) /\ UNCHANGED playlist
  <2> DEFINE s == [session EXCEPT !.phase = "idle"]
  <2>1. /\ s \in Sessions /\ s.playback = session.playback
        /\ s.stopping = session.stopping
    BY <1>1 DEF Sessions, Phases
  <2>2. GiveUp(w, s)
    BY <1>3
  <2> HIDE DEF s
  <2> QED
    BY <1>1, <1>3, <2>1, <2>2, GiveUpInv
<1>4. CASE /\ CanStart(session)
           /\ playlist' = SelectedNext(playlist)
           /\ session' = NextGeneration(session)
           /\ starter' = [Revised EXCEPT ![w] =
                             [pc |-> "start", epoch |-> session.epoch,
                              generation |-> session.generation + 1,
                              fresh |-> FALSE, latest |-> FALSE]]
  <2> DEFINE r == [pc |-> "start", epoch |-> session.epoch,
                   generation |-> session.generation + 1,
                   fresh |-> FALSE, latest |-> FALSE]
  <2>1. /\ session' \in Sessions /\ session'.starting = TRUE
        /\ session'.generation = r.generation /\ session'.epoch = r.epoch
        /\ ~session'.stopping
    BY <1>1, <1>4, NextGenerationIsSession, OthersIdle DEF CanStart
  <2>2. r \in WorkerStates /\ r.pc = "start" /\ r.generation # NoStream
    BY <1>1 DEF WorkerStates, Sessions, NoStream
  <2> HIDE DEF r
  <2>3. starter' = [Revised EXCEPT ![w] = r]
    BY <1>4 DEF r
  <2>4. Revised \in [Workers -> WorkerStates] /\ SameWorkers(Revised, starter)
    BY <1>1, RevisedWorkers
  <2>5. starter' \in [Workers -> WorkerStates] /\ starter'[w] = r
    BY <2>2, <2>3, <2>4, WorkerMoved
  <2>6. \A v \in Workers \ {w} : starter'[v].pc = "idle"
    BY <1>1, <2>2, <2>3, <2>4, WorkerMoved, OthersIdle DEF SameWorkers
  <2>7. Shaped(playlist')
    BY <1>1, <1>4, SelectedNextShaped
  <2>8. CoreTypes'
    BY <1>1, <2>1, <2>5, <2>7 DEF CoreTypes, Inv
  <2>9. CurrentHasOwner'
    BY <2>1, <2>2, <2>5 DEF CurrentHasOwner, Attempting, Attempted
  <2> QED
    BY <2>1, <2>2, <2>5, <2>6, <2>8, <2>9, SoleWorkerStep
<1> QED
  BY <1>2, <1>3, <1>4 DEF StarterSelects

LEMMA StreamStartsInv == ASSUME Inv, NEW w \in Workers, StreamStarts(w) PROVE Inv'
<1> DEFINE r == [starter[w] EXCEPT !.pc = "commit"]
<1>1. /\ starter \in [Workers -> WorkerStates] /\ starter[w].pc = "start"
      /\ starter[w].generation # NoStream
      /\ session' = session /\ playlist' = playlist /\ joins' = joins
  BY DEF Inv, CoreTypes, AttemptsAreNumbered, Starting, StreamStarts, voiceVars
<1>2. /\ r \in WorkerStates /\ r.pc = "commit"
      /\ r.epoch = starter[w].epoch /\ r.generation = starter[w].generation
  BY <1>1 DEF WorkerStates
<1>3. starter' = [starter EXCEPT ![w] = r]
  BY DEF StreamStarts, Proceed
<1> HIDE DEF r
<1>4. starter' \in [Workers -> WorkerStates] /\ starter'[w] = r
  BY <1>1, <1>2, <1>3, WorkerMoved
<1>5. \A v \in Workers \ {w} : starter'[v] = starter[v]
  BY <1>1, <1>2, <1>3, WorkerMoved
<1>6. session.starting = TRUE /\ \A v \in Workers \ {w} : starter'[v].pc = "idle"
  BY <1>1, <1>5, OthersIdle
<1>7. CoreTypes'
  BY <1>1, <1>4 DEF CoreTypes, Inv
<1>8. CurrentHasOwner'
  <2>1. \A v \in Workers : Attempting(v) => Attempting(v)'
    BY <1>1, <1>2, <1>4, <1>5 DEF Attempting, Attempted
  <2> QED
    BY <1>1, <2>1 DEF CurrentHasOwner, Inv
<1> QED
  BY <1>1, <1>2, <1>4, <1>6, <1>7, <1>8, SoleWorkerStep

LEMMA StartFailsInv ==
    ASSUME Inv, NEW w \in Workers, NEW unusable \in BOOLEAN, StartFails(w, unusable)
    PROVE  Inv'
<1>1. /\ session \in Sessions /\ Shaped(playlist) /\ starter \in [Workers -> WorkerStates]
      /\ starter[w].pc # "idle" /\ joins' = joins
  BY DEF Inv, CoreTypes, StartFails, voiceVars
<1>2. session' \in Sessions /\ session'.starting = FALSE
  <2>1. \E f \in Nat, p \in {"loading", "idle"} :
            session' = [session EXCEPT !.starting = FALSE, !.failures = f, !.phase = p]
    <3>1. session.failures \in Nat /\ session.failures + 1 \in Nat
      BY <1>1 DEF Sessions
    <3> QED
      BY <3>1 DEF StartFails
  <2> QED
    BY <1>1, <2>1 DEF Sessions, Phases
<1>3. Shaped(playlist') /\ playlist'.current = NoTrack
  BY <1>1, RecordedFailureShaped, RequeuedShaped DEF StartFails
<1>4. /\ RevisedIf(playlist.current # NoTrack) \in [Workers -> WorkerStates]
      /\ SameWorkers(RevisedIf(playlist.current # NoTrack), starter)
  BY <1>1, RevisedWorkers
<1>5. /\ starter' \in [Workers -> WorkerStates] /\ starter'[w].pc = "idle"
      /\ \A v \in Workers \ {w} : starter'[v].pc = starter[v].pc
  BY <1>4, WorkerMoved, IdleIsState DEF StartFails, SameWorkers
<1> QED
  BY <1>1, <1>2, <1>3, <1>5, GiveUpStep

LEMMA StaleStartFailsInv == ASSUME Inv, NEW w \in Workers, StaleStartFails(w) PROVE Inv'
<1>1. /\ session \in Sessions /\ Shaped(playlist)
      /\ starter[w].pc # "idle" /\ ~Attempting(w)
      /\ playlist' = playlist /\ joins' = joins
  BY DEF Inv, CoreTypes, StaleStartFails, Attempting, voiceVars
<1>2. \E p \in Phases : GiveUp(w, [session EXCEPT !.phase = p])
  <2>1. session.phase \in Phases /\ "loading" \in Phases /\ "idle" \in Phases
    BY <1>1 DEF Sessions, Phases
  <2> QED
    BY <2>1 DEF StaleStartFails
<1>3. PICK p \in Phases : GiveUp(w, [session EXCEPT !.phase = p])
  BY <1>2
<1> DEFINE s == [session EXCEPT !.phase = p]
<1>4. s \in Sessions /\ s.playback = session.playback /\ s.stopping = session.stopping
  BY <1>1 DEF Sessions
<1>5. GiveUp(w, s)
  BY <1>3
<1> HIDE DEF s
<1> QED
  BY <1>1, <1>4, <1>5, OvertakenOwnsNothing, GiveUpInv

LEMMA StarterCommitsInv == ASSUME Inv, NEW w \in Workers, StarterCommits(w) PROVE Inv'
<1>1. /\ session \in Sessions /\ Shaped(playlist) /\ starter \in [Workers -> WorkerStates]
      /\ starter[w].pc = "commit" /\ starter[w].generation \in Nat \ {NoStream}
      /\ playlist' = playlist /\ joins' = joins
  BY DEF Inv, CoreTypes, AttemptsAreNumbered, Starting, StarterCommits, voiceVars, WorkerStates
<1>2. /\ session' \in Sessions /\ session'.starting = FALSE
      /\ session'.playback # NoStream
  BY <1>1 DEF StarterCommits, Sessions, Phases
<1>3. /\ starter' \in [Workers -> WorkerStates] /\ starter'[w].pc = "idle"
      /\ \A v \in Workers \ {w} : starter'[v].pc = starter[v].pc
  BY <1>1, WorkerMoved, IdleIsState DEF StarterCommits
<1> QED
  BY <1>1, <1>2, <1>3, GiveUpStep

LEMMA StarterDiscardsInv == ASSUME Inv, NEW w \in Workers, StarterDiscards(w) PROVE Inv'
<1>1. /\ session \in Sessions /\ Shaped(playlist) /\ starter[w].pc # "idle"
      /\ playlist' = playlist /\ joins' = joins /\ GiveUp(w, session)
  BY DEF Inv, CoreTypes, StarterDiscards, voiceVars
<1>2. playlist.current = NoTrack \/ ~Attempting(w)
  BY DEF StarterDiscards, Attempting
<1> QED
  BY <1>1, <1>2, OvertakenOwnsNothing, GiveUpInv

-----------------------------------------------------------------------------
(* The invariant holds in every state.                                     *)

LEMMA StarterStepInv == ASSUME Inv, NEW w \in Workers, StarterStep(w) PROVE Inv'
BY StarterEntersInv, StarterFetchedInv, StarterSelectsInv, StreamStartsInv, StartFailsInv,
   StaleStartFailsInv, StarterCommitsInv, StarterDiscardsInv
DEF StarterStep

LEMMA StreamStepInv == ASSUME Inv, StreamStep PROVE Inv'
<1>1. CASE \E st \in streams, replay \in BOOLEAN : StreamEnds(st, replay)
  BY <1>1, StreamEndsInv
<1>2. CASE \E st \in streams : StreamLosesVoice(st)
  BY <1>2, LossesInv
<1>3. CASE \E st \in streams : StallRestarts(st)
  BY <1>3, StallRestartsInv
<1>4. CASE \E st \in streams : StallExhausts(st)
  BY <1>4, StallExhaustsInv
<1> QED
  BY <1>1, <1>2, <1>3, <1>4 DEF StreamStep

LEMMA JoinStepInv == ASSUME Inv, NEW kind \in JoinKinds, JoinStep(kind) PROVE Inv'
BY JoinMovesInv, JoinStartsInv, JoinEndsInv DEF JoinStep, JoinsOf

LEMMA ConnectStepInv == ASSUME Inv, ConnectStep PROVE Inv'
BY JoinMovesInv, ConnectCommitsInv DEF ConnectStep

LEMMA UserStepInv == ASSUME Inv, UserStep PROVE Inv'
<1>1. CASE \E channel \in Channels : Connect(channel)
  BY <1>1, ConnectInv
<1>2. CASE \E request \in Requests, placement \in Placements : Enqueue(request, placement)
  BY <1>2, EnqueueInv
<1>3. CASE Pause \/ Resume \/ Toggle247
  BY <1>3, PhaseInv
<1>4. CASE Skip \/ Previous
  BY <1>4, SkipInv
<1>5. CASE Loop \/ SetLoop \/ Shuffle \/ Clear
  BY <1>5, EditsInv
<1>6. CASE Stop
  BY <1>6, StopsInv
<1> QED
  BY <1>1, <1>2, <1>3, <1>4, <1>5, <1>6 DEF UserStep

LEMMA DiscordStepInv ==
    ASSUME Inv, DiscordStep, "botMovedRecovering" \notin Operations PROVE Inv'
<1>1. CASE \E channel \in Channels : BotMoved(channel)
  BY <1>1, BotMovedInv
<1>2. CASE \E channel \in Channels : BotSeen(channel)
  BY <1>2, BotSeenInv
<1>3. CASE BotDisconnected \/ \E conn \in Conns : ConnectionLost(conn)
  BY <1>3, LossesInv
<1>4. CASE ChannelDeleted \/ InactivityTimeout
  BY <1>4, StopsInv
<1>5. \A channel \in Channels : ~BotSeenRecovering(channel)
  BY DEF BotSeenRecovering, Arrives
<1> QED
  BY <1>1, <1>2, <1>3, <1>4, <1>5 DEF DiscordStep

LEMMA NextInv ==
    ASSUME Inv, [Next]_vars, "botMovedRecovering" \notin Operations PROVE Inv'
<1>1. CASE UserStep
  BY <1>1, UserStepInv
<1>2. CASE DiscordStep
  BY <1>2, DiscordStepInv
<1>3. CASE Kick
  BY <1>3, KickInv
<1>4. CASE \E w \in Workers : StarterStep(w)
  BY <1>4, StarterStepInv
<1>5. CASE StreamStep
  BY <1>5, StreamStepInv
<1>6. CASE PrefetchEnds
  BY <1>6, PrefetchEndsInv
<1>7. CASE \E kind \in JoinKinds : JoinStep(kind)
  BY <1>7, JoinStepInv
<1>8. CASE ConnectStep
  BY <1>8, ConnectStepInv
<1>9. CASE RecoveryStep
  BY <1>9, RecoveryWaitedInv, RecoveryEndsInv DEF RecoveryStep
<1>10. CASE MoveStep
  BY <1>10, MoveEndsInv DEF MoveStep
<1>11. CASE LossStep
  BY <1>11, LossesInv, LossBeginsInv DEF LossStep
<1>12. CASE LossTearsDown
  BY <1>12, LossTearsDownInv
<1>13. CASE ExhaustionCleanup
  BY <1>13, ExhaustionCleanupInv
<1>14. CASE UNCHANGED vars
  BY <1>14, JoinsOnlyStep DEF vars, voiceVars, playbackVars, Inv, CoreTypes
<1> QED
  BY <1>1, <1>2, <1>3, <1>4, <1>5, <1>6, <1>7, <1>8, <1>9, <1>10, <1>11, <1>12, <1>13,
     <1>14 DEF Next

LEMMA InvAlways == ASSUME "botMovedRecovering" \notin Operations PROVE Spec => []Inv
<1>1. Inv /\ [Next]_vars => Inv'
  BY NextInv
<1> QED
  BY InitInv, <1>1, PTL DEF Spec

\* playbackStarting, which has no owner, works as a mutex: between startNext and the
\* end of the attempt there is one worker, whatever stops, moves or restarts meanwhile
\* (unless Discord moves the bot during a recovery, which clears the flag).
THEOREM OneStarterAlways ==
    ASSUME "botMovedRecovering" \notin Operations PROVE Spec => []OneStarter
<1>1. Inv => OneStarter
  BY DEF Inv
<1> QED
  BY InvAlways, <1>1, PTL

\* No path forgets the current track: it plays, or is being started by the attempt the
\* session still counts as its own, or waits for a stopping session to be emptied.
THEOREM CurrentHasOwnerAlways ==
    ASSUME "botMovedRecovering" \notin Operations PROVE Spec => []CurrentHasOwner
<1>1. Inv => CurrentHasOwner
  BY DEF Inv
<1> QED
  BY InvAlways, <1>1, PTL

-----------------------------------------------------------------------------
(* The session implements its playlist.  INSTANCE gives the abstract       *)
(* playlist operations of its own: they are those of RadioQueue.           *)

LEMMA SameEnqueue ==
    ASSUME NEW p, NEW r, NEW placement
    PROVE  /\ Enqueued(p, r, placement) = Playlist!Enqueued(p, r, placement)
           /\ HasRoomFor(p, r) <=> Playlist!HasRoomFor(p, r)
<1>1. Enqueued(p, r, placement) = Playlist!Enqueued(p, r, placement)
  BY Zenon
  DEF Enqueued, Admit, FoldLeft, MapThenFoldSet, AutoPending, Min, Max, UserTrack, UserPrefix,
      Playlist!Enqueued, Playlist!Admit, Playlist!FoldLeft, Playlist!MapThenFoldSet,
      Playlist!AutoPending, Playlist!Min, Playlist!Max, Playlist!UserTrack, Playlist!UserPrefix
<1>2. HasRoomFor(p, r) <=> Playlist!HasRoomFor(p, r)
  BY DEF HasRoomFor, UserPending, Cardinality,
         Playlist!HasRoomFor, Playlist!UserPending, Playlist!Cardinality
<1> QED
  BY <1>1, <1>2

LEMMA SameRecorded ==
    ASSUME NEW h, NEW e PROVE Recorded(h, e) = Playlist!Recorded(h, e)
BY DEF Recorded, Max, Playlist!Recorded, Playlist!Max

LEMMA SameEnds ==
    ASSUME NEW p, NEW replay
    PROVE  /\ Requeued(p) = Playlist!Requeued(p)
           /\ Finished(p, replay) = Playlist!Finished(p, replay)
           /\ RecordedFailure(p) = Playlist!RecordedFailure(p)
           /\ Skipped(p) = Playlist!Skipped(p)
           /\ SelectedPrevious(p) = Playlist!SelectedPrevious(p)
           /\ HasPrevious(p) <=> Playlist!HasPrevious(p)
           /\ SelectedNext(p) = Playlist!SelectedNext(p)
<1>1. Requeued(p) = Playlist!Requeued(p)
  BY DEF Requeued, Playlist!Requeued
<1>2. Finished(p, replay) = Playlist!Finished(p, replay)
  BY <1>1, SameRecorded DEF Finished, Playlist!Finished
<1>3. RecordedFailure(p) = Playlist!RecordedFailure(p)
  BY SameRecorded DEF RecordedFailure, Playlist!RecordedFailure
<1>4. Skipped(p) = Playlist!Skipped(p)
  BY SameRecorded DEF Skipped, UnloopTrack, Playlist!Skipped, Playlist!UnloopTrack
<1>5. SelectedPrevious(p) = Playlist!SelectedPrevious(p)
  BY DEF SelectedPrevious, UnloopTrack, Last, Front,
         Playlist!SelectedPrevious, Playlist!UnloopTrack, Playlist!Last, Playlist!Front
<1>6. HasPrevious(p) <=> Playlist!HasPrevious(p)
  BY DEF HasPrevious, Playlist!HasPrevious
<1>7. SelectedNext(p) = Playlist!SelectedNext(p)
  BY DEF SelectedNext, Playlist!SelectedNext
<1> QED
  BY <1>1, <1>2, <1>3, <1>4, <1>5, <1>6, <1>7

LEMMA SameEdits ==
    ASSUME NEW p, NEW t, NEW mode
    PROVE  /\ AppendedAutoplay(p, t) = Playlist!AppendedAutoplay(p, t)
           /\ LoopSet(p, mode) = Playlist!LoopSet(p, mode)
           /\ Cleared(p) = Playlist!Cleared(p)
           /\ Emptied(p) = Playlist!Emptied(p)
           /\ Shuffled(p) = Playlist!Shuffled(p)
           /\ LoopModes = Playlist!LoopModes
           /\ Placements = Playlist!Placements
<1>1. AppendedAutoplay(p, t) = Playlist!AppendedAutoplay(p, t)
  BY DEF AppendedAutoplay, AutoTrack, Playlist!AppendedAutoplay, Playlist!AutoTrack
<1>2. Shuffled(p) = Playlist!Shuffled(p)
  BY DEF Shuffled, Permuted, IsInjective, UserPending, Cardinality, Playlist!Shuffled,
         Playlist!Permuted, Playlist!IsInjective, Playlist!UserPending, Playlist!Cardinality
<1>3. /\ LoopSet(p, mode) = Playlist!LoopSet(p, mode)
      /\ Cleared(p) = Playlist!Cleared(p)
      /\ Emptied(p) = Playlist!Emptied(p)
  BY DEF LoopSet, Cleared, Emptied, Playlist!LoopSet, Playlist!Cleared, Playlist!Emptied
<1>4. LoopModes = Playlist!LoopModes /\ Placements = Playlist!Placements
  BY DEF LoopModes, Placements, Playlist!LoopModes, Playlist!Placements
<1> QED
  BY <1>1, <1>2, <1>3, <1>4

\* What a step of the session may do to its playlist.
PlaylistStep ==
    \/ UNCHANGED playlist
    \/ playlist' = Requeued(playlist)
    \/ playlist' = RecordedFailure(playlist)
    \/ playlist' = Skipped(playlist)
    \/ playlist' = Emptied(playlist)
    \/ HasPrevious(playlist) /\ playlist' = SelectedPrevious(playlist)
    \/ \E replay \in BOOLEAN : playlist' = Finished(playlist, replay)
    \/ playlist.queue = << >> /\ \E t \in Tracks : playlist' = AppendedAutoplay(playlist, t)
    \/ /\ playlist.queue # << >> /\ playlist.current = NoTrack
       /\ playlist' = SelectedNext(playlist)
    \/ \E mode \in LoopModes : playlist' = LoopSet(playlist, mode)
    \/ playlist' \in Shuffled(playlist)
    \/ playlist' = Cleared(playlist)
    \/ \E request \in Requests, placement \in Placements :
          HasRoomFor(playlist, request) /\ playlist' = Enqueued(playlist, request, placement)

LEMMA PlaylistStepImplements == PlaylistStep => [Playlist!Next]_playlist
<1> SUFFICES ASSUME PlaylistStep PROVE [Playlist!Next]_playlist
  OBVIOUS
<1>1. CASE UNCHANGED playlist
  BY <1>1
<1>2. CASE playlist' = Requeued(playlist)
  BY <1>2, SameEnds DEF Playlist!Next, Playlist!Requeue
<1>3. CASE playlist' = RecordedFailure(playlist)
  BY <1>3, SameEnds DEF Playlist!Next, Playlist!Fail
<1>4. CASE playlist' = Skipped(playlist)
  BY <1>4, SameEnds DEF Playlist!Next, Playlist!Skip
<1>5. CASE playlist' = Emptied(playlist)
  BY <1>5, SameEdits DEF Playlist!Next, Playlist!Stop
<1>6. CASE HasPrevious(playlist) /\ playlist' = SelectedPrevious(playlist)
  BY <1>6, SameEnds DEF Playlist!Next, Playlist!Previous
<1>7. CASE \E replay \in BOOLEAN : playlist' = Finished(playlist, replay)
  BY <1>7, SameEnds DEF Playlist!Next, Playlist!Finish
<1>8. CASE playlist.queue = << >> /\ \E t \in Tracks : playlist' = AppendedAutoplay(playlist, t)
  BY <1>8, SameEdits DEF Playlist!Next, Playlist!Autoplay
<1>9. CASE /\ playlist.queue # << >> /\ playlist.current = NoTrack
           /\ playlist' = SelectedNext(playlist)
  BY <1>9, SameEnds DEF Playlist!Next, Playlist!SelectNext
<1>10. CASE \E mode \in LoopModes : playlist' = LoopSet(playlist, mode)
  BY <1>10, SameEdits DEF Playlist!Next, Playlist!SetLoop
<1>11. CASE playlist' \in Shuffled(playlist)
  BY <1>11, SameEdits DEF Playlist!Next, Playlist!Shuffle
<1>12. CASE playlist' = Cleared(playlist)
  BY <1>12, SameEdits DEF Playlist!Next, Playlist!Clear
<1>13. CASE \E request \in Requests, placement \in Placements :
          HasRoomFor(playlist, request) /\ playlist' = Enqueued(playlist, request, placement)
  BY <1>13, SameEnqueue, SameEdits DEF Playlist!Next, Playlist!Enqueue
<1> QED
  BY <1>1, <1>2, <1>3, <1>4, <1>5, <1>6, <1>7, <1>8, <1>9, <1>10, <1>11, <1>12, <1>13
  DEF PlaylistStep

LEMMA UserPlaylistStep == ASSUME Inv, UserStep PROVE PlaylistStep
<1>1. playlist.loop \in LoopModes
  BY DEF Inv, CoreTypes, Shaped
<1>2. CASE \E channel \in Channels : Connect(channel)
  BY <1>2 DEF Connect, PlaylistStep
<1>3. CASE \E request \in Requests, placement \in Placements : Enqueue(request, placement)
  BY <1>3 DEF Enqueue, PlaylistStep
<1>4. CASE Pause \/ Resume \/ Toggle247
  BY <1>4 DEF Pause, Resume, Toggle247, PlaylistStep
<1>5. CASE Skip \/ Previous
  BY <1>5 DEF Skip, Previous, Restart, PlaylistStep
<1>6. CASE Loop \/ SetLoop
  <2>1. \E mode \in LoopModes : playlist' = LoopSet(playlist, mode)
    BY <1>1, <1>6, NextLoopIsMode DEF Loop, SetLoop, Edit
  <2> QED
    BY <2>1 DEF PlaylistStep
<1>7. CASE Shuffle \/ Clear
  BY <1>7 DEF Shuffle, Clear, Edit, PlaylistStep
<1>8. CASE Stop
  BY <1>8 DEF Stop, StopAll, PlaylistStep
<1> QED
  BY <1>2, <1>3, <1>4, <1>5, <1>6, <1>7, <1>8 DEF UserStep

LEMMA DiscordPlaylistStep == ASSUME DiscordStep PROVE PlaylistStep
BY DEF DiscordStep, BotMoved, BotSeen, BotSeenRecovering, BotDisconnected, ChannelDeleted,
       InactivityTimeout, ConnectionLost, StopAll, PlaylistStep

LEMMA StarterPlaylistStep ==
    ASSUME Inv, NEW w \in Workers, StarterStep(w) PROVE PlaylistStep
<1>1. CASE StarterSelects(w)
  <2>1. playlist.current = NoTrack
    BY <1>1 DEF StarterSelects, Inv, NothingCurrentYet, Waiting
  <2> QED
    BY <1>1, <2>1 DEF StarterSelects, PlaylistStep
<1>2. CASE StarterFetched(w)
  BY <1>2 DEF StarterFetched, PlaylistStep
<1>3. CASE \E unusable \in BOOLEAN : StartFails(w, unusable)
  BY <1>3 DEF StartFails, PlaylistStep
<1>4. CASE StarterEnters(w) \/ StreamStarts(w) \/ StaleStartFails(w) \/ StarterCommits(w)
           \/ StarterDiscards(w)
  BY <1>4 DEF StarterEnters, StreamStarts, StaleStartFails, StarterCommits, StarterDiscards,
              PlaylistStep
<1> QED
  BY <1>1, <1>2, <1>3, <1>4 DEF StarterStep

LEMMA StreamPlaylistStep == ASSUME StreamStep \/ PrefetchEnds PROVE PlaylistStep
<1>1. CASE \E st \in streams, replay \in BOOLEAN : StreamEnds(st, replay)
  BY <1>1 DEF StreamEnds, PlaylistStep
<1>2. CASE \E st \in streams : StreamLosesVoice(st) \/ StallRestarts(st) \/ StallExhausts(st)
  BY <1>2 DEF StreamLosesVoice, StallRestarts, StallExhausts, PlaylistStep
<1>3. CASE PrefetchEnds
  BY <1>3 DEF PrefetchEnds, PlaylistStep
<1> QED
  BY <1>1, <1>2, <1>3 DEF StreamStep

LEMMA VoicePlaylistStep ==
    ASSUME \/ \E kind \in JoinKinds : JoinStep(kind)
           \/ ConnectStep \/ RecoveryStep \/ MoveStep \/ LossStep \/ LossTearsDown
    PROVE  PlaylistStep
<1>1. CASE \E kind \in JoinKinds : JoinStep(kind)
  BY <1>1 DEF JoinStep, JoinBegins, JoinSucceeds, JoinFails, JoinStarts, JoinEnds, PlaylistStep
<1>2. CASE ConnectStep
  BY <1>2 DEF ConnectStep, ConnectFails, ConnectCommits, PlaylistStep
<1>3. CASE RecoveryStep
  BY <1>3 DEF RecoveryStep, RecoveryWaited, RecoveryEnds, PlaylistStep
<1>4. CASE MoveStep
  BY <1>4 DEF MoveStep, MoveEnds, PlaylistStep
<1>5. CASE LossStep \/ LossTearsDown
  BY <1>5 DEF LossStep, LossIgnored, LossBegins, LossTearsDown, PlaylistStep
<1> QED
  BY <1>1, <1>2, <1>3, <1>4, <1>5

\* Whatever goroutines, commands and voice events do, in any interleaving, the session's
\* playlist changes only by the operations of queue.go, one at a time, and no track is
\* selected over one that is current.
THEOREM SessionImplementsPlaylist ==
    ASSUME "botMovedRecovering" \notin Operations PROVE Spec => ImplementsPlaylist
<1>1. Init => Playlist!Init
  BY DEF Init, EmptyPlaylist, Playlist!Init, Playlist!EmptyPlaylist
<1>2. Inv /\ [Next]_vars => [Playlist!Next]_playlist
  <2> SUFFICES ASSUME Inv, [Next]_vars PROVE PlaylistStep
    BY PlaylistStepImplements
  <2>1. CASE Kick \/ ExhaustionCleanup
    BY <2>1 DEF Kick, ExhaustionCleanup, PlaylistStep
  <2>2. CASE UNCHANGED vars
    BY <2>2 DEF vars, PlaylistStep
  <2> QED
    BY <2>1, <2>2, UserPlaylistStep, DiscordPlaylistStep, StarterPlaylistStep,
       StreamPlaylistStep, VoicePlaylistStep DEF Next
<1> QED
  BY <1>1, <1>2, InvAlways, PTL DEF Spec, ImplementsPlaylist, Playlist!Spec

-----------------------------------------------------------------------------
(***************************************************************************)
(* Streams and connections: no stream and no voice connection is left      *)
(* without somebody to end it, and the session's playback is its current   *)
(* one.  This holds also when the bot is moved during a recovery, where    *)
(* two workers may start tracks at once.                                   *)
(***************************************************************************)

-----------------------------------------------------------------------------
(* The inductive invariant.                                                *)

StreamTypes ==
    /\ CoreTypes
    /\ open \subseteq Conns
    /\ streams \subseteq StreamStates
    /\ exhaustion \in Nat
    /\ teardown \in Nat

\* What a goroutine or a timer captured lies in the past.
EpochsPast ==
    /\ exhaustion <= session.epoch
    /\ teardown <= session.epoch
    /\ \A j \in joins : j.epoch <= session.epoch
    /\ \A w \in Workers : Starting(w) => starter[w].epoch <= session.epoch

GenerationsPast ==
    /\ \A w \in Workers : Starting(w) => starter[w].generation \in 1 .. session.generation
    /\ \A st \in streams : st.generation \in 1 .. session.generation

\* A generation is one attempt's and becomes one stream; the attempt that is
\* current replaces no playback.
OneStreamEach ==
    /\ \A v, w \in Workers :
          Starting(v) /\ Starting(w) /\ starter[v].generation = starter[w].generation => v = w
    /\ \A st, other \in streams : st.generation = other.generation => st = other
    /\ \A w \in Workers, st \in streams :
          starter[w].pc = "start" => st.generation # starter[w].generation
    /\ \A w \in Workers :
          Starting(w) /\ starter[w].generation = session.generation
              => session.playback = NoStream

\* The session holds no connection and no stream, and no attempt will give it one.
Quiet ==
    /\ session.voice = NoConn
    /\ session.playback = NoStream
    /\ \A w \in Workers : Starting(w) => starter[w].epoch # session.epoch

ValidMove(j) ==
    j.kind = "move" /\ j.epoch = session.epoch /\ session.moveTarget = j.channel

TearingDown == teardown # 0 /\ teardown = session.epoch

\* Between letting go of a connection and the step that gets another or ends.
Away ==
    \/ session.phase = "recovering"
    \/ session.stopping
    \/ TearingDown
    \/ \E j \in joins : ValidMove(j)

AwayIsQuiet == Away => Quiet

\* Who brings the session back from there excludes the others.
OneWayBack ==
    /\ exhaustion # 0 /\ exhaustion = session.epoch => session.stopping
    /\ TearingDown => \A j \in joins : j.epoch = session.epoch => j.kind = "connect"
    /\ \A j \in joins : ValidMove(j) => session.phase # "recovering"

JoinsHold == \A j \in joins : j.conn # NoConn => j.pc = "joined"

StreamPart == GenerationsPast /\ OneStreamEach /\ NoOrphanStream /\ PlaybackIsCurrent
VoicePart  == EpochsPast /\ AwayIsQuiet /\ OneWayBack /\ JoinsHold /\ NoOrphanConnection

StreamInv == StreamTypes /\ StreamPart /\ VoicePart

\* The two interleavings that RadioSession admits by name only.
Excluded == {"connectDuringMove", "slowTeardown"}

LEMMA InitStreamInv == Init => StreamInv
<1> SUFFICES ASSUME Init PROVE StreamInv
  OBVIOUS
<1>1. CoreTypes
  BY InitInv DEF Inv
<1>2. \A w \in Workers : starter[w].pc = "idle"
  BY DEF Init, IdleWorker
<1>3. /\ session.phase = "idle" /\ session.stopping = FALSE /\ session.epoch = 1
      /\ session.playback = NoStream
  BY DEF Init
<1>4. /\ open = {} /\ streams = {} /\ joins = {} /\ exhaustion = 0 /\ teardown = 0
  BY DEF Init
<1>5. StreamTypes
  BY <1>1, <1>4 DEF StreamTypes
<1>6. StreamPart
  BY <1>2, <1>3, <1>4
  DEF StreamPart, GenerationsPast, OneStreamEach, NoOrphanStream, PlaybackIsCurrent, Starting
<1>7. VoicePart
  BY <1>2, <1>3, <1>4
  DEF VoicePart, EpochsPast, AwayIsQuiet, Away, TearingDown, OneWayBack, JoinsHold,
      NoOrphanConnection, Starting
<1> QED
  BY <1>5, <1>6, <1>7 DEF StreamInv

-----------------------------------------------------------------------------
(* What the helpers do to the fields that the invariant looks into.        *)

LEMMA DetachedFields ==
    ASSUME NEW s \in Sessions
    PROVE  /\ Detached(s) \in Sessions
           /\ Detached(s).playback = NoStream /\ Detached(s).voice = s.voice
           /\ Detached(s).epoch = s.epoch /\ Detached(s).generation = s.generation
           /\ Detached(s).stopping = s.stopping /\ Detached(s).moveTarget = s.moveTarget
BY DEF Detached, NoStream, Sessions

LEMMA NextGenerationFields ==
    ASSUME NEW s \in Sessions
    PROVE  /\ NextGeneration(s) \in Sessions
           /\ NextGeneration(s).playback = s.playback /\ NextGeneration(s).voice = s.voice
           /\ NextGeneration(s).epoch = s.epoch
           /\ NextGeneration(s).generation = s.generation + 1
           /\ NextGeneration(s).phase = s.phase /\ NextGeneration(s).starting = s.starting
           /\ NextGeneration(s).stopping = s.stopping
           /\ NextGeneration(s).moveTarget = s.moveTarget
BY DEF NextGeneration, Sessions

LEMMA NextEpochFields ==
    ASSUME NEW s \in Sessions
    PROVE  /\ NextEpoch(s) \in Sessions
           /\ NextEpoch(s).playback = s.playback /\ NextEpoch(s).voice = s.voice
           /\ NextEpoch(s).epoch = s.epoch + 1
           /\ NextEpoch(s).generation = s.generation
           /\ NextEpoch(s).stopping = s.stopping
           /\ NextEpoch(s).moveTarget = s.moveTarget
BY DEF NextEpoch, Sessions

LEMMA BegunFields ==
    ASSUME NEW s \in Sessions
    PROVE  /\ BegunStopping(s) \in Sessions
           /\ BegunStopping(s).epoch = s.epoch + 1
           /\ BegunStopping(s).generation = s.generation + 1
           /\ BegunStopping(s).stopping
           /\ BegunStopping(s).phase = "stopping"
           /\ BegunStopping(s).moveTarget = s.moveTarget
<1> DEFINE t == NextGeneration(NextEpoch(s))
<1>1. /\ t \in Sessions /\ t.epoch = s.epoch + 1 /\ t.generation = s.generation + 1
      /\ t.moveTarget = s.moveTarget
  BY NextEpochFields, NextGenerationFields
<1>2. BegunStopping(s) = [t EXCEPT !.phase = "stopping", !.stopping = TRUE]
  BY DEF BegunStopping
<1> HIDE DEF t
<1> QED
  BY <1>1, <1>2 DEF Sessions, Phases

LEMMA FinishedFields ==
    ASSUME NEW s \in Sessions
    PROVE  /\ FinishedStopping(s) \in Sessions
           /\ FinishedStopping(s).epoch = s.epoch
           /\ FinishedStopping(s).generation = s.generation
           /\ FinishedStopping(s).playback = NoStream
           /\ FinishedStopping(s).voice = NoConn
           /\ FinishedStopping(s).phase = "idle"
           /\ FinishedStopping(s).stopping = FALSE
           /\ FinishedStopping(s).moveTarget = NoChannel
<1> DEFINE t == Detached(s)
<1>1. /\ t \in Sessions /\ t.epoch = s.epoch /\ t.generation = s.generation
      /\ t.playback = NoStream
  BY DetachedFields
<1> HIDE DEF t
<1> DEFINE u == [t EXCEPT !.channel = NoChannel, !.voice = NoConn, !.phase = "idle"]
<1>2. /\ u \in Sessions /\ u.epoch = s.epoch /\ u.generation = s.generation
      /\ u.playback = NoStream /\ u.voice = NoConn /\ u.phase = "idle"
  BY <1>1 DEF Sessions, Phases
<1>3. FinishedStopping(s) =
        [u EXCEPT !.stopping = FALSE, !.is247 = FALSE, !.transition = FALSE,
                  !.moveTarget = NoChannel]
  BY DEF FinishedStopping, t
<1> HIDE DEF u
<1> QED
  BY <1>2, <1>3 DEF Sessions

LEMMA StoppedFields ==
    ASSUME NEW s \in Sessions
    PROVE  LET t == FinishedStopping(BegunStopping(s)) IN
           /\ t \in Sessions
           /\ t.epoch = s.epoch + 1 /\ t.generation = s.generation + 1
           /\ t.playback = NoStream /\ t.voice = NoConn /\ t.phase = "idle"
           /\ t.stopping = FALSE /\ t.moveTarget = NoChannel
BY BegunFields, FinishedFields

\* Stopping a stream marks it and leaves one stream to a generation.
LEMMA StopStreamStops ==
    ASSUME streams \subseteq StreamStates, NEW g
    PROVE  /\ StopStream(g) \subseteq StreamStates
           /\ \A st \in StopStream(g) :
                 \E old \in streams :
                    /\ st.generation = old.generation
                    /\ st = IF old.generation = g THEN [old EXCEPT !.stopped = TRUE] ELSE old
           /\ \A st \in StopStream(g) : st.generation = g => st.stopped
BY DEF StopStream, StreamStates
-----------------------------------------------------------------------------
(* Steps, by what they do to the streams.                                  *)

\* No attempt appears, one that holds a stream keeps it, and the others may end.
Kept(b, a) ==
    \A w \in Workers :
        b[w].pc \in {"start", "commit"} \/ a[w].pc = "commit" =>
            /\ b[w].pc = a[w].pc
            /\ b[w].epoch = a[w].epoch
            /\ b[w].generation = a[w].generation

LEMMA SameIsKept ==
    ASSUME NEW a, NEW b, SameWorkers(b, a)
    PROVE  Kept(b, a)
BY DEF SameWorkers, Kept

\* A step that leaves the playback as it is.
LEMMA PlaybackKept ==
    ASSUME StreamTypes, StreamPart, Kept(starter', starter), streams' = streams,
           session'.generation = session.generation,
           session'.playback = session.playback,
           session.playback # NoStream =>
               /\ playlist'.current = playlist.current
               /\ session'.phase = session.phase
                     \/ {session.phase, session'.phase} \subseteq {"playing", "paused"}
               /\ session'.starting = session.starting \/ ~session'.starting
    PROVE  StreamPart'
<1>1. GenerationsPast' /\ OneStreamEach'
  BY DEF StreamPart, GenerationsPast, OneStreamEach, Kept, Starting
<1>2. NoOrphanStream'
  BY DEF StreamPart, NoOrphanStream, Held, Kept
<1>3. PlaybackIsCurrent'
  BY DEF StreamPart, PlaybackIsCurrent
<1> QED
  BY <1>1, <1>2, <1>3 DEF StreamPart

\* A step that takes the stream away from the session and stops it.
LEMMA PlaybackDetached ==
    ASSUME StreamTypes, StreamPart, Kept(starter', starter), session' \in Sessions,
           streams' = StopStream(session.playback),
           session'.generation >= session.generation,
           session'.playback = NoStream
    PROVE  StreamPart'
<1>1. /\ session.generation \in Nat /\ session'.generation \in Nat
      /\ starter \in [Workers -> WorkerStates]
  BY DEF StreamTypes, CoreTypes, Sessions
<1>2. /\ streams' \subseteq StreamStates
      /\ \A st \in streams' :
            \E old \in streams :
               /\ st.generation = old.generation
               /\ st = IF old.generation = session.playback
                       THEN [old EXCEPT !.stopped = TRUE] ELSE old
      /\ \A st \in streams' : st.generation = session.playback => st.stopped
  BY StopStreamStops DEF StreamTypes
<1>3. GenerationsPast'
  <2>1. \A w \in Workers : Starting(w)' => starter'[w].generation \in 1 .. session'.generation
    BY <1>1 DEF StreamPart, GenerationsPast, Kept, Starting
  <2>2. \A st \in streams' : st.generation \in 1 .. session'.generation
    BY <1>1, <1>2 DEF StreamPart, GenerationsPast
  <2> QED
    BY <2>1, <2>2 DEF GenerationsPast
<1>4. OneStreamEach'
  <2>1. \A v, w \in Workers :
          Starting(v)' /\ Starting(w)' /\ starter'[v].generation = starter'[w].generation
              => v = w
    BY DEF StreamPart, OneStreamEach, Kept, Starting
  <2>2. \A st, other \in streams' : st.generation = other.generation => st = other
    <3> SUFFICES ASSUME NEW st \in streams', NEW other \in streams',
                        st.generation = other.generation
                 PROVE  st = other
      OBVIOUS
    <3>1. PICK old \in streams :
             /\ st.generation = old.generation
             /\ st = IF old.generation = session.playback
                     THEN [old EXCEPT !.stopped = TRUE] ELSE old
      BY <1>2
    <3>2. PICK older \in streams :
             /\ other.generation = older.generation
             /\ other = IF older.generation = session.playback
                        THEN [older EXCEPT !.stopped = TRUE] ELSE older
      BY <1>2
    <3>3. old = older
      BY <3>1, <3>2 DEF StreamPart, OneStreamEach
    <3> QED
      BY <3>1, <3>2, <3>3
  <2>3. \A w \in Workers, st \in streams' :
          starter'[w].pc = "start" => st.generation # starter'[w].generation
    BY <1>2 DEF StreamPart, OneStreamEach, Kept
  <2> QED
    BY <2>1, <2>2, <2>3 DEF OneStreamEach
<1>5. NoOrphanStream'
  <2> SUFFICES ASSUME NEW st \in streams' PROVE st.stopped \/ Held(st)'
    BY DEF NoOrphanStream
  <2>1. CASE st.generation = session.playback
    BY <1>2, <2>1
  <2>2. CASE st.generation # session.playback
    <3>1. st \in streams
      BY <1>2, <2>2
    <3>2. st.stopped \/ Held(st)
      BY <2>2, <3>1 DEF StreamPart, NoOrphanStream
    <3> QED
      BY <3>2 DEF Held, Kept
  <2> QED
    BY <2>1, <2>2
<1>6. PlaybackIsCurrent'
  BY DEF PlaybackIsCurrent
<1> QED
  BY <1>3, <1>4, <1>5, <1>6 DEF StreamPart

\* The same where the session had none to take away.
LEMMA NothingPlayed ==
    ASSUME StreamTypes, StreamPart, Kept(starter', starter), session' \in Sessions,
           streams' = streams, session.playback = NoStream,
           session'.generation >= session.generation,
           session'.playback = NoStream
    PROVE  StreamPart'
<1>1. \A st \in streams : st.generation # NoStream
  BY DEF StreamPart, GenerationsPast, NoStream
<1>2. StopStream(session.playback) = streams
  BY <1>1 DEF StopStream
<1> QED
  BY <1>2, PlaybackDetached

-----------------------------------------------------------------------------
(* Steps, by what they do to the connections.                              *)

\* No attempt appears or changes its epoch.
NoNewStarts(b, a) ==
    \A w \in Workers :
        b[w].pc \in {"start", "commit"} =>
            a[w].pc \in {"start", "commit"} /\ b[w].epoch = a[w].epoch

LEMMA KeptIsNoNew ==
    ASSUME NEW a, NEW b, Kept(b, a)
    PROVE  NoNewStarts(b, a)
BY DEF Kept, NoNewStarts

\* Each of the joins `b` is one of `a` that moved on, or one of Connect that begins.
JoinsGoOn(b, a) ==
    \A j \in b :
        \/ \E i \in a : j.kind = i.kind /\ j.epoch = i.epoch /\ j.channel = i.channel
        \/ j.kind = "connect" /\ j.epoch = session.epoch

\* A step within an epoch that takes no connection over and goes nowhere.
LEMMA VoiceKept ==
    ASSUME StreamTypes, VoicePart, session' \in Sessions, joins' \subseteq JoinStates,
           session'.epoch = session.epoch,
           session'.voice \in {session.voice, NoConn},
           session'.playback \in {session.playback, NoStream},
           session'.stopping => session.stopping,
           session'.phase = "recovering" => session.phase = "recovering",
           session'.moveTarget \in {session.moveTarget, NoChannel},
           teardown' \in {teardown, 0},
           \/ exhaustion' = 0
           \/ exhaustion' = exhaustion /\ session'.stopping = session.stopping,
           NoNewStarts(starter', starter),
           JoinsGoOn(joins', joins),
           JoinsHold', NoOrphanConnection'
    PROVE  VoicePart'
<1>1. session.epoch \in Nat /\ \A j \in joins' : j.channel # NoChannel
  BY SessionAssumption DEF StreamTypes, CoreTypes, Sessions, JoinStates
<1>2. EpochsPast'
  <2>1. exhaustion' <= session'.epoch /\ teardown' <= session'.epoch
    BY <1>1 DEF VoicePart, EpochsPast
  <2>2. \A j \in joins' : j.epoch <= session'.epoch
    BY <1>1 DEF VoicePart, EpochsPast, JoinsGoOn
  <2>3. \A w \in Workers : Starting(w)' => starter'[w].epoch <= session'.epoch
    BY DEF VoicePart, EpochsPast, NoNewStarts, Starting
  <2> QED
    BY <2>1, <2>2, <2>3 DEF EpochsPast
<1>3. \A j \in joins' : ValidMove(j)' => \E i \in joins : ValidMove(i)
  BY <1>1 DEF ValidMove, JoinsGoOn
<1>4. AwayIsQuiet'
  <2>1. Away' => Away
    BY <1>3 DEF Away, TearingDown
  <2>2. Quiet => Quiet'
    BY DEF Quiet, NoNewStarts, Starting
  <2> QED
    BY <2>1, <2>2 DEF VoicePart, AwayIsQuiet
<1>5. OneWayBack'
  <2>1. exhaustion' # 0 /\ exhaustion' = session'.epoch => session'.stopping
    BY DEF VoicePart, OneWayBack
  <2>2. TearingDown' => \A j \in joins' : j.epoch = session'.epoch => j.kind = "connect"
    BY DEF VoicePart, OneWayBack, TearingDown, JoinsGoOn
  <2>3. \A j \in joins' : ValidMove(j)' => session'.phase # "recovering"
    BY <1>3 DEF VoicePart, OneWayBack
  <2> QED
    BY <2>1, <2>2, <2>3 DEF OneWayBack
<1> QED
  BY <1>2, <1>4, <1>5 DEF VoicePart

\* A step into a new epoch that leaves the session without connection and stream.
LEMMA VoiceEnded ==
    ASSUME StreamTypes, VoicePart, session' \in Sessions,
           session'.epoch = session.epoch + 1,
           session'.voice = NoConn, session'.playback = NoStream,
           NoNewStarts(starter', starter),
           \/ exhaustion' = exhaustion
           \/ exhaustion' = session'.epoch /\ session'.stopping,
           teardown' \in {teardown, 0, session'.epoch},
           \A j \in joins' : j \in joins \/ j.epoch <= session'.epoch,
           TearingDown' => \A j \in joins' : j.epoch = session'.epoch => j.kind = "connect",
           \A j \in joins' : ValidMove(j)' => session'.phase # "recovering",
           JoinsHold', NoOrphanConnection'
    PROVE  VoicePart'
<1>1. /\ session.epoch \in Nat /\ session'.epoch \in Nat
      /\ \A w \in Workers : starter[w].epoch \in Nat
      /\ \A j \in joins : j.epoch \in Nat
  BY DEF StreamTypes, CoreTypes, Sessions, WorkerStates, JoinStates
<1>2. EpochsPast'
  <2>1. exhaustion' <= session'.epoch /\ teardown' <= session'.epoch
    BY <1>1 DEF VoicePart, EpochsPast, StreamTypes
  <2>2. \A j \in joins' : j.epoch <= session'.epoch
    <3>1. \A i \in joins : i.epoch <= session'.epoch
      BY <1>1 DEF VoicePart, EpochsPast
    <3> QED
      BY <3>1
  <2>3. \A w \in Workers : Starting(w)' => starter'[w].epoch <= session'.epoch
    BY <1>1 DEF VoicePart, EpochsPast, NoNewStarts, Starting
  <2> QED
    BY <2>1, <2>2, <2>3 DEF EpochsPast
<1>3. Quiet'
  BY <1>1 DEF Quiet, VoicePart, EpochsPast, NoNewStarts, Starting
<1>4. OneWayBack'
  <2>1. exhaustion' # 0 /\ exhaustion' = session'.epoch => session'.stopping
    BY <1>1 DEF VoicePart, EpochsPast, StreamTypes
  <2> QED
    BY <2>1 DEF OneWayBack
<1> QED
  BY <1>2, <1>3, <1>4 DEF VoicePart, AwayIsQuiet

\* A step to, or of, a session that is not away.
LEMMA VoicePresent ==
    ASSUME StreamTypes, VoicePart, session' \in Sessions, ~Away',
           session'.epoch >= session.epoch,
           UNCHANGED <<exhaustion, teardown>>,
           exhaustion = 0 \/ exhaustion # session'.epoch,
           \A w \in Workers : Starting(w)' => starter'[w].epoch <= session'.epoch,
           \A j \in joins' : \E i \in joins : j.epoch = i.epoch,
           JoinsHold', NoOrphanConnection'
    PROVE  VoicePart'
<1>1. /\ session.epoch \in Nat /\ session'.epoch \in Nat /\ exhaustion \in Nat /\ teardown \in Nat
      /\ \A j \in joins : j.epoch \in Nat
  BY DEF StreamTypes, CoreTypes, Sessions, JoinStates
<1>2. EpochsPast'
  <2>1. exhaustion' <= session'.epoch /\ teardown' <= session'.epoch
    BY <1>1 DEF VoicePart, EpochsPast
  <2>2. \A j \in joins' : j.epoch <= session'.epoch
    <3>1. \A i \in joins : i.epoch <= session'.epoch
      BY <1>1 DEF VoicePart, EpochsPast
    <3> QED
      BY <3>1
  <2> QED
    BY <2>1, <2>2 DEF EpochsPast
<1>3. OneWayBack'
  BY DEF OneWayBack, Away
<1> QED
  BY <1>2, <1>3 DEF VoicePart, AwayIsQuiet

\* Joins that stay as they are hold what they held.
LEMMA JoinsStay ==
    ASSUME VoicePart, joins' = joins
    PROVE  JoinsGoOn(joins', joins) /\ JoinsHold'
BY DEF JoinsGoOn, VoicePart, JoinsHold

-----------------------------------------------------------------------------
(* Joins that move on.                                                     *)

LEMMA AdvancedFields ==
    ASSUME NEW j \in JoinStates, NEW pc \in JoinPcs
    PROVE  /\ [j EXCEPT !.pc = pc] \in JoinStates
           /\ [j EXCEPT !.pc = pc].kind = j.kind
           /\ [j EXCEPT !.pc = pc].epoch = j.epoch
           /\ [j EXCEPT !.pc = pc].channel = j.channel
           /\ [j EXCEPT !.pc = pc].conn = j.conn
BY DEF JoinStates, JoinPcs

\* Every join of `b` is one of `a` that moved on.
JoinsFrom(b, a) ==
    \A j \in b :
        \E i \in a : j.kind = i.kind /\ j.epoch = i.epoch /\ j.channel = i.channel

LEMMA JoinReplaced ==
    ASSUME StreamTypes, VoicePart, NEW j \in joins, NEW k \in JoinStates,
           k.kind = j.kind, k.epoch = j.epoch, k.channel = j.channel,
           k.conn # NoConn => k.pc = "joined",
           joins' = (joins \ {j}) \cup {k},
           \A conn \in open' :
              \/ conn \in {session'.voice, k.conn}
              \/ conn \in open \ {session.voice, j.conn}
    PROVE  /\ joins' \subseteq JoinStates /\ JoinsFrom(joins', joins)
           /\ JoinsHold' /\ NoOrphanConnection'
<1>1. joins' \subseteq JoinStates /\ JoinsFrom(joins', joins)
  BY DEF StreamTypes, CoreTypes, JoinsFrom
<1>2. JoinsHold'
  BY DEF VoicePart, JoinsHold
<1>3. NoOrphanConnection'
  <2> SUFFICES ASSUME NEW conn \in open', conn \in open \ {session.voice, j.conn}
               PROVE  \E i \in joins' : conn = i.conn
    BY DEF NoOrphanConnection
  <2>1. PICK i \in joins : conn = i.conn
    BY DEF VoicePart, NoOrphanConnection
  <2> QED
    BY <2>1
<1> QED
  BY <1>1, <1>2, <1>3

LEMMA JoinRemoved ==
    ASSUME StreamTypes, VoicePart, NEW j \in joins, joins' = joins \ {j},
           \A conn \in open' :
              conn = session'.voice \/ conn \in open \ {session.voice, j.conn}
    PROVE  /\ joins' \subseteq JoinStates /\ JoinsFrom(joins', joins)
           /\ JoinsHold' /\ NoOrphanConnection'
<1>1. joins' \subseteq JoinStates /\ JoinsFrom(joins', joins)
  BY DEF StreamTypes, CoreTypes, JoinsFrom
<1>2. JoinsHold'
  BY DEF VoicePart, JoinsHold
<1>3. NoOrphanConnection'
  <2> SUFFICES ASSUME NEW conn \in open', conn \in open \ {session.voice, j.conn}
               PROVE  \E i \in joins' : conn = i.conn
    BY DEF NoOrphanConnection
  <2>1. PICK i \in joins : conn = i.conn
    BY DEF VoicePart, NoOrphanConnection
  <2> QED
    BY <2>1
<1> QED
  BY <1>1, <1>2, <1>3

-----------------------------------------------------------------------------
(* Whole steps.                                                            *)

\* A step that leaves the joins alone, and of the session what the invariant is
\* about, but for a phase or playbackStarting that changes while nothing plays.
LEMMA KeptStep ==
    ASSUME StreamInv, session' \in Sessions,
           session'.epoch = session.epoch, session'.generation = session.generation,
           session'.playback = session.playback, session'.voice = session.voice,
           session'.stopping = session.stopping,
           session'.moveTarget = session.moveTarget,
           session'.phase = "recovering" => session.phase = "recovering",
           Shaped(playlist'),
           session.playback # NoStream =>
               /\ playlist'.current = playlist.current
               /\ session'.phase = session.phase
                     \/ {session.phase, session'.phase} \subseteq {"playing", "paused"}
               /\ session'.starting = session.starting \/ ~session'.starting,
           starter' \in [Workers -> WorkerStates], Kept(starter', starter),
           streams' = streams, joins' = joins, open' \subseteq open,
           teardown' \in {teardown, 0}, exhaustion' \in {exhaustion, 0}
    PROVE  StreamInv'
<1>1. StreamTypes'
  BY DEF StreamInv, StreamTypes, CoreTypes
<1>2. StreamPart'
  BY PlaybackKept DEF StreamInv
<1>3. NoOrphanConnection'
  BY DEF StreamInv, VoicePart, NoOrphanConnection
<1>4. VoicePart'
  BY <1>1, <1>3, JoinsStay, KeptIsNoNew, VoiceKept DEF StreamInv, StreamTypes, CoreTypes
<1> QED
  BY <1>1, <1>2, <1>4 DEF StreamInv

\* A step within an epoch that detaches the stream and nothing else.
LEMMA DetachedStep ==
    ASSUME StreamInv, session' \in Sessions,
           session'.epoch = session.epoch, session'.generation >= session.generation,
           session'.playback = NoStream, session'.voice = session.voice,
           session'.stopping = session.stopping,
           session'.moveTarget = session.moveTarget,
           session'.phase # "recovering",
           Shaped(playlist'),
           starter' \in [Workers -> WorkerStates], Kept(starter', starter),
           streams' = StopStream(session.playback), joins' = joins,
           UNCHANGED <<open, teardown, exhaustion>>
    PROVE  StreamInv'
<1>1. StreamTypes'
  BY StopStreamStops DEF StreamInv, StreamTypes, CoreTypes
<1>2. StreamPart'
  BY PlaybackDetached DEF StreamInv
<1>3. NoOrphanConnection'
  BY DEF StreamInv, VoicePart, NoOrphanConnection
<1>4. VoicePart'
  BY <1>1, <1>3, JoinsStay, KeptIsNoNew, VoiceKept DEF StreamInv, StreamTypes, CoreTypes
<1> QED
  BY <1>1, <1>2, <1>4 DEF StreamInv

\* A step that ends everything the session has, stream and connection included.
LEMMA StoppedStep ==
    ASSUME StreamInv, session' = FinishedStopping(BegunStopping(session)),
           playlist' = Emptied(playlist), starter' = starter,
           \/ streams' = StopStream(session.playback)
           \/ streams' = streams /\ session.playback = NoStream,
           open' \subseteq open,
           joins' \subseteq JoinStates, JoinsFrom(joins', joins),
           JoinsHold', NoOrphanConnection',
           exhaustion' = exhaustion, teardown' \in {teardown, 0}
    PROVE  StreamInv'
<1>1. /\ session \in Sessions /\ session' \in Sessions
      /\ session'.epoch = session.epoch + 1
      /\ session'.generation = session.generation + 1
      /\ session'.playback = NoStream /\ session'.voice = NoConn
      /\ session'.phase = "idle" /\ session'.stopping = FALSE
      /\ session'.moveTarget = NoChannel
  BY StoppedFields DEF StreamInv, StreamTypes, CoreTypes
<1>2. /\ session.epoch \in Nat /\ session.generation \in Nat /\ teardown \in Nat
      /\ Kept(starter', starter)
  BY <1>1 DEF Sessions, StreamInv, StreamTypes, Kept
<1>3. StreamTypes'
  <2>1. streams' \subseteq StreamStates
    BY StopStreamStops DEF StreamInv, StreamTypes
  <2>2. Shaped(playlist')
    BY EmptiedShaped DEF StreamInv, StreamTypes, CoreTypes
  <2> QED
    BY <1>1, <2>1, <2>2 DEF StreamInv, StreamTypes, CoreTypes
<1>4. StreamPart'
  <2>1. session'.generation >= session.generation
    BY <1>1, <1>2
  <2> QED
    BY <1>1, <1>2, <2>1, PlaybackDetached, NothingPlayed DEF StreamInv
<1>5. VoicePart'
  <2>1. \A j \in joins' : j.epoch <= session'.epoch /\ ~ValidMove(j)'
    <3>1. \A j \in joins : j.epoch \in Nat /\ j.epoch <= session.epoch
      BY DEF StreamInv, StreamTypes, CoreTypes, JoinStates, VoicePart, EpochsPast
    <3>2. \A j \in joins' : j.epoch <= session'.epoch
      BY <1>1, <1>2, <3>1 DEF JoinsFrom
    <3>3. \A j \in joins' : j.channel # NoChannel
      BY SessionAssumption DEF JoinStates
    <3> QED
      BY <1>1, <3>2, <3>3 DEF ValidMove
  <2>2. ~TearingDown'
    BY <1>1, <1>2 DEF TearingDown, StreamInv, VoicePart, EpochsPast
  <2> QED
    BY <1>1, <1>2, <2>1, <2>2, KeptIsNoNew, VoiceEnded DEF StreamInv
<1> QED
  BY <1>3, <1>4, <1>5 DEF StreamInv

-----------------------------------------------------------------------------
(* Commands, and what users and Discord do to a session that stays.        *)

LEMMA StreamInvTypes ==
    ASSUME StreamInv
    PROVE  /\ session \in Sessions /\ Shaped(playlist)
           /\ starter \in [Workers -> WorkerStates] /\ joins \subseteq JoinStates
           /\ session.epoch \in Nat /\ session.generation \in Nat
           /\ Kept(starter, starter)
BY DEF StreamInv, StreamTypes, CoreTypes, Sessions, Kept

\* startNext changes nothing while something plays.
LEMMA StartNextFields ==
    ASSUME StreamInv, StartNext
    PROVE  /\ session' \in Sessions
           /\ session'.epoch = session.epoch /\ session'.generation = session.generation
           /\ session'.playback = session.playback /\ session'.voice = session.voice
           /\ session'.stopping = session.stopping
           /\ session'.moveTarget = session.moveTarget
           /\ session'.phase \in {session.phase, "loading"}
           /\ session.playback # NoStream => session' = session
           /\ starter' \in [Workers -> WorkerStates] /\ Kept(starter', starter)
<1>1. session \in Sessions /\ starter \in [Workers -> WorkerStates]
  BY StreamInvTypes
<1>2. CASE UNCHANGED <<session, starter>>
  BY <1>1, <1>2 DEF Kept
<1>3. CASE CanStart(session) /\ session' = StartedLoading(session) /\ SpawnStarter
  <2> DEFINE u == CHOOSE v \in FreeWorkers : TRUE
  <2>1. u \in Workers /\ starter[u].pc = "idle"
        /\ starter' = [starter EXCEPT ![u] = [IdleWorker EXCEPT !.pc = "entry"]]
    BY <1>3 DEF SpawnStarter, FreeWorkers
  <2> HIDE DEF u
  <2>2. [IdleWorker EXCEPT !.pc = "entry"] \in WorkerStates
        /\ [IdleWorker EXCEPT !.pc = "entry"].pc = "entry"
    BY DEF IdleWorker, WorkerStates
  <2>3. starter' \in [Workers -> WorkerStates] /\ Kept(starter', starter)
    BY <1>1, <2>1, <2>2 DEF Kept
  <2> QED
    BY <1>1, <1>3, <2>3 DEF CanStart, StartedLoading, Sessions, Phases
<1> QED
  BY <1>2, <1>3 DEF StartNext

LEMMA KickStream == ASSUME StreamInv, Kick PROVE StreamInv'
<1>1. StartNext /\ UNCHANGED <<playlist, streams, joins, open, teardown, exhaustion>>
  BY DEF Kick, voiceVars, watchdogVars
<1> QED
  BY <1>1, StartNextFields, StreamInvTypes, KeptStep

LEMMA EnqueueStream ==
    ASSUME StreamInv, NEW request \in Requests, NEW placement \in Placements,
           Enqueue(request, placement)
    PROVE  StreamInv'
<1>1. /\ session' \in Sessions /\ session'.starting = session.starting
      /\ session'.epoch = session.epoch /\ session'.generation = session.generation
      /\ session'.playback = session.playback /\ session'.voice = session.voice
      /\ session'.stopping = session.stopping /\ session'.moveTarget = session.moveTarget
      /\ session'.phase = IF session.phase = "idle" THEN "loading" ELSE session.phase
  BY StreamInvTypes DEF Enqueue, Sessions, Phases
<1>2. Shaped(playlist') /\ playlist'.current = playlist.current
  BY EnqueuedShaped, StreamInvTypes DEF Enqueue
<1>3. starter' \in [Workers -> WorkerStates] /\ Kept(starter', starter)
  BY RevisedWorkers, SameIsKept, StreamInvTypes DEF Enqueue
<1>4. UNCHANGED <<streams, joins, open, teardown, exhaustion>>
  BY DEF Enqueue, voiceVars, watchdogVars
<1>5. session.playback # NoStream => session.phase # "idle"
  BY DEF StreamInv, StreamPart, PlaybackIsCurrent
<1> QED
  BY <1>1, <1>2, <1>3, <1>4, <1>5, KeptStep

LEMMA PhaseStream == ASSUME StreamInv, Pause \/ Resume \/ Toggle247 PROVE StreamInv'
<1>1. /\ session' \in Sessions /\ session'.starting = session.starting
      /\ session'.epoch = session.epoch /\ session'.generation = session.generation
      /\ session'.playback = session.playback /\ session'.voice = session.voice
      /\ session'.stopping = session.stopping /\ session'.moveTarget = session.moveTarget
      /\ \/ session'.phase = session.phase
         \/ {session.phase, session'.phase} \subseteq {"playing", "paused"}
  BY StreamInvTypes DEF Pause, Resume, Toggle247, Sessions, Phases
<1>2. UNCHANGED <<playlist, starter, streams, joins, open, teardown, exhaustion>>
  BY DEF Pause, Resume, Toggle247, voiceVars, playbackVars, watchdogVars
<1> QED
  BY <1>1, <1>2, StreamInvTypes, KeptStep

\* Steps that leave the session as it is.
LEMMA SessionSameStep ==
    ASSUME StreamInv, session' = session, Shaped(playlist'),
           playlist'.current = playlist.current,
           starter' \in [Workers -> WorkerStates], Kept(starter', starter),
           streams' = streams, joins' = joins, open' \subseteq open,
           teardown' \in {teardown, 0}, exhaustion' \in {exhaustion, 0}
    PROVE  StreamInv'
BY StreamInvTypes, KeptStep

LEMMA EditStream ==
    ASSUME StreamInv, NEW playlists, Edit(playlists),
           \A p \in playlists : Shaped(p) /\ p.current = playlist.current
    PROVE  StreamInv'
<1>1. starter' \in [Workers -> WorkerStates] /\ Kept(starter', starter)
  BY RevisedWorkers, SameIsKept, StreamInvTypes DEF Edit
<1>2. UNCHANGED <<session, streams, joins, open, teardown, exhaustion>>
  BY DEF Edit, voiceVars, watchdogVars
<1>3. Shaped(playlist') /\ playlist'.current = playlist.current
  BY DEF Edit
<1> QED
  BY <1>1, <1>2, <1>3, SessionSameStep

LEMMA EditsStream == ASSUME StreamInv, Loop \/ SetLoop \/ Shuffle \/ Clear PROVE StreamInv'
<1>1. Shaped(playlist) /\ playlist.loop \in LoopModes
  BY StreamInvTypes DEF Shaped
<1>2. CASE Loop
  <2>1. \A p \in {LoopSet(playlist, NextLoop(playlist.loop))} :
            Shaped(p) /\ p.current = playlist.current
    BY <1>1, LoopSetShaped, NextLoopIsMode
  <2> QED
    BY <1>2, <2>1, EditStream DEF Loop
<1>3. CASE SetLoop
  <2>1. \A p \in {LoopSet(playlist, m) : m \in LoopModes \ {playlist.loop}} :
            Shaped(p) /\ p.current = playlist.current
    BY <1>1, LoopSetShaped
  <2> QED
    BY <1>3, <2>1, EditStream DEF SetLoop
<1>4. CASE Shuffle
  <2>1. \A p \in Shuffled(playlist) : Shaped(p) /\ p.current = playlist.current
    BY <1>1, ShuffledShaped
  <2> QED
    BY <1>4, <2>1, EditStream DEF Shuffle
<1>5. CASE Clear
  <2>1. \A p \in {Cleared(playlist)} : Shaped(p) /\ p.current = playlist.current
    BY <1>1, ClearedShaped
  <2> QED
    BY <1>5, <2>1, EditStream DEF Clear
<1> QED
  BY <1>2, <1>3, <1>4, <1>5

LEMMA RestartStream ==
    ASSUME StreamInv, NEW p, Restart(p), Shaped(p)
    PROVE  StreamInv'
<1> DEFINE d == Detached(session)
           t == NextGeneration(d)
<1>1. /\ d \in Sessions /\ d.playback = NoStream /\ d.voice = session.voice
      /\ d.epoch = session.epoch /\ d.generation = session.generation
      /\ d.stopping = session.stopping /\ d.moveTarget = session.moveTarget
  BY DetachedFields, StreamInvTypes
<1>2. session' = [t EXCEPT !.phase = "loading"]
  BY DEF Restart
<1> HIDE DEF d
<1>3. /\ t \in Sessions /\ t.playback = NoStream /\ t.voice = session.voice
      /\ t.epoch = session.epoch /\ t.generation = session.generation + 1
      /\ t.stopping = session.stopping /\ t.moveTarget = session.moveTarget
  BY <1>1, NextGenerationFields
<1> HIDE DEF t
<1>4. /\ session' \in Sessions /\ session'.playback = NoStream
      /\ session'.voice = session.voice /\ session'.epoch = session.epoch
      /\ session'.generation >= session.generation
      /\ session'.stopping = session.stopping /\ session'.moveTarget = session.moveTarget
      /\ session'.phase # "recovering"
  BY <1>2, <1>3, StreamInvTypes DEF Sessions, Phases
<1>5. starter' \in [Workers -> WorkerStates] /\ Kept(starter', starter)
  BY RevisedWorkers, SameIsKept, StreamInvTypes DEF Restart
<1>6. /\ playlist' = p /\ streams' = StopStream(session.playback)
      /\ UNCHANGED <<joins, open, teardown, exhaustion>>
  BY DEF Restart, voiceVars, watchdogVars
<1> QED
  BY <1>4, <1>5, <1>6, DetachedStep

LEMMA SkipStream == ASSUME StreamInv, Skip \/ Previous PROVE StreamInv'
BY RestartStream, SkippedShaped, SelectedPreviousShaped, StreamInvTypes DEF Skip, Previous

LEMMA BotSeenStream ==
    ASSUME StreamInv, NEW channel \in Channels, BotSeen(channel) PROVE StreamInv'
<1>1. /\ session' \in Sessions /\ session'.starting = session.starting
      /\ session'.epoch = session.epoch /\ session'.generation = session.generation
      /\ session'.playback = session.playback /\ session'.voice = session.voice
      /\ session'.stopping = session.stopping /\ session'.moveTarget = session.moveTarget
      /\ session'.phase = session.phase
  BY StreamInvTypes DEF BotSeen, Sessions
<1>2. UNCHANGED <<playlist, starter, streams, joins, open, teardown, exhaustion>>
  BY DEF BotSeen, voiceVars, playbackVars, watchdogVars
<1> QED
  BY <1>1, <1>2, StreamInvTypes, KeptStep

LEMMA LossesStream ==
    ASSUME StreamInv,
           \/ BotDisconnected
           \/ \E conn \in Conns : ConnectionLost(conn)
           \/ \E conn \in losses : LossIgnored(conn)
    PROVE  StreamInv'
<1>1. /\ UNCHANGED <<session, playlist, starter, streams, joins, teardown, exhaustion>>
      /\ open' \subseteq open
  BY DEF BotDisconnected, ConnectionLost, LossIgnored, playbackVars, watchdogVars
<1> QED
  BY <1>1, StreamInvTypes, SessionSameStep

LEMMA PrefetchEndsStream == ASSUME StreamInv, PrefetchEnds PROVE StreamInv'
<1>1. UNCHANGED <<session, streams, joins, open, teardown, exhaustion>>
  BY DEF PrefetchEnds, voiceVars, watchdogVars
<1>2. /\ Shaped(playlist') /\ playlist'.current = playlist.current
      /\ starter' \in [Workers -> WorkerStates] /\ Kept(starter', starter)
  <2>1. CASE UNCHANGED <<playlist, starter>>
    BY <2>1, StreamInvTypes
  <2>2. CASE (\E t \in Tracks : playlist' = AppendedAutoplay(playlist, t)) /\ starter' = Revised
    BY <2>2, AppendedShaped, RevisedWorkers, SameIsKept, StreamInvTypes
  <2> QED
    BY <2>1, <2>2 DEF PrefetchEnds
<1> QED
  BY <1>1, <1>2, SessionSameStep

LEMMA StopsStream ==
    ASSUME StreamInv, Stop \/ ChannelDeleted \/ InactivityTimeout PROVE StreamInv'
<1>1. StopAll /\ UNCHANGED <<starter, joins, teardown, exhaustion>>
  BY DEF Stop, ChannelDeleted, InactivityTimeout, watchdogVars
<1>2. joins' \subseteq JoinStates /\ JoinsFrom(joins', joins) /\ JoinsHold'
  BY <1>1, StreamInvTypes DEF JoinsFrom, StreamInv, VoicePart, JoinsHold
<1>3. open' = open \ {session.voice} /\ NoOrphanConnection'
  BY <1>1 DEF StopAll, CloseAll, StreamInv, VoicePart, NoOrphanConnection
<1> QED
  BY <1>1, <1>2, <1>3, StoppedStep DEF StopAll

-----------------------------------------------------------------------------
(* Joins.                                                                  *)

\* A step of the joins that hands no connection over.
LEMMA JoinsStep ==
    ASSUME StreamInv, session' \in Sessions,
           session'.epoch = session.epoch, session'.generation = session.generation,
           session'.playback = session.playback, session'.voice = session.voice,
           session'.stopping = session.stopping,
           session'.moveTarget \in {session.moveTarget, NoChannel},
           session'.phase = "recovering" => session.phase = "recovering",
           session.playback # NoStream =>
               session'.phase = session.phase /\ session'.starting = session.starting,
           playlist' = playlist,
           starter' \in [Workers -> WorkerStates], Kept(starter', starter),
           joins' \subseteq JoinStates, JoinsGoOn(joins', joins),
           JoinsHold', NoOrphanConnection', open' \subseteq Conns,
           UNCHANGED <<streams, teardown, exhaustion>>
    PROVE  StreamInv'
<1>1. StreamTypes'
  BY DEF StreamInv, StreamTypes, CoreTypes
<1>2. StreamPart'
  BY PlaybackKept DEF StreamInv
<1>3. VoicePart'
  BY KeptIsNoNew, VoiceKept DEF StreamInv
<1> QED
  BY <1>1, <1>2, <1>3 DEF StreamInv

LEMMA FromGoesOn ==
    ASSUME NEW a, NEW b, JoinsFrom(b, a) PROVE JoinsGoOn(b, a)
BY DEF JoinsFrom, JoinsGoOn

\* The same, of a session that nothing is done to.
LEMMA JoinsOnlyStream ==
    ASSUME StreamInv, session' = session, playlist' = playlist, starter' = starter,
           joins' \subseteq JoinStates, JoinsFrom(joins', joins),
           JoinsHold', NoOrphanConnection', open' \subseteq Conns,
           UNCHANGED <<streams, teardown, exhaustion>>
    PROVE  StreamInv'
BY JoinsStep, FromGoesOn, StreamInvTypes

\* Only a join that has ended holds a connection.
LEMMA HoldsNothing ==
    ASSUME StreamInv, NEW j \in joins, j.pc # "joined"
    PROVE  j.conn = NoConn /\ j.conn \notin open
BY SessionAssumption DEF StreamInv, StreamTypes, VoicePart, JoinsHold

LEMMA ConnectStream == ASSUME StreamInv, NEW channel \in Channels, Connect(channel) PROVE StreamInv'
<1> DEFINE k == Join("connect", "joining", channel)
<1>1. k \in JoinStates /\ k.kind = "connect" /\ k.epoch = session.epoch /\ k.conn = NoConn
  BY StreamInvTypes, NewJoin DEF Join, JoinKinds, JoinPcs
<1>2. joins' = joins \/ joins' = joins \cup {k}
  BY DEF Connect
<1> HIDE DEF k
<1>3. /\ session' \in Sessions /\ session'.starting = session.starting
      /\ session'.epoch = session.epoch /\ session'.generation = session.generation
      /\ session'.playback = session.playback /\ session'.voice = session.voice
      /\ session'.stopping = session.stopping /\ session'.moveTarget = session.moveTarget
      /\ session'.phase = session.phase
  BY StreamInvTypes DEF Connect, Sessions
<1>4. UNCHANGED <<playlist, starter, streams, open, teardown, exhaustion>>
  BY DEF Connect, watchdogVars
<1>5. joins' \subseteq JoinStates /\ JoinsGoOn(joins', joins) /\ JoinsHold'
  BY <1>1, <1>2, StreamInvTypes DEF JoinsGoOn, StreamInv, VoicePart, JoinsHold
<1>6. NoOrphanConnection' /\ open' \subseteq Conns
  BY <1>2, <1>3, <1>4 DEF StreamInv, StreamTypes, VoicePart, NoOrphanConnection
<1> QED
  BY <1>3, <1>4, <1>5, <1>6, StreamInvTypes, JoinsStep

LEMMA JoinMovesStream ==
    ASSUME StreamInv, NEW j \in joins,
           JoinBegins(j) \/ JoinSucceeds(j) \/ JoinFails(j) \/ ConnectFails(j)
    PROVE  StreamInv'
<1>1. /\ j \in JoinStates /\ session' = session
      /\ UNCHANGED <<playlist, starter, streams, teardown, exhaustion>>
  BY StreamInvTypes
  DEF JoinBegins, JoinSucceeds, JoinFails, ConnectFails, playbackVars, watchdogVars
<1>2. open \subseteq Conns
  BY DEF StreamInv, StreamTypes
<1>3. CASE JoinBegins(j) \/ JoinFails(j)
  <2>1. \E pc \in {"joining", "joined"} : Advance(j, pc)
    BY <1>3 DEF JoinBegins, JoinFails
  <2>2. PICK pc \in {"joining", "joined"} : joins' = (joins \ {j}) \cup {[j EXCEPT !.pc = pc]}
    BY <2>1 DEF Advance
  <2> DEFINE k == [j EXCEPT !.pc = pc]
  <2>3. /\ k \in JoinStates /\ k.kind = j.kind /\ k.epoch = j.epoch
        /\ k.channel = j.channel /\ k.conn = j.conn
    <3>1. pc \in JoinPcs /\ j \in JoinStates
      BY <1>1, <2>2 DEF JoinPcs
    <3> QED
      BY <3>1, AdvancedFields
  <2>4. joins' = (joins \ {j}) \cup {k}
    BY <2>2
  <2>5. open' = open /\ j.conn = NoConn /\ j.conn \notin open
    BY <1>3, HoldsNothing DEF JoinBegins, JoinFails
  <2> HIDE DEF k
  <2>6. /\ joins' \subseteq JoinStates /\ JoinsFrom(joins', joins)
        /\ JoinsHold' /\ NoOrphanConnection'
    BY <1>1, <2>3, <2>4, <2>5, JoinReplaced DEF StreamInv
  <2> QED
    BY <1>1, <1>2, <2>5, <2>6, JoinsOnlyStream
<1>4. CASE JoinSucceeds(j)
  <2> DEFINE conn == CHOOSE c \in Conns \ dialed : TRUE
             k == [j EXCEPT !.pc = "joined", !.conn = conn]
  <2>1. conn \in Conns /\ open' = open \cup {conn}
    BY <1>4 DEF JoinSucceeds
  <2>2. joins' = (joins \ {j}) \cup {k}
    BY <1>4 DEF JoinSucceeds
  <2>3. j.conn = NoConn /\ j.conn \notin open
    BY <1>4, HoldsNothing DEF JoinSucceeds
  <2> HIDE DEF conn
  <2>4. /\ k \in JoinStates /\ k.kind = j.kind /\ k.epoch = j.epoch
        /\ k.channel = j.channel /\ k.pc = "joined" /\ k.conn = conn
    BY <1>1, <2>1 DEF JoinStates
  <2> HIDE DEF k
  <2>5. /\ joins' \subseteq JoinStates /\ JoinsFrom(joins', joins)
        /\ JoinsHold' /\ NoOrphanConnection'
    BY <1>1, <2>1, <2>2, <2>3, <2>4, JoinReplaced DEF StreamInv
  <2> QED
    BY <1>1, <1>2, <2>1, <2>5, JoinsOnlyStream
<1>5. CASE ConnectFails(j)
  <2> DEFINE k == [j EXCEPT !.pc = "ending", !.conn = NoConn]
  <2>1. joins' = (joins \ {j}) \cup {k} /\ open' = open \ {j.conn}
    BY <1>5 DEF ConnectFails, CloseAll
  <2>2. /\ k \in JoinStates /\ k.kind = j.kind /\ k.epoch = j.epoch
        /\ k.channel = j.channel /\ k.conn = NoConn
    BY <1>1 DEF JoinStates
  <2> HIDE DEF k
  <2>3. /\ joins' \subseteq JoinStates /\ JoinsFrom(joins', joins)
        /\ JoinsHold' /\ NoOrphanConnection'
    BY <1>1, <2>1, <2>2, JoinReplaced DEF StreamInv
  <2> QED
    BY <1>1, <1>2, <2>1, <2>3, JoinsOnlyStream
<1> QED
  BY <1>3, <1>4, <1>5

LEMMA JoinStartsStream == ASSUME StreamInv, NEW j \in joins, JoinStarts(j) PROVE StreamInv'
<1>1. /\ j \in JoinStates /\ j.conn = NoConn /\ j.conn \notin open
      /\ open \subseteq Conns
      /\ UNCHANGED <<playlist, streams, open, teardown, exhaustion>>
  BY StreamInvTypes, HoldsNothing DEF JoinStarts, watchdogVars, StreamInv, StreamTypes
<1>2. StartNext
  BY DEF JoinStarts
<1>3. session'.voice = session.voice
  BY <1>2, StartNextFields
<1> DEFINE k == [j EXCEPT !.pc = "ending"]
<1>4. /\ k \in JoinStates /\ k.kind = j.kind /\ k.epoch = j.epoch
      /\ k.channel = j.channel /\ k.conn = j.conn
  BY <1>1, AdvancedFields DEF JoinPcs
<1>5. joins' = joins \ {j} \/ joins' = (joins \ {j}) \cup {k}
  BY DEF JoinStarts, Advance
<1> HIDE DEF k
<1>6. /\ joins' \subseteq JoinStates /\ JoinsFrom(joins', joins)
      /\ JoinsHold' /\ NoOrphanConnection'
  BY <1>1, <1>3, <1>4, <1>5, JoinReplaced, JoinRemoved DEF StreamInv
<1> QED
  BY <1>1, <1>2, <1>6, StartNextFields, FromGoesOn, StreamInvTypes, JoinsStep

LEMMA JoinEndsStream == ASSUME StreamInv, NEW j \in joins, JoinEnds(j) PROVE StreamInv'
<1>1. /\ j.conn = NoConn /\ j.conn \notin open /\ open \subseteq Conns
      /\ joins' = joins \ {j}
      /\ UNCHANGED <<playlist, starter, streams, open, teardown, exhaustion>>
  BY HoldsNothing DEF JoinEnds, playbackVars, watchdogVars, StreamInv, StreamTypes
<1>2. /\ session' \in Sessions /\ session'.starting = session.starting
      /\ session'.epoch = session.epoch /\ session'.generation = session.generation
      /\ session'.playback = session.playback /\ session'.voice = session.voice
      /\ session'.stopping = session.stopping /\ session'.moveTarget = session.moveTarget
      /\ session'.phase = session.phase
  BY StreamInvTypes DEF JoinEnds, Sessions
<1>3. /\ joins' \subseteq JoinStates /\ JoinsFrom(joins', joins)
      /\ JoinsHold' /\ NoOrphanConnection'
  BY <1>1, <1>2, JoinRemoved DEF StreamInv
<1> QED
  BY <1>1, <1>2, <1>3, FromGoesOn, StreamInvTypes, JoinsStep

LEMMA RecoveryWaitedStream ==
    ASSUME StreamInv, NEW j \in joins, RecoveryWaited(j) PROVE StreamInv'
<1>1. /\ j \in JoinStates /\ j.conn = NoConn /\ j.conn \notin open /\ open \subseteq Conns
      /\ UNCHANGED <<playlist, starter, streams, open, teardown, exhaustion>>
  BY StreamInvTypes, HoldsNothing
  DEF RecoveryWaited, playbackVars, watchdogVars, StreamInv, StreamTypes
<1>2. /\ session' \in Sessions /\ session'.starting = session.starting
      /\ session'.epoch = session.epoch /\ session'.generation = session.generation
      /\ session'.playback = session.playback /\ session'.voice = session.voice
      /\ session'.stopping = session.stopping /\ session'.moveTarget = session.moveTarget
      /\ session'.phase = session.phase
  BY StreamInvTypes DEF RecoveryWaited, Sessions
<1> DEFINE k == [j EXCEPT !.pc = "queued"]
<1>3. /\ k \in JoinStates /\ k.kind = j.kind /\ k.epoch = j.epoch
      /\ k.channel = j.channel /\ k.conn = j.conn
  BY <1>1, AdvancedFields DEF JoinPcs
<1>4. joins' = joins \ {j} \/ joins' = (joins \ {j}) \cup {k}
  BY DEF RecoveryWaited, Advance
<1> HIDE DEF k
<1>5. /\ joins' \subseteq JoinStates /\ JoinsFrom(joins', joins)
      /\ JoinsHold' /\ NoOrphanConnection'
  BY <1>1, <1>2, <1>3, <1>4, JoinReplaced, JoinRemoved DEF StreamInv
<1> QED
  BY <1>1, <1>2, <1>5, FromGoesOn, StreamInvTypes, JoinsStep

-----------------------------------------------------------------------------
(* Steps that hand a connection over.                                      *)

LEMMA TakenOverStep ==
    ASSUME StreamInv, session' \in Sessions,
           session'.epoch \in {session.epoch, session.epoch + 1},
           session'.generation >= session.generation,
           session'.playback = NoStream, session'.phase # "recovering",
           ~session.stopping, ~session'.stopping,
           teardown = 0 \/ teardown # session'.epoch,
           \A i \in joins' : ~ValidMove(i)',
           Shaped(playlist'),
           starter' \in [Workers -> WorkerStates], Kept(starter', starter),
           \/ streams' = StopStream(session.playback)
           \/ streams' = streams /\ session.playback = NoStream,
           joins' \subseteq JoinStates, JoinsFrom(joins', joins),
           JoinsHold', NoOrphanConnection', open' \subseteq open,
           UNCHANGED <<teardown, exhaustion>>
    PROVE  StreamInv'
<1>1. session.epoch \in Nat /\ session'.epoch >= session.epoch
  BY StreamInvTypes
<1>2. StreamTypes'
  BY StopStreamStops DEF StreamInv, StreamTypes, CoreTypes
<1>3. StreamPart'
  BY PlaybackDetached, NothingPlayed DEF StreamInv
<1>4. VoicePart'
  <2>1. ~Away'
    BY DEF Away, TearingDown
  <2>2. exhaustion = 0 \/ exhaustion # session'.epoch
    BY <1>1 DEF StreamInv, StreamTypes, VoicePart, EpochsPast, OneWayBack
  <2>3. \A w \in Workers : Starting(w)' => starter'[w].epoch <= session'.epoch
    <3>1. \A w \in Workers : Starting(w) => starter[w].epoch <= session'.epoch
      <4> SUFFICES ASSUME NEW w \in Workers, Starting(w)
                   PROVE  starter[w].epoch <= session'.epoch
        OBVIOUS
      <4>1. starter[w].epoch \in Nat /\ starter[w].epoch <= session.epoch
        BY StreamInvTypes DEF WorkerStates, StreamInv, VoicePart, EpochsPast
      <4> QED
        BY <1>1, <4>1
    <3> QED
      BY <3>1 DEF Kept, Starting
  <2>4. \A i \in joins' : \E o \in joins : i.epoch = o.epoch
    BY DEF JoinsFrom
  <2> QED
    BY <1>1, <2>1, <2>2, <2>3, <2>4, VoicePresent DEF StreamInv
<1> QED
  BY <1>2, <1>3, <1>4 DEF StreamInv

LEMMA ConnectCommitsStream ==
    ASSUME StreamInv, Excluded \cap Operations = {},
           NEW j \in joins, NEW suppress \in BOOLEAN, ConnectCommits(j, suppress)
    PROVE  StreamInv'
<1> DEFINE s == IF j.moving THEN NextGeneration(NextEpoch(session)) ELSE session
           t == Detached(s)
<1>1. /\ j \in JoinStates /\ session \in Sessions
      /\ session.epoch \in Nat /\ session.generation \in Nat
  BY StreamInvTypes
<1>2. /\ s \in Sessions /\ s.epoch \in {session.epoch, session.epoch + 1}
      /\ s.generation >= session.generation
      /\ s.stopping = session.stopping /\ s.moveTarget = session.moveTarget
  <2>1. CASE j.moving
    <3> DEFINE e == NextEpoch(session)
    <3>1. /\ e \in Sessions /\ e.epoch = session.epoch + 1
          /\ e.generation = session.generation
          /\ e.stopping = session.stopping /\ e.moveTarget = session.moveTarget
      BY <1>1, NextEpochFields
    <3> HIDE DEF e
    <3>2. s = NextGeneration(e)
      BY <2>1 DEF e
    <3> HIDE DEF s
    <3> QED
      BY <1>1, <3>1, <3>2, NextGenerationFields
  <2>2. CASE ~j.moving
    BY <1>1, <2>2
  <2> QED
    BY <2>1, <2>2
<1> HIDE DEF s
<1>3. /\ t \in Sessions /\ t.epoch = s.epoch /\ t.generation = s.generation
      /\ t.playback = NoStream
      /\ t.stopping = session.stopping /\ t.moveTarget = session.moveTarget
  BY <1>2, DetachedFields
<1>4. session' = [t EXCEPT !.voice = j.conn, !.phase = "idle", !.channel = j.channel]
  BY DEF ConnectCommits, s
<1> HIDE DEF t
<1>5. /\ session' \in Sessions /\ session'.epoch = t.epoch
      /\ session'.generation = t.generation /\ session'.playback = NoStream
      /\ session'.voice = j.conn /\ session'.phase = "idle"
      /\ session'.stopping = session.stopping /\ session'.moveTarget = session.moveTarget
  BY <1>1, <1>3, <1>4 DEF Sessions, Phases, JoinStates
<1>6. /\ ~session.stopping /\ teardown = 0 /\ session.moveTarget = NoChannel
      /\ UNCHANGED <<teardown, exhaustion>>
      /\ streams' = StopStream(session.playback) /\ open' = open \ {session.voice}
  BY DEF ConnectCommits, Overtaken, Excluded, CloseAll, watchdogVars
<1>7. \E pc \in {"ending", "starting"} :
          joins' = (joins \ {j}) \cup {[j EXCEPT !.conn = NoConn, !.pc = pc]}
  BY DEF ConnectCommits
<1>8. PICK pc \in {"ending", "starting"} :
          joins' = (joins \ {j}) \cup {[j EXCEPT !.conn = NoConn, !.pc = pc]}
  BY <1>7
<1> DEFINE k == [j EXCEPT !.conn = NoConn, !.pc = pc]
<1>9. /\ k \in JoinStates /\ k.kind = j.kind /\ k.epoch = j.epoch
      /\ k.channel = j.channel /\ k.conn = NoConn
  BY <1>1, <1>8 DEF JoinStates
<1>10. joins' = (joins \ {j}) \cup {k}
  BY <1>8
<1> HIDE DEF k
<1>11. /\ joins' \subseteq JoinStates /\ JoinsFrom(joins', joins)
       /\ JoinsHold' /\ NoOrphanConnection'
  BY <1>5, <1>6, <1>9, <1>10, JoinReplaced DEF StreamInv
<1>12. \A i \in joins' : ~ValidMove(i)'
  BY <1>5, <1>6, <1>11, SessionAssumption DEF ValidMove, JoinStates
<1>13. Shaped(playlist')
  BY RequeuedShaped, StreamInvTypes DEF ConnectCommits
<1>14. starter' \in [Workers -> WorkerStates] /\ Kept(starter', starter)
  BY RevisedWorkers, SameIsKept, StreamInvTypes DEF ConnectCommits
<1>15. /\ session'.epoch \in {session.epoch, session.epoch + 1}
       /\ session'.generation >= session.generation
       /\ session'.phase # "recovering" /\ ~session'.stopping
       /\ open' \subseteq open
  BY <1>2, <1>3, <1>5, <1>6
<1> QED
  BY <1>5, <1>6, <1>11, <1>12, <1>13, <1>14, <1>15, TakenOverStep

\* A session that is away has neither stream nor connection.
LEMMA AwayHasNothing ==
    ASSUME StreamInv, Away
    PROVE  session.voice = NoConn /\ session.playback = NoStream /\ session.voice \notin open
BY SessionAssumption DEF StreamInv, StreamTypes, VoicePart, AwayIsQuiet, Quiet

LEMMA MoveEndsStream == ASSUME StreamInv, NEW j \in joins, MoveEnds(j) PROVE StreamInv'
<1> DEFINE moved == [session EXCEPT !.moveTarget = NoChannel, !.transition = FALSE]
           valid == ~Overtaken(j) /\ session.moveTarget = j.channel
<1>1. /\ j \in JoinStates /\ session \in Sessions /\ open \subseteq Conns
      /\ UNCHANGED <<playlist, starter, streams, teardown, exhaustion>>
  BY StreamInvTypes DEF MoveEnds, playbackVars, watchdogVars, StreamInv, StreamTypes
<1>2. /\ moved \in Sessions /\ moved.starting = session.starting
      /\ moved.epoch = session.epoch /\ moved.generation = session.generation
      /\ moved.playback = session.playback /\ moved.voice = session.voice
      /\ moved.stopping = session.stopping /\ moved.moveTarget = NoChannel
  BY <1>1 DEF Sessions
<1>3. valid => /\ ValidMove(j) /\ Away /\ j.epoch = session.epoch /\ j.kind = "move"
               /\ ~session.stopping
  BY DEF MoveEnds, Overtaken, ValidMove, Away
<1>4. CASE ~valid
  <2>1. session' = session /\ joins' = joins \ {j} /\ open' = open \ {j.conn}
    BY <1>4 DEF MoveEnds, CloseAll
  <2>2. /\ joins' \subseteq JoinStates /\ JoinsFrom(joins', joins)
        /\ JoinsHold' /\ NoOrphanConnection'
    BY <2>1, JoinRemoved DEF StreamInv
  <2> QED
    BY <1>1, <2>1, <2>2, JoinsOnlyStream
<1>5. CASE valid /\ j.conn = NoConn
  <2>1. /\ session' = [moved EXCEPT !.channel = NoChannel, !.phase = "idle"]
        /\ joins' = joins \ {j} /\ open' = open
    BY <1>5 DEF MoveEnds
  <2>2. session.playback = NoStream
    BY <1>3, <1>5, AwayHasNothing
  <2> HIDE DEF moved, valid
  <2>3. /\ session' \in Sessions
        /\ session'.epoch = session.epoch /\ session'.generation = session.generation
        /\ session'.playback = session.playback /\ session'.voice = session.voice
        /\ session'.stopping = session.stopping /\ session'.moveTarget = NoChannel
        /\ session'.phase = "idle"
    BY <1>2, <2>1 DEF Sessions, Phases
  <2>4. j.conn \notin open
    BY <1>1, <1>5, SessionAssumption
  <2>5. /\ joins' \subseteq JoinStates /\ JoinsFrom(joins', joins)
        /\ JoinsHold' /\ NoOrphanConnection'
    BY <2>1, <2>3, <2>4, JoinRemoved DEF StreamInv
  <2> QED
    BY <1>1, <2>1, <2>2, <2>3, <2>5, FromGoesOn, StreamInvTypes, JoinsStep
<1>6. CASE valid /\ j.conn # NoConn
  <2> DEFINE k == [j EXCEPT !.pc = "starting", !.conn = NoConn]
  <2>1. /\ session' = [moved EXCEPT !.voice = j.conn, !.phase = "loading"]
        /\ joins' = (joins \ {j}) \cup {k} /\ open' = open
    BY <1>6 DEF MoveEnds
  <2>2. session.playback = NoStream /\ session.voice \notin open
    BY <1>3, <1>6, AwayHasNothing
  <2>3. teardown = 0 \/ teardown # session.epoch
    BY <1>3, <1>6 DEF StreamInv, VoicePart, OneWayBack, TearingDown
  <2>4. ~session.stopping
    BY <1>3, <1>6
  <2> HIDE DEF moved, valid
  <2>5. /\ session' \in Sessions
        /\ session'.epoch = session.epoch /\ session'.generation = session.generation
        /\ session'.playback = session.playback /\ session'.voice = j.conn
        /\ session'.stopping = session.stopping /\ session'.moveTarget = NoChannel
        /\ session'.phase = "loading"
    BY <1>1, <1>2, <2>1 DEF Sessions, Phases, JoinStates
  <2>6. /\ k \in JoinStates /\ k.kind = j.kind /\ k.epoch = j.epoch
        /\ k.channel = j.channel /\ k.conn = NoConn
    BY <1>1 DEF JoinStates
  <2> HIDE DEF k
  <2>7. /\ joins' \subseteq JoinStates /\ JoinsFrom(joins', joins)
        /\ JoinsHold' /\ NoOrphanConnection'
    BY <2>1, <2>2, <2>5, <2>6, JoinReplaced DEF StreamInv
  <2>8. \A i \in joins' : ~ValidMove(i)'
    BY <2>5, <2>7, SessionAssumption DEF ValidMove, JoinStates
  <2> QED
    BY <1>1, <2>1, <2>2, <2>3, <2>4, <2>5, <2>7, <2>8, StreamInvTypes, TakenOverStep
<1> QED
  BY <1>4, <1>5, <1>6

LEMMA RecoveryEndsStream ==
    ASSUME StreamInv, NEW j \in joins, RecoveryEnds(j) PROVE StreamInv'
<1>1. /\ j \in JoinStates /\ session \in Sessions /\ open \subseteq Conns
      /\ UNCHANGED <<starter, streams, teardown, exhaustion>>
  BY StreamInvTypes DEF RecoveryEnds, playbackVars, watchdogVars, StreamInv, StreamTypes
<1>2. \E pc \in {"ending", "starting"} :
          joins' = (joins \ {j}) \cup {[j EXCEPT !.conn = NoConn, !.pc = pc]}
  BY DEF RecoveryEnds
<1>3. PICK pc \in {"ending", "starting"} :
          joins' = (joins \ {j}) \cup {[j EXCEPT !.conn = NoConn, !.pc = pc]}
  BY <1>2
<1> DEFINE k == [j EXCEPT !.conn = NoConn, !.pc = pc]
<1>4. /\ k \in JoinStates /\ k.kind = j.kind /\ k.epoch = j.epoch
      /\ k.channel = j.channel /\ k.conn = NoConn
  BY <1>1, <1>3 DEF JoinStates
<1>5. joins' = (joins \ {j}) \cup {k}
  BY <1>3
<1> HIDE DEF k
<1>6. CASE CloseAll({j.conn}) /\ UNCHANGED <<session, playlist>>
  <2>1. open' = open \ {j.conn}
    BY <1>6 DEF CloseAll
  <2>2. /\ joins' \subseteq JoinStates /\ JoinsFrom(joins', joins)
        /\ JoinsHold' /\ NoOrphanConnection'
    BY <1>4, <1>5, <1>6, <2>1, JoinReplaced DEF StreamInv
  <2> QED
    BY <1>1, <1>6, <2>1, <2>2, JoinsOnlyStream
<1>7. CASE /\ ~GivesUpRecovery(j) /\ j.conn = NoConn
           /\ session' = FinishedStopping(BegunStopping(session))
           /\ playlist' = Emptied(playlist) /\ open' = open
  <2>1. session.playback = NoStream /\ session.voice \notin open /\ j.conn \notin open
    BY <1>1, <1>7, AwayHasNothing, SessionAssumption DEF GivesUpRecovery, Away
  <2>2. /\ joins' \subseteq JoinStates /\ JoinsFrom(joins', joins)
        /\ JoinsHold' /\ NoOrphanConnection'
    BY <1>4, <1>5, <1>7, <2>1, JoinReplaced DEF StreamInv
  <2> QED
    BY <1>1, <1>7, <2>1, <2>2, StoppedStep
<1>8. CASE /\ ~GivesUpRecovery(j) /\ j.conn # NoConn
           /\ session' = [session EXCEPT !.voice = j.conn, !.channel = j.channel,
                                         !.phase = "loading"]
           /\ UNCHANGED <<playlist, open>>
  <2>1. /\ session.phase = "recovering" /\ ~session.stopping /\ j.epoch = session.epoch
        /\ j.kind = "recovery"
    BY <1>8 DEF GivesUpRecovery, Overtaken, RecoveryEnds
  <2>2. session.playback = NoStream /\ session.voice \notin open
    BY <2>1, AwayHasNothing DEF Away
  <2>3. /\ session' \in Sessions
        /\ session'.epoch = session.epoch /\ session'.generation = session.generation
        /\ session'.playback = session.playback /\ session'.voice = j.conn
        /\ session'.stopping = session.stopping
        /\ session'.moveTarget = session.moveTarget /\ session'.phase = "loading"
    BY <1>1, <1>8 DEF Sessions, Phases, JoinStates
  <2>4. teardown = 0 \/ teardown # session.epoch
    BY <2>1 DEF StreamInv, VoicePart, OneWayBack, TearingDown
  <2>5. /\ joins' \subseteq JoinStates /\ JoinsFrom(joins', joins)
        /\ JoinsHold' /\ NoOrphanConnection'
    BY <1>4, <1>5, <1>8, <2>2, <2>3, JoinReplaced DEF StreamInv
  <2>6. \A i \in joins' : ~ValidMove(i)'
    <3>1. \A i \in joins : ~ValidMove(i)
      BY <2>1 DEF StreamInv, VoicePart, OneWayBack
    <3> QED
      BY <2>3, <2>5, <3>1 DEF ValidMove, JoinsFrom
  <2> QED
    BY <1>1, <1>8, <2>1, <2>2, <2>3, <2>4, <2>5, <2>6, StreamInvTypes, TakenOverStep
<1> QED
  BY <1>6, <1>7, <1>8 DEF RecoveryEnds

-----------------------------------------------------------------------------
(* Steps that let a connection go.                                         *)

LEMMA LetGoStep ==
    ASSUME StreamInv, session' \in Sessions,
           session'.epoch = session.epoch + 1,
           session'.generation >= session.generation,
           session'.voice = NoConn, session'.playback = NoStream,
           Shaped(playlist'),
           starter' \in [Workers -> WorkerStates], Kept(starter', starter),
           \/ streams' = StopStream(session.playback)
           \/ streams' = streams /\ session.playback = NoStream,
           open' \subseteq open \ {session.voice},
           joins \subseteq joins', joins' \subseteq JoinStates,
           \A j \in joins' \ joins : j.epoch = session'.epoch /\ j.conn = NoConn,
           \/ exhaustion' = exhaustion
           \/ exhaustion' = session'.epoch /\ session'.stopping,
           \/ teardown' = teardown /\ (teardown = 0 \/ joins' = joins)
           \/ teardown' = session'.epoch /\ joins' = joins,
           session'.phase = "recovering" => \A j \in joins' \ joins : j.kind # "move"
    PROVE  StreamInv'
<1>1. /\ session.epoch \in Nat /\ session'.epoch \in Nat /\ exhaustion \in Nat /\ teardown \in Nat
      /\ session.epoch < session'.epoch
      /\ \A j \in joins : j.epoch \in Nat /\ j.epoch <= session.epoch /\ j.epoch < session'.epoch
  <2>1. session.epoch \in Nat /\ exhaustion \in Nat /\ teardown \in Nat
    BY StreamInvTypes DEF StreamInv, StreamTypes
  <2>2. \A j \in joins : j.epoch \in Nat /\ j.epoch <= session.epoch
    BY StreamInvTypes DEF JoinStates, StreamInv, VoicePart, EpochsPast
  <2> QED
    BY <2>1, <2>2
<1>2. StreamTypes'
  BY <1>1, StopStreamStops DEF StreamInv, StreamTypes, CoreTypes
<1>3. StreamPart'
  BY PlaybackDetached, NothingPlayed DEF StreamInv
<1>4. VoicePart'
  <2>1. teardown' \in {teardown, 0, session'.epoch}
    OBVIOUS
  <2>2. \A j \in joins' : j \in joins \/ j.epoch <= session'.epoch
    BY <1>1
  <2>3. TearingDown' => \A j \in joins' : j.epoch = session'.epoch => j.kind = "connect"
    <3>1. TearingDown' => joins' = joins
      BY DEF TearingDown
    <3> QED
      BY <1>1, <3>1
  <2>4. \A j \in joins' : ValidMove(j)' => session'.phase # "recovering"
    BY <1>1 DEF ValidMove
  <2>5. JoinsHold' /\ NoOrphanConnection'
    BY DEF StreamInv, VoicePart, JoinsHold, NoOrphanConnection
  <2> QED
    BY <2>1, <2>2, <2>3, <2>4, <2>5, KeptIsNoNew, VoiceEnded DEF StreamInv
<1> QED
  BY <1>2, <1>3, <1>4 DEF StreamInv

LEMMA BotMovedStream ==
    ASSUME StreamInv, NEW channel \in Channels, BotMoved(channel) PROVE StreamInv'
<1> DEFINE e == NextEpoch(session)
           s == NextGeneration(e)
           t == Detached(s)
<1>1. /\ session \in Sessions /\ session.epoch \in Nat /\ session.generation \in Nat
      /\ joins \subseteq JoinStates
  BY StreamInvTypes
<1>2. e \in Sessions /\ e.epoch = session.epoch + 1 /\ e.generation = session.generation
  BY <1>1, NextEpochFields
<1> HIDE DEF e
<1>3. /\ s \in Sessions /\ s.epoch = session.epoch + 1
      /\ s.generation = session.generation + 1
  BY <1>2, NextGenerationFields
<1> HIDE DEF s
<1>4. /\ t \in Sessions /\ t.epoch = session.epoch + 1
      /\ t.generation = session.generation + 1 /\ t.playback = NoStream
  BY <1>3, DetachedFields
<1>5. session' = [t EXCEPT !.moveTarget = channel, !.transition = TRUE, !.voice = NoConn,
                           !.channel = channel, !.phase = "connecting"]
  BY DEF BotMoved, s, e
<1> HIDE DEF t
<1>6. /\ session' \in Sessions /\ session'.epoch = session.epoch + 1
      /\ session'.generation >= session.generation
      /\ session'.voice = NoConn /\ session'.playback = NoStream
      /\ session'.phase = "connecting"
  <2>1. /\ session' \in Sessions /\ session'.epoch = t.epoch
        /\ session'.generation = t.generation
        /\ session'.voice = NoConn /\ session'.playback = t.playback
        /\ session'.phase = "connecting"
    BY <1>4, <1>5 DEF Sessions, Phases
  <2> QED
    BY <1>1, <1>4, <2>1
<1> DEFINE k == [kind |-> "move", pc |-> "queued", epoch |-> s.epoch, channel |-> channel,
                 moving |-> TRUE, conn |-> NoConn]
<1>7. k \in JoinStates /\ k.epoch = session'.epoch /\ k.conn = NoConn
  <2>1. s.epoch \in Nat
    BY <1>1, <1>3
  <2>2. k \in JoinStates
    BY <2>1, NewJoin DEF JoinKinds, JoinPcs
  <2> QED
    BY <1>3, <1>6, <2>2
<1>8. joins' = joins \cup {k}
  BY DEF BotMoved, s, e
<1> HIDE DEF k
<1>9. /\ streams' = StopStream(session.playback) /\ open' = open \ {session.voice}
      /\ UNCHANGED <<teardown, exhaustion>> /\ teardown = 0
  BY DEF BotMoved, CloseAll, Arrives, EffectsFree, watchdogVars
<1>10. Shaped(playlist') /\ starter' \in [Workers -> WorkerStates] /\ Kept(starter', starter)
  BY RequeuedShaped, RevisedWorkers, SameIsKept, StreamInvTypes DEF BotMoved
<1> QED
  BY <1>1, <1>6, <1>7, <1>8, <1>9, <1>10, LetGoStep

LEMMA BotSeenRecoveringStream ==
    ASSUME StreamInv, NEW channel \in Channels, BotSeenRecovering(channel) PROVE StreamInv'
<1> DEFINE t == NextEpoch(session)
<1>1. /\ session \in Sessions /\ session.epoch \in Nat /\ session.generation \in Nat
      /\ session.voice = NoConn /\ session.playback = NoStream /\ session.voice \notin open
  BY StreamInvTypes, AwayHasNothing DEF BotSeenRecovering, Away
<1>2. /\ t \in Sessions /\ t.epoch = session.epoch + 1 /\ t.generation = session.generation
      /\ t.voice = NoConn /\ t.playback = NoStream
  BY <1>1, NextEpochFields
<1>3. session' = [t EXCEPT !.channel = channel, !.phase = "idle", !.starting = FALSE]
  BY DEF BotSeenRecovering
<1> HIDE DEF t
<1>4. /\ session' \in Sessions /\ session'.epoch = session.epoch + 1
      /\ session'.generation >= session.generation
      /\ session'.voice = NoConn /\ session'.playback = NoStream
      /\ session'.phase = "idle"
  <2>1. /\ session' \in Sessions /\ session'.epoch = t.epoch
        /\ session'.generation = t.generation /\ session'.voice = t.voice
        /\ session'.playback = t.playback /\ session'.phase = "idle"
    BY <1>2, <1>3 DEF Sessions, Phases
  <2> QED
    BY <1>1, <1>2, <2>1
<1>5. /\ UNCHANGED <<playlist, streams, open, joins, teardown, exhaustion>> /\ teardown = 0
  BY DEF BotSeenRecovering, voiceVars, watchdogVars, Arrives, EffectsFree
<1>6. starter' \in [Workers -> WorkerStates] /\ Kept(starter', starter)
  BY OutdatedWorkers, SameIsKept, StreamInvTypes DEF BotSeenRecovering
<1> QED
  BY <1>1, <1>4, <1>5, <1>6, StreamInvTypes, LetGoStep

LEMMA LossBeginsStream ==
    ASSUME StreamInv, NEW conn \in losses, LossBegins(conn) PROVE StreamInv'
<1> DEFINE s == NextEpoch(session)
           t == Detached(s)
<1>1. /\ session \in Sessions /\ session.epoch \in Nat /\ session.generation \in Nat
      /\ joins \subseteq JoinStates
  BY StreamInvTypes
<1>2. s \in Sessions /\ s.epoch = session.epoch + 1 /\ s.generation = session.generation
  BY <1>1, NextEpochFields
<1> HIDE DEF s
<1>3. /\ t \in Sessions /\ t.epoch = session.epoch + 1 /\ t.generation = session.generation
      /\ t.playback = NoStream
  BY <1>2, DetachedFields
<1>4. session' = [t EXCEPT !.phase = "recovering", !.voice = NoConn]
  BY DEF LossBegins, s
<1> HIDE DEF t
<1>5. /\ session' \in Sessions /\ session'.epoch = session.epoch + 1
      /\ session'.generation >= session.generation
      /\ session'.voice = NoConn /\ session'.playback = NoStream
  <2>1. /\ session' \in Sessions /\ session'.epoch = t.epoch
        /\ session'.generation = t.generation
        /\ session'.voice = NoConn /\ session'.playback = t.playback
    BY <1>3, <1>4 DEF Sessions, Phases
  <2> QED
    BY <1>1, <1>3, <2>1
<1>6. /\ streams' = StopStream(session.playback) /\ open' = open \ {session.voice}
      /\ exhaustion' = exhaustion /\ teardown = 0
  BY DEF LossBegins, CloseAll, EffectsFree, watchdogVars
<1>7. Shaped(playlist') /\ starter' \in [Workers -> WorkerStates] /\ Kept(starter', starter)
  BY RequeuedShaped, RevisedWorkers, SameIsKept, StreamInvTypes DEF LossBegins
<1>8. CASE Recovers(playlist')
  <2> DEFINE k == [kind |-> "recovery", pc |-> "waiting", epoch |-> s.epoch,
                   channel |-> RecoveryTarget, moving |-> FALSE, conn |-> NoConn]
  <2>1. RecoveryTarget \in Channels
    BY <1>1, <1>8, SessionAssumption DEF Recovers, RecoveryTarget, Sessions
  <2>2. /\ k \in JoinStates /\ k.epoch = session'.epoch /\ k.conn = NoConn
        /\ k.kind = "recovery"
    <3>1. s.epoch \in Nat
      BY <1>1, <1>2
    <3>2. k \in JoinStates
      BY <2>1, <3>1, NewJoin DEF JoinKinds, JoinPcs
    <3> QED
      BY <1>2, <1>5, <3>2
  <2>3. joins' = joins \cup {k} /\ teardown' = teardown
    BY <1>8 DEF LossBegins, s
  <2> HIDE DEF k
  <2> QED
    BY <1>1, <1>5, <1>6, <1>7, <2>2, <2>3, LetGoStep
<1>9. CASE ~Recovers(playlist')
  <2>1. joins' = joins /\ teardown' = session'.epoch
    BY <1>2, <1>5, <1>9 DEF LossBegins, s
  <2> QED
    BY <1>1, <1>5, <1>6, <1>7, <2>1, LetGoStep
<1> QED
  BY <1>8, <1>9

LEMMA LossTearsDownStream == ASSUME StreamInv, LossTearsDown PROVE StreamInv'
<1>1. /\ UNCHANGED <<open, joins, starter, streams, exhaustion>> /\ teardown' = 0
  BY DEF LossTearsDown, playbackVars, watchdogVars
<1>2. CASE session.epoch = teardown /\ ~session.stopping
  <2>1. session.playback = NoStream /\ session.voice \notin open
    BY <1>2, AwayHasNothing DEF LossTearsDown, Away, TearingDown
  <2>2. joins' \subseteq JoinStates /\ JoinsFrom(joins', joins) /\ JoinsHold'
    BY <1>1, StreamInvTypes DEF JoinsFrom, StreamInv, VoicePart, JoinsHold
  <2>3. NoOrphanConnection'
    BY <1>1, <2>1 DEF StreamInv, VoicePart, NoOrphanConnection
  <2> QED
    BY <1>1, <1>2, <2>1, <2>2, <2>3, StoppedStep DEF LossTearsDown
<1>3. CASE UNCHANGED <<session, playlist>>
  BY <1>1, <1>3, StreamInvTypes, SessionSameStep
<1> QED
  BY <1>2, <1>3 DEF LossTearsDown

-----------------------------------------------------------------------------
(* The watchdog.                                                           *)

LEMMA StallRestartsStream ==
    ASSUME StreamInv, NEW st \in streams, StallRestarts(st) PROVE StreamInv'
<1> DEFINE d == Detached(session)
           t == NextGeneration(d)
<1>1. /\ d \in Sessions /\ d.playback = NoStream /\ d.voice = session.voice
      /\ d.epoch = session.epoch /\ d.generation = session.generation
      /\ d.stopping = session.stopping /\ d.moveTarget = session.moveTarget
  BY DetachedFields, StreamInvTypes
<1>2. session' = [t EXCEPT !.restarting = TRUE, !.phase = "loading"]
  BY DEF StallRestarts
<1> HIDE DEF d
<1>3. /\ t \in Sessions /\ t.playback = NoStream /\ t.voice = session.voice
      /\ t.epoch = session.epoch /\ t.generation = session.generation + 1
      /\ t.stopping = session.stopping /\ t.moveTarget = session.moveTarget
  BY <1>1, NextGenerationFields
<1> HIDE DEF t
<1>4. /\ session' \in Sessions /\ session'.playback = NoStream
      /\ session'.voice = session.voice /\ session'.epoch = session.epoch
      /\ session'.generation >= session.generation
      /\ session'.stopping = session.stopping /\ session'.moveTarget = session.moveTarget
      /\ session'.phase # "recovering"
  <2>1. /\ session' \in Sessions /\ session'.playback = t.playback
        /\ session'.voice = t.voice /\ session'.epoch = t.epoch
        /\ session'.generation = t.generation
        /\ session'.stopping = t.stopping /\ session'.moveTarget = t.moveTarget
        /\ session'.phase = "loading"
    BY <1>2, <1>3 DEF Sessions, Phases
  <2> QED
    BY <1>3, <2>1, StreamInvTypes
<1>5. Shaped(playlist') /\ starter' \in [Workers -> WorkerStates] /\ Kept(starter', starter)
  BY RequeuedShaped, RevisedWorkers, SameIsKept, StreamInvTypes DEF StallRestarts
<1>6. /\ streams' = StopStream(session.playback)
      /\ UNCHANGED <<joins, open, teardown, exhaustion>>
  BY DEF StallRestarts, voiceVars
<1> QED
  BY <1>4, <1>5, <1>6, DetachedStep

LEMMA StallExhaustsStream ==
    ASSUME StreamInv, NEW st \in streams, StallExhausts(st) PROVE StreamInv'
<1> DEFINE s == BegunStopping(session)
           t == Detached(s)
<1>1. session \in Sessions /\ session.epoch \in Nat /\ session.generation \in Nat
  BY StreamInvTypes
<1>2. /\ s \in Sessions /\ s.epoch = session.epoch + 1
      /\ s.generation = session.generation + 1 /\ s.stopping
  BY <1>1, BegunFields
<1> HIDE DEF s
<1>3. /\ t \in Sessions /\ t.epoch = session.epoch + 1
      /\ t.generation = session.generation + 1 /\ t.stopping /\ t.playback = NoStream
  BY <1>2, DetachedFields
<1>4. session' = [t EXCEPT !.voice = NoConn]
  BY DEF StallExhausts, s
<1> HIDE DEF t
<1>5. /\ session' \in Sessions /\ session'.epoch = session.epoch + 1
      /\ session'.generation >= session.generation
      /\ session'.voice = NoConn /\ session'.playback = NoStream /\ session'.stopping
  BY <1>1, <1>3, <1>4 DEF Sessions
<1>6. /\ streams' = StopStream(session.playback) /\ open' = open \ {session.voice}
      /\ UNCHANGED <<playlist, starter, joins, teardown>>
      /\ exhaustion' = session.epoch + 1
  BY DEF StallExhausts, CloseAll
<1> QED
  BY <1>1, <1>5, <1>6, StreamInvTypes, LetGoStep

LEMMA ExhaustionCleanupStream == ASSUME StreamInv, ExhaustionCleanup PROVE StreamInv'
<1>1. /\ UNCHANGED <<open, joins, starter, streams, teardown>> /\ exhaustion' = 0
      /\ session \in Sessions
  BY StreamInvTypes DEF ExhaustionCleanup, playbackVars, voiceVars
<1>2. CASE /\ session.epoch = exhaustion
           /\ session' = FinishedStopping(session) /\ playlist' = Emptied(playlist)
  <2>1. Away
    BY <1>2 DEF ExhaustionCleanup, StreamInv, VoicePart, OneWayBack, Away
  <2>2. session.playback = NoStream /\ session.voice \notin open
    BY <2>1, AwayHasNothing
  <2>3. /\ session' \in Sessions /\ session'.epoch = session.epoch
        /\ session'.generation = session.generation
        /\ session'.playback = NoStream /\ session'.voice = NoConn
        /\ session'.phase = "idle" /\ session'.stopping = FALSE
        /\ session'.moveTarget = NoChannel
    BY <1>1, <1>2, FinishedFields
  <2>4. session'.generation >= session.generation /\ Kept(starter', starter)
    BY <1>1, <2>3, StreamInvTypes
  <2>5. StreamTypes'
    BY <1>1, <1>2, <2>3, EmptiedShaped DEF StreamInv, StreamTypes, CoreTypes
  <2>6. StreamPart'
    BY <1>1, <2>2, <2>3, <2>4, NothingPlayed DEF StreamInv
  <2>7. NoOrphanConnection' /\ joins' \subseteq JoinStates
    BY <1>1, <2>2, StreamInvTypes DEF StreamInv, VoicePart, NoOrphanConnection
  <2>8. VoicePart'
    <3>1. NoNewStarts(starter', starter) /\ JoinsGoOn(joins', joins) /\ JoinsHold'
      BY <1>1, <2>4, JoinsStay, KeptIsNoNew DEF StreamInv
    <3>2. /\ session'.voice \in {session.voice, NoConn}
          /\ session'.playback \in {session.playback, NoStream}
          /\ session'.moveTarget \in {session.moveTarget, NoChannel}
          /\ session'.stopping => session.stopping
          /\ session'.phase = "recovering" => session.phase = "recovering"
          /\ teardown' \in {teardown, 0}
      BY <1>1, <2>3
    <3> QED
      BY <1>1, <2>3, <2>7, <3>1, <3>2, VoiceKept DEF StreamInv
  <2> QED
    BY <2>5, <2>6, <2>8 DEF StreamInv
<1>3. CASE UNCHANGED <<session, playlist>>
  BY <1>1, <1>3, StreamInvTypes, SessionSameStep
<1> QED
  BY <1>2, <1>3 DEF ExhaustionCleanup

-----------------------------------------------------------------------------
(* The end of a stream.                                                    *)

\* Streams may end where no playback changes.
LEMMA FewerStreams ==
    ASSUME StreamInv, session' = session, streams' \subseteq streams,
           UNCHANGED <<playlist, starter, joins, open, teardown, exhaustion>>
    PROVE  StreamInv'
<1>1. StreamTypes'
  BY DEF StreamInv, StreamTypes, CoreTypes
<1>2. StreamPart'
  BY DEF StreamInv, StreamPart, GenerationsPast, OneStreamEach, NoOrphanStream, Held,
         PlaybackIsCurrent, Starting
<1>3. VoicePart'
  BY DEF StreamInv, VoicePart, EpochsPast, AwayIsQuiet, Away, TearingDown, ValidMove, Quiet,
         OneWayBack, JoinsHold, NoOrphanConnection, Starting
<1> QED
  BY <1>1, <1>2, <1>3 DEF StreamInv

LEMMA StreamLosesVoiceStream ==
    ASSUME StreamInv, NEW st \in streams, StreamLosesVoice(st) PROVE StreamInv'
BY FewerStreams DEF StreamLosesVoice, watchdogVars

LEMMA StreamEndsStream ==
    ASSUME StreamInv, NEW st \in streams, NEW replay \in BOOLEAN, StreamEnds(st, replay)
    PROVE  StreamInv'
<1>1. /\ streams' = streams \ {st} /\ UNCHANGED <<joins, open, teardown, exhaustion>>
      /\ session \in Sessions
  BY StreamInvTypes DEF StreamEnds, voiceVars, watchdogVars
<1>2. CASE ~Completes(st)
  <2>1. session' = session /\ UNCHANGED <<playlist, starter>>
    BY <1>2 DEF StreamEnds
  <2> QED
    BY <1>1, <2>1, FewerStreams
<1>3. CASE Completes(st)
  <2> DEFINE t == Detached(session)
  <2>1. /\ t \in Sessions /\ t.playback = NoStream /\ t.voice = session.voice
        /\ t.epoch = session.epoch /\ t.generation = session.generation
        /\ t.stopping = session.stopping /\ t.moveTarget = session.moveTarget
    BY <1>1, DetachedFields
  <2>2. \E p \in {"loading", "idle"} : session' = [t EXCEPT !.phase = p]
    BY <1>3 DEF StreamEnds
  <2> HIDE DEF t
  <2>3. /\ session' \in Sessions /\ session'.playback = NoStream
        /\ session'.voice = session.voice /\ session'.epoch = session.epoch
        /\ session'.generation = session.generation
        /\ session'.stopping = session.stopping /\ session'.moveTarget = session.moveTarget
        /\ session'.phase # "recovering"
    BY <2>1, <2>2 DEF Sessions, Phases
  <2>4. Shaped(playlist')
    BY <1>3, FinishedShaped, StreamInvTypes DEF StreamEnds
  <2>5. starter' \in [Workers -> WorkerStates] /\ Kept(starter', starter)
    BY <1>3, RevisedWorkers, SameIsKept, StreamInvTypes DEF StreamEnds
  <2>6. StreamTypes'
    BY <1>1, <2>3, <2>4, <2>5 DEF StreamInv, StreamTypes, CoreTypes
  <2>7. session.playback \in {NoStream, st.generation}
    BY <1>3 DEF Completes, StreamInv, StreamPart, PlaybackIsCurrent
  <2>8. GenerationsPast' /\ OneStreamEach'
    BY <1>1, <2>3, <2>5 DEF StreamInv, StreamPart, GenerationsPast, OneStreamEach, Kept, Starting
  <2>9. NoOrphanStream'
    <3> SUFFICES ASSUME NEW other \in streams' PROVE other.stopped \/ Held(other)'
      BY DEF NoOrphanStream
    <3>1. other \in streams /\ other.generation \notin {NoStream, st.generation}
      BY <1>1 DEF StreamInv, StreamPart, OneStreamEach, GenerationsPast, NoStream
    <3>2. other.stopped \/ Held(other)
      BY <2>7, <3>1 DEF StreamInv, StreamPart, NoOrphanStream
    <3> QED
      BY <2>5, <3>2 DEF Held, Kept
  <2>10. StreamPart'
    BY <2>3, <2>8, <2>9 DEF StreamPart, PlaybackIsCurrent
  <2>11. NoOrphanConnection'
    BY <1>1, <2>3 DEF StreamInv, VoicePart, NoOrphanConnection
  <2>12. VoicePart'
    <3>1. NoNewStarts(starter', starter) /\ JoinsGoOn(joins', joins) /\ JoinsHold'
      BY <1>1, <2>5, JoinsStay, KeptIsNoNew DEF StreamInv
    <3>2. /\ session'.voice \in {session.voice, NoConn}
          /\ session'.playback \in {session.playback, NoStream}
          /\ session'.moveTarget \in {session.moveTarget, NoChannel}
          /\ teardown' \in {teardown, 0}
          /\ joins' \subseteq JoinStates
      BY <1>1, <2>3, StreamInvTypes
    <3> QED
      BY <1>1, <2>3, <2>11, <3>1, <3>2, VoiceKept DEF StreamInv
  <2> QED
    BY <2>6, <2>10, <2>12 DEF StreamInv
<1> QED
  BY <1>2, <1>3

-----------------------------------------------------------------------------
(* The workers.                                                            *)

\* A worker that holds no stream goes where it holds no attempt.
LEMMA WorkerSet ==
    ASSUME NEW a \in [Workers -> WorkerStates], SameWorkers(a, starter),
           NEW w \in Workers, starter[w].pc # "commit",
           NEW r \in WorkerStates, r.pc \notin {"start", "commit"},
           starter' = [a EXCEPT ![w] = r]
    PROVE  starter' \in [Workers -> WorkerStates] /\ Kept(starter', starter)
<1>1. /\ starter' \in [Workers -> WorkerStates] /\ starter'[w] = r
      /\ \A v \in Workers \ {w} : starter'[v] = a[v]
  BY WorkerMoved
<1> QED
  BY <1>1 DEF SameWorkers, Kept

LEMMA SelfSame == SameWorkers(starter, starter)
BY DEF SameWorkers

LEMMA GiveUpStream ==
    ASSUME StreamInv, NEW w \in Workers, starter[w].pc # "commit",
           NEW p \in Phases, GiveUp(w, [session EXCEPT !.phase = p]),
           p # "recovering" \/ p = session.phase,
           session.playback # NoStream => p = session.phase,
           Shaped(playlist'), playlist'.current = playlist.current,
           UNCHANGED <<streams, joins, open, teardown, exhaustion>>
    PROVE  StreamInv'
<1> DEFINE s == [session EXCEPT !.phase = p]
<1>1. /\ s \in Sessions /\ s.phase = p
      /\ s.epoch = session.epoch /\ s.generation = session.generation
      /\ s.playback = session.playback /\ s.voice = session.voice
      /\ s.stopping = session.stopping /\ s.moveTarget = session.moveTarget
  BY StreamInvTypes DEF Sessions
<1>2. session' = [s EXCEPT !.starting = FALSE] /\ starter' = [starter EXCEPT ![w] = IdleWorker]
  BY DEF GiveUp
<1> HIDE DEF s
<1>3. /\ session' \in Sessions /\ session'.phase = p /\ session'.starting = FALSE
      /\ session'.epoch = session.epoch /\ session'.generation = session.generation
      /\ session'.playback = session.playback /\ session'.voice = session.voice
      /\ session'.stopping = session.stopping /\ session'.moveTarget = session.moveTarget
  BY <1>1, <1>2 DEF Sessions
<1>4. starter' \in [Workers -> WorkerStates] /\ Kept(starter', starter)
  BY <1>2, IdleIsState, SelfSame, WorkerSet, StreamInvTypes
<1> QED
  BY <1>3, <1>4, KeptStep

\* The same without a new phase.
LEMMA GiveUpSame ==
    ASSUME NEW w \in Workers, GiveUp(w, session), session \in Sessions
    PROVE  session.phase \in Phases /\ GiveUp(w, [session EXCEPT !.phase = session.phase])
<1>1. [session EXCEPT !.phase = session.phase] = session
  BY DEF Sessions
<1> QED
  BY <1>1 DEF Sessions

\* A worker moves on towards its attempt.
LEMMA ProceedStream ==
    ASSUME StreamInv, NEW w \in Workers, starter[w].pc # "commit",
           NEW a \in [Workers -> WorkerStates], SameWorkers(a, starter),
           NEW r \in WorkerStates, r.pc \notin {"start", "commit"},
           starter' = [a EXCEPT ![w] = r], session' = session,
           Shaped(playlist'), playlist'.current = playlist.current,
           UNCHANGED <<streams, joins, open, teardown, exhaustion>>
    PROVE  StreamInv'
<1>1. starter' \in [Workers -> WorkerStates] /\ Kept(starter', starter)
  BY WorkerSet
<1> QED
  BY <1>1, SessionSameStep

LEMMA SelectStream ==
    ASSUME StreamInv, NEW w \in Workers, starter[w].pc # "commit",
           Proceed(w, "select"), UNCHANGED session,
           Shaped(playlist'), playlist'.current = playlist.current,
           UNCHANGED <<streams, joins, open, teardown, exhaustion>>
    PROVE  StreamInv'
<1> DEFINE r == [starter[w] EXCEPT !.pc = "select"]
<1>1. starter \in [Workers -> WorkerStates]
  BY StreamInvTypes
<1>2. r \in WorkerStates /\ r.pc = "select"
  BY <1>1 DEF WorkerStates
<1>3. starter' = [starter EXCEPT ![w] = r]
  BY DEF Proceed
<1> HIDE DEF r
<1> QED
  BY <1>1, <1>2, <1>3, SelfSame, ProceedStream

LEMMA StarterEntersStream ==
    ASSUME StreamInv, NEW w \in Workers, StarterEnters(w) PROVE StreamInv'
<1>1. /\ session \in Sessions /\ Shaped(playlist) /\ starter \in [Workers -> WorkerStates]
      /\ starter[w].pc # "commit"
      /\ UNCHANGED <<playlist, streams, joins, open, teardown, exhaustion>>
  BY StreamInvTypes DEF StarterEnters, voiceVars, watchdogVars
<1>2. CASE GiveUp(w, session)
  BY <1>1, <1>2, GiveUpSame, GiveUpStream
<1>3. CASE Proceed(w, "select") /\ UNCHANGED session
  BY <1>1, <1>3, SelectStream
<1>4. CASE /\ starter' = [Outdated EXCEPT ![w] =
                            [pc |-> "fetch", epoch |-> session.epoch, generation |-> 0,
                             fresh |-> TRUE, latest |-> TRUE]]
           /\ UNCHANGED session
  <2> DEFINE r == [pc |-> "fetch", epoch |-> session.epoch, generation |-> 0,
                   fresh |-> TRUE, latest |-> TRUE]
  <2>1. r \in WorkerStates /\ r.pc = "fetch"
    BY <1>1 DEF WorkerStates, Sessions
  <2> HIDE DEF r
  <2>2. starter' = [Outdated EXCEPT ![w] = r]
    BY <1>4 DEF r
  <2>3. Outdated \in [Workers -> WorkerStates] /\ SameWorkers(Outdated, starter)
    BY <1>1, OutdatedWorkers
  <2>4. session' = session /\ Shaped(playlist') /\ playlist'.current = playlist.current
    BY <1>1, <1>4
  <2> QED
    BY <1>1, <2>1, <2>2, <2>3, <2>4, ProceedStream
<1> QED
  BY <1>2, <1>3, <1>4 DEF StarterEnters

\* A fetch that shows "idle" found no current track, and so no playback.
LEMMA StarterFetchedStream ==
    ASSUME StreamInv, NEW w \in Workers, StarterFetched(w) PROVE StreamInv'
<1>1. /\ session \in Sessions /\ Shaped(playlist) /\ starter[w].pc # "commit"
      /\ UNCHANGED <<streams, joins, open, teardown, exhaustion>>
  BY StreamInvTypes DEF StarterFetched, voiceVars, watchdogVars
<1>2. Shaped(playlist') /\ playlist'.current = playlist.current
  BY <1>1, AppendedShaped DEF StarterFetched
<1>3. CASE GiveUp(w, session)
  BY <1>1, <1>2, <1>3, GiveUpSame, GiveUpStream
<1>4. CASE GiveUp(w, [session EXCEPT !.phase = "idle"]) /\ playlist.current = NoTrack
  <2>1. "idle" \in Phases /\ session.playback = NoStream
    BY <1>4 DEF Phases, StreamInv, StreamPart, PlaybackIsCurrent
  <2> QED
    BY <1>1, <1>2, <1>4, <2>1, GiveUpStream
<1>5. CASE Proceed(w, "select") /\ UNCHANGED session
  BY <1>1, <1>2, <1>5, SelectStream
<1> QED
  BY <1>3, <1>4, <1>5 DEF StarterFetched

\* A session that can start a track is not away.
LEMMA ReadyIsPresent == ASSUME StreamInv, CanStart(session) PROVE ~Away
BY DEF CanStart, Connected, StreamInv, VoicePart, AwayIsQuiet, Quiet

LEMMA StarterSelectsStream ==
    ASSUME StreamInv, NEW w \in Workers, StarterSelects(w) PROVE StreamInv'
<1>1. /\ session \in Sessions /\ Shaped(playlist) /\ starter \in [Workers -> WorkerStates]
      /\ starter[w].pc = "select"
      /\ UNCHANGED <<streams, joins, open, teardown, exhaustion>>
  BY StreamInvTypes DEF StarterSelects, voiceVars, watchdogVars
<1>2. CASE GiveUp(w, session) /\ UNCHANGED playlist
  BY <1>1, <1>2, GiveUpSame, GiveUpStream
<1>3. CASE CanStart(session) /\ GiveUp(w, [session EXCEPT !.phase = "idle"]) /\ UNCHANGED playlist
  <2>1. "idle" \in Phases /\ session.playback = NoStream
    BY <1>3 DEF Phases, CanStart
  <2> QED
    BY <1>1, <1>3, <2>1, GiveUpStream
<1>4. CASE /\ CanStart(session)
           /\ playlist' = SelectedNext(playlist)
           /\ session' = NextGeneration(session)
           /\ starter' = [Revised EXCEPT ![w] =
                             [pc |-> "start", epoch |-> session.epoch,
                              generation |-> session.generation + 1,
                              fresh |-> FALSE, latest |-> FALSE]]
  <2> DEFINE r == [pc |-> "start", epoch |-> session.epoch,
                   generation |-> session.generation + 1,
                   fresh |-> FALSE, latest |-> FALSE]
  <2>1. /\ session' \in Sessions /\ session'.epoch = session.epoch
        /\ session'.generation = session.generation + 1
        /\ session'.phase = session.phase /\ session'.stopping = session.stopping
        /\ session'.playback = session.playback /\ session'.voice = session.voice
        /\ session'.moveTarget = session.moveTarget
    BY <1>1, <1>4, NextGenerationFields
  <2>2. /\ r \in WorkerStates /\ r.pc = "start"
        /\ r.epoch = session.epoch /\ r.generation = session.generation + 1
    BY <1>1 DEF WorkerStates, Sessions
  <2>3. session.playback = NoStream /\ ~session.stopping
    BY <1>4 DEF CanStart
  <2> HIDE DEF r
  <2>4. starter' = [Revised EXCEPT ![w] = r]
    BY <1>4 DEF r
  <2>5. Revised \in [Workers -> WorkerStates] /\ SameWorkers(Revised, starter)
    BY <1>1, RevisedWorkers
  <2>6. /\ starter' \in [Workers -> WorkerStates] /\ starter'[w] = r
        /\ \A v \in Workers \ {w} :
              /\ starter'[v].pc = starter[v].pc
              /\ starter'[v].epoch = starter[v].epoch
              /\ starter'[v].generation = starter[v].generation
    BY <2>2, <2>4, <2>5, WorkerMoved DEF SameWorkers
  <2>7. StreamTypes'
    BY <1>1, <1>4, <2>1, <2>6, SelectedNextShaped DEF StreamInv, StreamTypes, CoreTypes
  <2>8. session.generation \in Nat /\ session.epoch \in Nat
    BY StreamInvTypes
  <2>9. GenerationsPast'
    <3>1. \A v \in Workers : Starting(v)' =>
             starter'[v].generation \in 1 .. session'.generation
      BY <2>1, <2>2, <2>6, <2>8 DEF StreamInv, StreamPart, GenerationsPast, Starting
    <3>2. \A st \in streams' : st.generation \in 1 .. session'.generation
      BY <1>1, <2>1, <2>8 DEF StreamInv, StreamPart, GenerationsPast
    <3> QED
      BY <3>1, <3>2 DEF GenerationsPast
  <2>10. \A v \in Workers \ {w} : Starting(v)' => Starting(v) /\ starter'[v].generation # r.generation
    BY <2>2, <2>6, <2>8 DEF StreamInv, StreamPart, GenerationsPast, Starting
  <2>11. \A st \in streams : st.generation # r.generation
    BY <2>2, <2>8 DEF StreamInv, StreamPart, GenerationsPast
  <2>12. OneStreamEach'
    <3>1. \A u, v \in Workers :
             Starting(u)' /\ Starting(v)' /\ starter'[u].generation = starter'[v].generation
                => u = v
      <4> SUFFICES ASSUME NEW u \in Workers, NEW v \in Workers, Starting(u)', Starting(v)',
                          starter'[u].generation = starter'[v].generation
                   PROVE  u = v
        OBVIOUS
      <4>1. CASE u # w /\ v # w
        BY <2>6, <2>10, <4>1 DEF StreamInv, StreamPart, OneStreamEach
      <4>2. CASE u = w \/ v = w
        BY <2>6, <2>10, <4>2
      <4> QED
        BY <4>1, <4>2
    <3>2. \A v \in Workers, st \in streams' :
             starter'[v].pc = "start" => st.generation # starter'[v].generation
      BY <1>1, <2>6, <2>11 DEF StreamInv, StreamPart, OneStreamEach
    <3>3. \A st, other \in streams' : st.generation = other.generation => st = other
      BY <1>1 DEF StreamInv, StreamPart, OneStreamEach
    <3> QED
      BY <2>1, <2>3, <3>1, <3>2, <3>3 DEF OneStreamEach
  <2>13. NoOrphanStream'
    <3>1. \A st \in streams : Held(st) => Held(st)'
      BY <1>1, <2>6 DEF Held
    <3> QED
      BY <1>1, <2>1, <3>1 DEF StreamInv, StreamPart, NoOrphanStream
  <2>14. StreamPart'
    BY <2>1, <2>3, <2>9, <2>12, <2>13 DEF StreamPart, PlaybackIsCurrent
  <2>15. ~Away'
    <3>1. ~Away
      BY <1>4, ReadyIsPresent
    <3> QED
      BY <1>1, <2>1, <3>1 DEF Away, TearingDown, ValidMove
  <2>16. VoicePart'
    <3>1. \A v \in Workers : Starting(v)' => starter'[v].epoch <= session'.epoch
      BY <2>1, <2>2, <2>6, <2>8 DEF StreamInv, VoicePart, EpochsPast, Starting
    <3>2. /\ exhaustion = 0 \/ exhaustion # session'.epoch
          /\ JoinsHold' /\ NoOrphanConnection'
      BY <1>1, <2>1, <2>3
      DEF StreamInv, VoicePart, OneWayBack, JoinsHold, NoOrphanConnection
    <3>3. \A j \in joins' : \E i \in joins : j.epoch = i.epoch
      BY <1>1
    <3>4. session'.epoch >= session.epoch
      BY <2>1, <2>8
    <3> QED
      BY <1>1, <2>1, <2>15, <3>1, <3>2, <3>3, <3>4, VoicePresent DEF StreamInv
  <2> QED
    BY <2>7, <2>14, <2>16 DEF StreamInv
<1> QED
  BY <1>2, <1>3, <1>4 DEF StarterSelects

LEMMA StreamStartsStream ==
    ASSUME StreamInv, NEW w \in Workers, StreamStarts(w) PROVE StreamInv'
<1> DEFINE r == [starter[w] EXCEPT !.pc = "commit"]
<1>1. /\ session \in Sessions /\ Shaped(playlist) /\ starter \in [Workers -> WorkerStates]
      /\ starter[w].pc = "start" /\ joins \subseteq JoinStates
      /\ UNCHANGED <<session, playlist, joins, open, teardown, exhaustion>>
  BY StreamInvTypes DEF StreamStarts, voiceVars, watchdogVars
<1>2. /\ r \in WorkerStates /\ r.pc = "commit"
      /\ r.epoch = starter[w].epoch /\ r.generation = starter[w].generation
  BY <1>1 DEF WorkerStates
<1>3. PICK new \in StreamStates :
         new = [generation |-> starter[w].generation, epoch |-> starter[w].epoch,
                stopped |-> FALSE]
  BY <1>1 DEF WorkerStates, StreamStates
<1>4. starter' = [starter EXCEPT ![w] = r]
  BY DEF StreamStarts, Proceed
<1>5. streams' = streams \cup {new} /\ new.generation = starter[w].generation
  BY <1>3 DEF StreamStarts
<1> HIDE DEF r
<1>6. /\ starter' \in [Workers -> WorkerStates] /\ starter'[w] = r
      /\ \A v \in Workers \ {w} : starter'[v] = starter[v]
  BY <1>1, <1>2, <1>4, WorkerMoved
<1>7. StreamTypes'
  BY <1>1, <1>3, <1>5, <1>6 DEF StreamInv, StreamTypes, CoreTypes
<1>8. /\ \A v \in Workers : Starting(v)' <=> Starting(v)
      /\ \A v \in Workers : /\ starter'[v].generation = starter[v].generation
                            /\ starter'[v].epoch = starter[v].epoch
  BY <1>1, <1>2, <1>6 DEF Starting
<1>9. GenerationsPast'
  BY <1>1, <1>5, <1>8 DEF StreamInv, StreamPart, GenerationsPast, Starting
<1>10. OneStreamEach'
  <2>1. \A st \in streams : st.generation # new.generation
    BY <1>1, <1>5 DEF StreamInv, StreamPart, OneStreamEach
  <2>2. \A st, other \in streams' : st.generation = other.generation => st = other
    BY <1>5, <2>1 DEF StreamInv, StreamPart, OneStreamEach
  <2>3. \A v \in Workers, st \in streams' :
           starter'[v].pc = "start" => st.generation # starter'[v].generation
    <3> SUFFICES ASSUME NEW v \in Workers, NEW st \in streams', starter'[v].pc = "start"
                 PROVE  st.generation # starter'[v].generation
      OBVIOUS
    <3>1. v # w /\ starter'[v] = starter[v]
      BY <1>2, <1>6
    <3>2. starter[v].generation # starter[w].generation
      BY <1>1, <3>1 DEF StreamInv, StreamPart, OneStreamEach, Starting
    <3> QED
      BY <1>5, <3>1, <3>2 DEF StreamInv, StreamPart, OneStreamEach
  <2>4. \A u, v \in Workers :
           Starting(u)' /\ Starting(v)' /\ starter'[u].generation = starter'[v].generation
              => u = v
    BY <1>8 DEF StreamInv, StreamPart, OneStreamEach
  <2>5. \A v \in Workers :
           Starting(v)' /\ starter'[v].generation = session'.generation
              => session'.playback = NoStream
    BY <1>1, <1>8 DEF StreamInv, StreamPart, OneStreamEach
  <2> QED
    BY <2>2, <2>3, <2>4, <2>5 DEF OneStreamEach
<1>11. NoOrphanStream'
  <2>1. Held(new)'
    BY <1>2, <1>5, <1>6 DEF Held
  <2>2. \A st \in streams : Held(st) => Held(st)'
    BY <1>1, <1>6 DEF Held
  <2> QED
    BY <1>1, <1>5, <2>1, <2>2 DEF StreamInv, StreamPart, NoOrphanStream
<1>12. StreamPart'
  BY <1>1, <1>9, <1>10, <1>11 DEF StreamInv, StreamPart, PlaybackIsCurrent
<1>13. VoicePart'
  <2>1. NoNewStarts(starter', starter)
    BY <1>8 DEF NoNewStarts, Starting
  <2>2. JoinsGoOn(joins', joins) /\ JoinsHold' /\ NoOrphanConnection'
    BY <1>1, JoinsStay DEF StreamInv, VoicePart, NoOrphanConnection
  <2> QED
    BY <1>1, <2>1, <2>2, VoiceKept DEF StreamInv
<1> QED
  BY <1>7, <1>12, <1>13 DEF StreamInv

\* The attempt that is current has replaced no playback.
LEMMA AttemptedIsAlone ==
    ASSUME StreamInv, NEW w \in Workers, Starting(w), Attempted(w)
    PROVE  session.playback = NoStream
BY DEF StreamInv, StreamPart, OneStreamEach, Attempted

LEMMA StartFailsStream ==
    ASSUME StreamInv, NEW w \in Workers, NEW unusable \in BOOLEAN, StartFails(w, unusable)
    PROVE  StreamInv'
<1>1. /\ session \in Sessions /\ Shaped(playlist) /\ starter \in [Workers -> WorkerStates]
      /\ starter[w].pc = "start"
      /\ UNCHANGED <<streams, joins, open, teardown, exhaustion>>
  BY StreamInvTypes DEF StartFails, voiceVars, watchdogVars
<1>2. session.playback = NoStream
  BY <1>1, AttemptedIsAlone DEF StartFails, Starting
<1>3. /\ session' \in Sessions /\ session'.phase # "recovering"
      /\ session'.epoch = session.epoch /\ session'.generation = session.generation
      /\ session'.playback = session.playback /\ session'.voice = session.voice
      /\ session'.stopping = session.stopping /\ session'.moveTarget = session.moveTarget
  <2>1. \E f \in Nat, p \in {"loading", "idle"} :
            session' = [session EXCEPT !.starting = FALSE, !.failures = f, !.phase = p]
    <3>1. session.failures \in Nat /\ session.failures + 1 \in Nat
      BY <1>1 DEF Sessions
    <3> QED
      BY <3>1 DEF StartFails
  <2> QED
    BY <1>1, <2>1 DEF Sessions, Phases
<1>4. Shaped(playlist')
  BY <1>1, RecordedFailureShaped, RequeuedShaped DEF StartFails
<1>5. /\ RevisedIf(playlist.current # NoTrack) \in [Workers -> WorkerStates]
      /\ SameWorkers(RevisedIf(playlist.current # NoTrack), starter)
  BY <1>1, RevisedWorkers
<1>6. starter' \in [Workers -> WorkerStates] /\ Kept(starter', starter)
  BY <1>1, <1>5, IdleIsState, WorkerSet DEF StartFails
<1> QED
  BY <1>1, <1>2, <1>3, <1>4, <1>6, KeptStep

LEMMA StaleStartFailsStream ==
    ASSUME StreamInv, NEW w \in Workers, StaleStartFails(w) PROVE StreamInv'
<1>1. /\ session \in Sessions /\ Shaped(playlist) /\ starter[w].pc # "commit"
      /\ UNCHANGED <<playlist, streams, joins, open, teardown, exhaustion>>
  BY StreamInvTypes DEF StaleStartFails, voiceVars, watchdogVars
<1>2. \E p \in Phases :
         /\ GiveUp(w, [session EXCEPT !.phase = p])
         /\ p # "recovering" \/ p = session.phase
         /\ session.playback # NoStream => p = session.phase
  <2>1. session.phase \in Phases /\ "loading" \in Phases /\ "idle" \in Phases
    BY <1>1 DEF Sessions, Phases
  <2> QED
    BY <2>1 DEF StaleStartFails
<1> QED
  BY <1>1, <1>2, GiveUpStream

LEMMA StarterCommitsStream ==
    ASSUME StreamInv, NEW w \in Workers, StarterCommits(w) PROVE StreamInv'
<1>1. /\ session \in Sessions /\ Shaped(playlist) /\ starter \in [Workers -> WorkerStates]
      /\ starter[w].pc = "commit" /\ playlist.current # NoTrack /\ joins \subseteq JoinStates
      /\ UNCHANGED <<playlist, streams, joins, open, teardown, exhaustion>>
  BY StreamInvTypes DEF StarterCommits, voiceVars
<1>2. /\ session.epoch = starter[w].epoch /\ session.generation = starter[w].generation
      /\ ~session.stopping
  BY DEF StarterCommits, Attempted
<1>3. Starting(w) /\ session.playback = NoStream
  BY <1>1, AttemptedIsAlone DEF StarterCommits, Starting
<1>4. /\ session' \in Sessions
      /\ session'.epoch = session.epoch /\ session'.generation = session.generation
      /\ session'.playback = session.generation /\ session'.voice = session.voice
      /\ session'.stopping = session.stopping /\ session'.moveTarget = session.moveTarget
      /\ session'.phase = "playing" /\ session'.starting = FALSE
  <2>1. session' = [session EXCEPT !.playback = session.generation,
                                   !.starting = FALSE, !.failures = 0,
                                   !.phase = "playing", !.restarting = FALSE]
    BY <1>2 DEF StarterCommits
  <2> QED
    BY <1>1, <2>1 DEF Sessions, Phases
<1>5. /\ starter' \in [Workers -> WorkerStates] /\ starter'[w].pc = "idle"
      /\ \A v \in Workers \ {w} : starter'[v] = starter[v]
  BY <1>1, WorkerMoved, IdleIsState DEF StarterCommits
<1>6. StreamTypes'
  BY <1>1, <1>4, <1>5 DEF StreamInv, StreamTypes, CoreTypes
<1>7. \A v \in Workers : Starting(v)' => v # w /\ Starting(v) /\ starter'[v] = starter[v]
  BY <1>5 DEF Starting
<1>8. GenerationsPast'
  BY <1>1, <1>4, <1>7 DEF StreamInv, StreamPart, GenerationsPast
<1>9. OneStreamEach'
  <2>1. \A v \in Workers : Starting(v)' => starter'[v].generation # session'.generation
    BY <1>2, <1>3, <1>4, <1>7 DEF StreamInv, StreamPart, OneStreamEach
  <2>2. \A v \in Workers, st \in streams' :
           starter'[v].pc = "start" => st.generation # starter'[v].generation
    BY <1>1, <1>5 DEF StreamInv, StreamPart, OneStreamEach
  <2>3. \A u, v \in Workers :
           Starting(u)' /\ Starting(v)' /\ starter'[u].generation = starter'[v].generation
              => u = v
    BY <1>7 DEF StreamInv, StreamPart, OneStreamEach
  <2>4. \A st, other \in streams' : st.generation = other.generation => st = other
    BY <1>1 DEF StreamInv, StreamPart, OneStreamEach
  <2> QED
    BY <2>1, <2>2, <2>3, <2>4 DEF OneStreamEach
<1>10. NoOrphanStream'
  <2> SUFFICES ASSUME NEW st \in streams
               PROVE  st.stopped \/ Held(st)' \/ session'.playback = st.generation
    BY <1>1 DEF NoOrphanStream
  <2>1. CASE Held(st)
    BY <1>2, <1>4, <1>5, <2>1 DEF Held
  <2>2. CASE ~Held(st)
    <3>1. st.generation # NoStream
      BY DEF StreamInv, StreamPart, GenerationsPast, NoStream
    <3> QED
      BY <1>3, <2>2, <3>1 DEF StreamInv, StreamPart, NoOrphanStream
  <2> QED
    BY <2>1, <2>2
<1>11. StreamPart'
  BY <1>1, <1>4, <1>8, <1>9, <1>10 DEF StreamPart, PlaybackIsCurrent
<1>12. ~Away'
  <2>1. ~Away
    BY <1>2, <1>3 DEF StreamInv, VoicePart, AwayIsQuiet, Quiet
  <2> QED
    BY <1>1, <1>4, <2>1 DEF Away, TearingDown, ValidMove
<1>13. VoicePart'
  <2>1. \A v \in Workers : Starting(v)' => starter'[v].epoch <= session'.epoch
    BY <1>4, <1>7 DEF StreamInv, VoicePart, EpochsPast
  <2>2. /\ exhaustion = 0 \/ exhaustion # session'.epoch
        /\ JoinsHold' /\ NoOrphanConnection'
    BY <1>1, <1>2, <1>4 DEF StreamInv, VoicePart, OneWayBack, JoinsHold, NoOrphanConnection
  <2>3. \A j \in joins' : \E i \in joins : j.epoch = i.epoch
    BY <1>1
  <2>4. session'.epoch >= session.epoch
    BY <1>4, StreamInvTypes
  <2> QED
    BY <1>1, <1>4, <1>12, <2>1, <2>2, <2>3, <2>4, VoicePresent DEF StreamInv
<1> QED
  BY <1>6, <1>11, <1>13 DEF StreamInv

LEMMA StarterDiscardsStream ==
    ASSUME StreamInv, NEW w \in Workers, StarterDiscards(w) PROVE StreamInv'
<1>1. /\ session \in Sessions /\ Shaped(playlist) /\ starter \in [Workers -> WorkerStates]
      /\ starter[w].pc = "commit" /\ joins \subseteq JoinStates
      /\ streams' = {st \in streams : st.generation # starter[w].generation}
      /\ UNCHANGED <<playlist, joins, open, teardown, exhaustion>>
  BY StreamInvTypes DEF StarterDiscards, voiceVars, watchdogVars
<1>2. /\ session' \in Sessions /\ session'.starting = FALSE
      /\ session'.epoch = session.epoch /\ session'.generation = session.generation
      /\ session'.playback = session.playback /\ session'.voice = session.voice
      /\ session'.stopping = session.stopping /\ session'.moveTarget = session.moveTarget
      /\ session'.phase = session.phase
  BY <1>1 DEF StarterDiscards, GiveUp, Sessions
<1>3. /\ starter' \in [Workers -> WorkerStates] /\ starter'[w].pc = "idle"
      /\ \A v \in Workers \ {w} : starter'[v] = starter[v]
  BY <1>1, WorkerMoved, IdleIsState DEF StarterDiscards, GiveUp
<1>4. StreamTypes'
  BY <1>1, <1>2, <1>3 DEF StreamInv, StreamTypes, CoreTypes
<1>5. \A v \in Workers : Starting(v)' => v # w /\ Starting(v) /\ starter'[v] = starter[v]
  BY <1>3 DEF Starting
<1>6. GenerationsPast' /\ OneStreamEach'
  <2>1. \A v \in Workers, st \in streams' :
           starter'[v].pc = "start" => st.generation # starter'[v].generation
    BY <1>1, <1>3 DEF StreamInv, StreamPart, OneStreamEach
  <2> QED
    BY <1>1, <1>2, <1>5, <2>1 DEF StreamInv, StreamPart, GenerationsPast, OneStreamEach
<1>7. NoOrphanStream'
  <2> SUFFICES ASSUME NEW st \in streams'
               PROVE  st.stopped \/ Held(st)' \/ session'.playback = st.generation
    BY DEF NoOrphanStream
  <2>1. Held(st) => Held(st)'
    BY <1>1, <1>3 DEF Held
  <2> QED
    BY <1>1, <1>2, <2>1 DEF StreamInv, StreamPart, NoOrphanStream
<1>8. StreamPart'
  BY <1>1, <1>2, <1>6, <1>7 DEF StreamInv, StreamPart, PlaybackIsCurrent
<1>9. VoicePart'
  <2>1. NoNewStarts(starter', starter)
    BY <1>5 DEF NoNewStarts, Starting
  <2>2. JoinsGoOn(joins', joins) /\ JoinsHold' /\ NoOrphanConnection'
    BY <1>1, <1>2, JoinsStay DEF StreamInv, VoicePart, NoOrphanConnection
  <2> QED
    BY <1>1, <1>2, <2>1, <2>2, VoiceKept DEF StreamInv
<1> QED
  BY <1>4, <1>8, <1>9 DEF StreamInv

-----------------------------------------------------------------------------
(* The invariant holds in every state.                                     *)

LEMMA StarterStepStream == ASSUME StreamInv, NEW w \in Workers, StarterStep(w) PROVE StreamInv'
BY StarterEntersStream, StarterFetchedStream, StarterSelectsStream, StreamStartsStream,
   StartFailsStream, StaleStartFailsStream, StarterCommitsStream, StarterDiscardsStream
DEF StarterStep

LEMMA StreamStepStream == ASSUME StreamInv, StreamStep PROVE StreamInv'
<1>1. CASE \E st \in streams, replay \in BOOLEAN : StreamEnds(st, replay)
  BY <1>1, StreamEndsStream
<1>2. CASE \E st \in streams : StreamLosesVoice(st)
  BY <1>2, StreamLosesVoiceStream
<1>3. CASE \E st \in streams : StallRestarts(st)
  BY <1>3, StallRestartsStream
<1>4. CASE \E st \in streams : StallExhausts(st)
  BY <1>4, StallExhaustsStream
<1> QED
  BY <1>1, <1>2, <1>3, <1>4 DEF StreamStep

LEMMA UserStepStream == ASSUME StreamInv, UserStep PROVE StreamInv'
<1>1. CASE \E channel \in Channels : Connect(channel)
  BY <1>1, ConnectStream
<1>2. CASE \E request \in Requests, placement \in Placements : Enqueue(request, placement)
  BY <1>2, EnqueueStream
<1>3. CASE Pause \/ Resume \/ Toggle247
  BY <1>3, PhaseStream
<1>4. CASE Skip \/ Previous
  BY <1>4, SkipStream
<1>5. CASE Loop \/ SetLoop \/ Shuffle \/ Clear
  BY <1>5, EditsStream
<1>6. CASE Stop
  BY <1>6, StopsStream
<1> QED
  BY <1>1, <1>2, <1>3, <1>4, <1>5, <1>6 DEF UserStep

LEMMA DiscordStepStream == ASSUME StreamInv, DiscordStep PROVE StreamInv'
<1>1. CASE \E channel \in Channels : BotMoved(channel)
  BY <1>1, BotMovedStream
<1>2. CASE \E channel \in Channels : BotSeen(channel)
  BY <1>2, BotSeenStream
<1>3. CASE \E channel \in Channels : BotSeenRecovering(channel)
  BY <1>3, BotSeenRecoveringStream
<1>4. CASE BotDisconnected \/ \E conn \in Conns : ConnectionLost(conn)
  BY <1>4, LossesStream
<1>5. CASE ChannelDeleted \/ InactivityTimeout
  BY <1>5, StopsStream
<1> QED
  BY <1>1, <1>2, <1>3, <1>4, <1>5 DEF DiscordStep

LEMMA JoinStepStream ==
    ASSUME StreamInv, NEW kind \in JoinKinds, JoinStep(kind) PROVE StreamInv'
BY JoinMovesStream, JoinStartsStream, JoinEndsStream DEF JoinStep, JoinsOf

LEMMA NextStreamInv ==
    ASSUME StreamInv, [Next]_vars, Excluded \cap Operations = {} PROVE StreamInv'
<1>1. CASE UserStep
  BY <1>1, UserStepStream
<1>2. CASE DiscordStep
  BY <1>2, DiscordStepStream
<1>3. CASE Kick
  BY <1>3, KickStream
<1>4. CASE \E w \in Workers : StarterStep(w)
  BY <1>4, StarterStepStream
<1>5. CASE StreamStep
  BY <1>5, StreamStepStream
<1>6. CASE PrefetchEnds
  BY <1>6, PrefetchEndsStream
<1>7. CASE \E kind \in JoinKinds : JoinStep(kind)
  BY <1>7, JoinStepStream
<1>8. CASE ConnectStep
  BY <1>8, JoinMovesStream, ConnectCommitsStream DEF ConnectStep
<1>9. CASE RecoveryStep
  BY <1>9, RecoveryWaitedStream, RecoveryEndsStream DEF RecoveryStep
<1>10. CASE MoveStep
  BY <1>10, MoveEndsStream DEF MoveStep
<1>11. CASE LossStep
  BY <1>11, LossesStream, LossBeginsStream DEF LossStep
<1>12. CASE LossTearsDown
  BY <1>12, LossTearsDownStream
<1>13. CASE ExhaustionCleanup
  BY <1>13, ExhaustionCleanupStream
<1>14. CASE UNCHANGED vars
  BY <1>14, FewerStreams DEF vars, voiceVars, playbackVars, watchdogVars
<1> QED
  BY <1>1, <1>2, <1>3, <1>4, <1>5, <1>6, <1>7, <1>8, <1>9, <1>10, <1>11, <1>12, <1>13,
     <1>14 DEF Next

LEMMA StreamInvAlways == ASSUME Excluded \cap Operations = {} PROVE Spec => []StreamInv
<1>1. StreamInv /\ [Next]_vars => StreamInv'
  BY NextStreamInv
<1> QED
  BY InitStreamInv, <1>1, PTL DEF Spec

\* Nothing that makes a sound or holds a socket is left without somebody to stop it,
\* through commands, moves, losses, recoveries, stalls and stops that overtake each
\* other: a stream that is not the session's is stopped or about to be handed over, and
\* an open connection is the session's or a joiner's.  (Not when Connect takes over
\* during an external move or a teardown: RadioSession admits those by name only.)
THEOREM NoOrphansAlways == ASSUME Excluded \cap Operations = {} PROVE Spec => []NoOrphans
<1>1. StreamInv => NoOrphans
  BY DEF StreamInv, StreamPart, VoicePart, NoOrphans
<1> QED
  BY StreamInvAlways, <1>1, PTL

\* The stream the session plays is the one of its current generation and current track,
\* and no other is being started, even when a move during a recovery lets two workers
\* start tracks at once.
THEOREM PlaybackIsCurrentAlways ==
    ASSUME Excluded \cap Operations = {} PROVE Spec => []PlaybackIsCurrent
<1>1. StreamInv => PlaybackIsCurrent
  BY DEF StreamInv, StreamPart
<1> QED
  BY StreamInvAlways, <1>1, PTL

-----------------------------------------------------------------------------
(* What was captured lies in the past.                                     *)

\* The fields of the session that 24/7 mode depends on.
Alike(t, s) == t.is247 = s.is247 /\ t.channel = s.channel

LEMMA AlikeSessions ==
    ASSUME NEW s \in Sessions
    PROVE  /\ Alike(Detached(s), s) /\ Alike(NextGeneration(s), s) /\ Alike(NextEpoch(s), s)
           /\ Alike(BegunStopping(s), s)
<1>1. /\ Alike(Detached(s), s) /\ Alike(NextGeneration(s), s) /\ Alike(NextEpoch(s), s)
  BY DEF Alike, Detached, NextGeneration, NextEpoch, Sessions
<1> DEFINE e == NextEpoch(s)
           t == NextGeneration(e)
<1>2. e \in Sessions /\ Alike(e, s)
  BY <1>1, NextEpochFields
<1> HIDE DEF e
<1>3. t \in Sessions /\ Alike(t, s)
  BY <1>2, NextGenerationFields DEF Alike, NextGeneration, Sessions
<1>4. BegunStopping(s) = [t EXCEPT !.phase = "stopping", !.stopping = TRUE]
  BY DEF BegunStopping, e
<1> HIDE DEF t
<1>5. Alike(BegunStopping(s), s)
  BY <1>3, <1>4 DEF Alike, Sessions
<1> QED
  BY <1>1, <1>5

\* A step counts epochs and generations up, and no session is recovering that was not,
\* in the same channel, or did not just enter an epoch.
Onward ==
    /\ session'.epoch >= session.epoch
    /\ session'.generation >= session.generation
    /\ session'.phase = "recovering" =>
          /\ session'.channel = session.channel
          /\ session.phase = "recovering" \/ session'.epoch > session.epoch

LEMMA SameCounts ==
    ASSUME session \in Sessions, session'.epoch = session.epoch,
           session'.generation = session.generation,
           session'.phase = "recovering" =>
              session.phase = "recovering" /\ session'.channel = session.channel
    PROVE  Onward
BY DEF Onward, Sessions

LEMMA StoppedOnward ==
    ASSUME session \in Sessions, session' = FinishedStopping(BegunStopping(session))
    PROVE  Onward
<1>1. /\ session'.epoch = session.epoch + 1 /\ session'.generation = session.generation + 1
      /\ session'.phase = "idle"
  BY StoppedFields
<1> QED
  BY <1>1 DEF Onward, Sessions

LEMMA StartNextOnward == ASSUME session \in Sessions, StartNext PROVE Onward
<1>1. /\ session'.epoch = session.epoch /\ session'.generation = session.generation
      /\ session'.phase \in {session.phase, "loading"} /\ session'.channel = session.channel
  BY DEF StartNext, StartedLoading, Sessions
<1> QED
  BY <1>1, SameCounts

LEMMA GiveUpOnward ==
    ASSUME session \in Sessions, NEW w \in Workers, NEW p \in Phases \ {"recovering"},
           GiveUp(w, session) \/ GiveUp(w, [session EXCEPT !.phase = p])
    PROVE  Onward
<1>1. /\ session'.epoch = session.epoch /\ session'.generation = session.generation
      /\ session'.phase \in {session.phase, p} /\ session'.channel = session.channel
  BY DEF GiveUp, Sessions
<1> QED
  BY <1>1, SameCounts

LEMMA UserOnward == ASSUME session \in Sessions, UserStep PROVE Onward
<1>1. CASE \E channel \in Channels : Connect(channel)
  <2>1. /\ session'.epoch = session.epoch /\ session'.generation = session.generation
        /\ session'.phase = session.phase /\ session'.channel = session.channel
    BY <1>1 DEF Connect, Sessions
  <2> QED
    BY <2>1, SameCounts
<1>2. CASE \E request \in Requests, placement \in Placements : Enqueue(request, placement)
  <2>1. /\ session'.epoch = session.epoch /\ session'.generation = session.generation
        /\ session'.phase \in {session.phase, "loading"} /\ session'.channel = session.channel
    BY <1>2 DEF Enqueue, Sessions
  <2> QED
    BY <2>1, SameCounts
<1>3. CASE Pause \/ Resume \/ Toggle247
  <2>1. /\ session'.epoch = session.epoch /\ session'.generation = session.generation
        /\ session'.phase \in {session.phase, "paused", "playing"}
        /\ session'.channel = session.channel
    BY <1>3 DEF Pause, Resume, Toggle247, Sessions
  <2> QED
    BY <2>1, SameCounts
<1>4. CASE Skip \/ Previous
  <2> DEFINE d == Detached(session)
             t == NextGeneration(d)
  <2>1. d \in Sessions /\ d.epoch = session.epoch /\ d.generation = session.generation
    BY DetachedFields
  <2> HIDE DEF d
  <2>2. /\ t \in Sessions /\ t.epoch = session.epoch
        /\ t.generation = session.generation + 1
    BY <2>1, NextGenerationFields
  <2>3. session' = [t EXCEPT !.phase = "loading"]
    BY <1>4 DEF Skip, Previous, Restart, d
  <2> HIDE DEF t
  <2>4. /\ session'.epoch = session.epoch /\ session'.generation = session.generation + 1
        /\ session'.phase = "loading"
    BY <2>2, <2>3 DEF Sessions
  <2> QED
    BY <2>4 DEF Onward, Sessions
<1>5. CASE Loop \/ SetLoop \/ Shuffle \/ Clear
  BY <1>5, SameCounts DEF Loop, SetLoop, Shuffle, Clear, Edit
<1>6. CASE Stop
  BY <1>6, StoppedOnward DEF Stop, StopAll
<1> QED
  BY <1>1, <1>2, <1>3, <1>4, <1>5, <1>6 DEF UserStep

LEMMA DiscordOnward == ASSUME session \in Sessions, DiscordStep PROVE Onward
<1>1. CASE \E channel \in Channels : BotMoved(channel)
  <2> DEFINE e == NextEpoch(session)
             s == NextGeneration(e)
             t == Detached(s)
  <2>1. e \in Sessions /\ e.epoch = session.epoch + 1 /\ e.generation = session.generation
    BY NextEpochFields
  <2> HIDE DEF e
  <2>2. /\ s \in Sessions /\ s.epoch = session.epoch + 1
        /\ s.generation = session.generation + 1
    BY <2>1, NextGenerationFields
  <2> HIDE DEF s
  <2>3. /\ t \in Sessions /\ t.epoch = session.epoch + 1
        /\ t.generation = session.generation + 1
    BY <2>2, DetachedFields
  <2>4. \E channel \in Channels :
          session' = [t EXCEPT !.moveTarget = channel, !.transition = TRUE, !.voice = NoConn,
                               !.channel = channel, !.phase = "connecting"]
    BY <1>1 DEF BotMoved, e, s
  <2> HIDE DEF t
  <2>5. /\ session'.epoch = session.epoch + 1 /\ session'.generation = session.generation + 1
        /\ session'.phase = "connecting"
    BY <2>3, <2>4 DEF Sessions
  <2> QED
    BY <2>5 DEF Onward, Sessions
<1>2. CASE \E channel \in Channels : BotSeen(channel)
  <2>1. /\ session'.epoch = session.epoch /\ session'.generation = session.generation
        /\ session'.phase = session.phase /\ session.phase # "recovering"
    BY <1>2 DEF BotSeen, Sessions
  <2> QED
    BY <2>1, SameCounts
<1>3. CASE \E channel \in Channels : BotSeenRecovering(channel)
  <2> DEFINE t == NextEpoch(session)
  <2>1. t \in Sessions /\ t.epoch = session.epoch + 1 /\ t.generation = session.generation
    BY NextEpochFields
  <2>2. \E channel \in Channels :
          session' = [t EXCEPT !.channel = channel, !.phase = "idle", !.starting = FALSE]
    BY <1>3 DEF BotSeenRecovering
  <2> HIDE DEF t
  <2>3. /\ session'.epoch = session.epoch + 1 /\ session'.generation = session.generation
        /\ session'.phase = "idle"
    BY <2>1, <2>2 DEF Sessions
  <2> QED
    BY <2>3 DEF Onward, Sessions
<1>4. CASE BotDisconnected \/ \E conn \in Conns : ConnectionLost(conn)
  BY <1>4, SameCounts DEF BotDisconnected, ConnectionLost
<1>5. CASE ChannelDeleted \/ InactivityTimeout
  BY <1>5, StoppedOnward DEF ChannelDeleted, InactivityTimeout, StopAll
<1> QED
  BY <1>1, <1>2, <1>3, <1>4, <1>5 DEF DiscordStep

LEMMA StarterOnward == ASSUME session \in Sessions, NEW w \in Workers, StarterStep(w) PROVE Onward
<1>1. CASE StarterEnters(w) \/ StarterFetched(w) \/ StreamStarts(w) \/ StarterDiscards(w)
  <2>1. \/ session' = session
        \/ GiveUp(w, session)
        \/ GiveUp(w, [session EXCEPT !.phase = "idle"])
    BY <1>1 DEF StarterEnters, StarterFetched, StreamStarts, StarterDiscards
  <2>2. "idle" \in Phases \ {"recovering"}
    BY DEF Phases
  <2> QED
    BY <2>1, <2>2, GiveUpOnward, SameCounts
<1>2. CASE StarterSelects(w)
  <2>1. \/ session' = NextGeneration(session)
        \/ GiveUp(w, session)
        \/ GiveUp(w, [session EXCEPT !.phase = "idle"])
    BY <1>2 DEF StarterSelects
  <2>2. "idle" \in Phases \ {"recovering"}
    BY DEF Phases
  <2>3. CASE session' = NextGeneration(session)
    <3>1. /\ session'.epoch = session.epoch /\ session'.generation = session.generation + 1
          /\ session'.phase = session.phase /\ session'.channel = session.channel
      BY <2>3, NextGenerationFields, AlikeSessions DEF Alike
    <3> QED
      BY <3>1 DEF Onward, Sessions
  <2> QED
    BY <2>1, <2>2, <2>3, GiveUpOnward
<1>3. CASE \E unusable \in BOOLEAN : StartFails(w, unusable)
  <2>1. /\ session'.epoch = session.epoch /\ session'.generation = session.generation
        /\ session'.phase \in {"loading", "idle"}
    BY <1>3 DEF StartFails, Sessions
  <2> QED
    BY <2>1, SameCounts
<1>4. CASE StaleStartFails(w)
  <2>1. /\ session'.epoch = session.epoch /\ session'.generation = session.generation
        /\ session'.phase \in {session.phase, "loading", "idle"}
        /\ session'.channel = session.channel
    BY <1>4 DEF StaleStartFails, GiveUp, Sessions
  <2> QED
    BY <2>1, SameCounts
<1>5. CASE StarterCommits(w)
  <2>1. /\ session'.epoch = session.epoch /\ session'.generation = session.generation
        /\ session'.phase = "playing"
    BY <1>5 DEF StarterCommits, Sessions
  <2> QED
    BY <2>1, SameCounts
<1> QED
  BY <1>1, <1>2, <1>3, <1>4, <1>5 DEF StarterStep

LEMMA StreamOnward == ASSUME session \in Sessions, StreamStep \/ PrefetchEnds PROVE Onward
<1>1. CASE PrefetchEnds \/ \E st \in streams : StreamLosesVoice(st)
  BY <1>1, SameCounts DEF PrefetchEnds, StreamLosesVoice
<1>2. CASE \E st \in streams, replay \in BOOLEAN : StreamEnds(st, replay)
  <2> DEFINE t == Detached(session)
  <2>1. /\ t \in Sessions /\ t.epoch = session.epoch /\ t.generation = session.generation
        /\ t.channel = session.channel
    BY DetachedFields, AlikeSessions DEF Alike
  <2>2. session' = session \/ \E p \in {"loading", "idle"} : session' = [t EXCEPT !.phase = p]
    BY <1>2 DEF StreamEnds
  <2> HIDE DEF t
  <2>3. /\ session'.epoch = session.epoch /\ session'.generation = session.generation
        /\ session'.phase \in {session.phase, "loading", "idle"}
        /\ session'.channel = session.channel
    BY <2>1, <2>2 DEF Sessions
  <2> QED
    BY <2>3, SameCounts
<1>3. CASE \E st \in streams : StallRestarts(st)
  <2> DEFINE d == Detached(session)
             t == NextGeneration(d)
  <2>1. d \in Sessions /\ d.epoch = session.epoch /\ d.generation = session.generation
    BY DetachedFields
  <2> HIDE DEF d
  <2>2. /\ t \in Sessions /\ t.epoch = session.epoch
        /\ t.generation = session.generation + 1
    BY <2>1, NextGenerationFields
  <2>3. session' = [t EXCEPT !.restarting = TRUE, !.phase = "loading"]
    BY <1>3 DEF StallRestarts, d
  <2> HIDE DEF t
  <2>4. /\ session'.epoch = session.epoch /\ session'.generation = session.generation + 1
        /\ session'.phase = "loading"
    BY <2>2, <2>3 DEF Sessions
  <2> QED
    BY <2>4 DEF Onward, Sessions
<1>4. CASE \E st \in streams : StallExhausts(st)
  <2> DEFINE b == BegunStopping(session)
             s == Detached(b)
  <2>1. /\ b \in Sessions /\ b.phase = "stopping" /\ b.epoch = session.epoch + 1
        /\ b.generation = session.generation + 1
    BY BegunFields
  <2>2. session' = [s EXCEPT !.voice = NoConn]
    BY <1>4 DEF StallExhausts
  <2> HIDE DEF b
  <2>3. /\ session'.phase = "stopping" /\ session'.epoch = session.epoch + 1
        /\ session'.generation = session.generation + 1
    BY <2>1, <2>2 DEF Detached, Sessions
  <2> QED
    BY <2>3 DEF Onward, Sessions
<1> QED
  BY <1>1, <1>2, <1>3, <1>4 DEF StreamStep

LEMMA JoinOnward ==
    ASSUME session \in Sessions,
           \/ \E kind \in JoinKinds : JoinStep(kind)
           \/ ConnectStep \/ RecoveryStep \/ MoveStep
    PROVE  Onward
<1>1. CASE \E j \in joins : JoinBegins(j) \/ JoinSucceeds(j) \/ JoinFails(j) \/ ConnectFails(j)
  BY <1>1, SameCounts DEF JoinBegins, JoinSucceeds, JoinFails, ConnectFails
<1>2. CASE \E j \in joins : JoinStarts(j)
  BY <1>2, StartNextOnward DEF JoinStarts
<1>3. CASE \E j \in joins : JoinEnds(j) \/ RecoveryWaited(j)
  <2>1. /\ session'.epoch = session.epoch /\ session'.generation = session.generation
        /\ session'.phase = session.phase /\ session'.channel = session.channel
    BY <1>3 DEF JoinEnds, RecoveryWaited, Sessions
  <2> QED
    BY <2>1, SameCounts
<1>4. CASE \E j \in joins, suppress \in BOOLEAN : ConnectCommits(j, suppress)
  <2>1. PICK j \in joins, suppress \in BOOLEAN : ConnectCommits(j, suppress)
    BY <1>4
  <2> DEFINE e == NextEpoch(session)
             s == IF j.moving THEN NextGeneration(e) ELSE session
             t == Detached(s)
  <2>2. e \in Sessions /\ e.epoch = session.epoch + 1 /\ e.generation = session.generation
    BY NextEpochFields
  <2> HIDE DEF e
  <2>3. /\ s \in Sessions /\ s.epoch \in {session.epoch, session.epoch + 1}
        /\ s.generation \in {session.generation, session.generation + 1}
    BY <2>2, NextGenerationFields
  <2> HIDE DEF s
  <2>4. t \in Sessions /\ t.epoch = s.epoch /\ t.generation = s.generation
    BY <2>3, DetachedFields
  <2>5. session' = [t EXCEPT !.voice = j.conn, !.phase = "idle", !.channel = j.channel]
    BY <2>1 DEF ConnectCommits, e, s
  <2> HIDE DEF t
  <2>6. session'.epoch = s.epoch /\ session'.generation = s.generation /\ session'.phase = "idle"
    BY <2>4, <2>5 DEF Sessions
  <2> QED
    BY <2>3, <2>6 DEF Onward, Sessions
<1>5. CASE \E j \in joins : RecoveryEnds(j)
  <2>1. PICK j \in joins : RecoveryEnds(j)
    BY <1>5
  <2>2. CASE session' = FinishedStopping(BegunStopping(session))
    BY <2>2, StoppedOnward
  <2>3. CASE session' = session
    BY <2>3, SameCounts
  <2>4. CASE session' = [session EXCEPT !.voice = j.conn, !.channel = j.channel,
                                        !.phase = "loading"]
    <3>1. /\ session'.epoch = session.epoch /\ session'.generation = session.generation
          /\ session'.phase = "loading"
      BY <2>4 DEF Sessions
    <3> QED
      BY <3>1, SameCounts
  <2> QED
    BY <2>1, <2>2, <2>3, <2>4 DEF RecoveryEnds
<1>6. CASE \E j \in joins : MoveEnds(j)
  <2>1. /\ session'.epoch = session.epoch /\ session'.generation = session.generation
        /\ session' = session \/ session'.phase \in {"idle", "loading"}
    BY <1>6 DEF MoveEnds, Sessions
  <2> QED
    BY <2>1, SameCounts
<1> QED
  BY <1>1, <1>2, <1>3, <1>4, <1>5, <1>6 DEF JoinStep, JoinsOf, ConnectStep, RecoveryStep, MoveStep

LEMMA LossOnward ==
    ASSUME session \in Sessions, LossStep \/ LossTearsDown \/ ExhaustionCleanup
    PROVE  Onward
<1>1. CASE \E conn \in losses : LossIgnored(conn)
  BY <1>1, SameCounts DEF LossIgnored
<1>2. CASE \E conn \in losses : LossBegins(conn)
  <2> DEFINE e == NextEpoch(session)
             s == Detached(e)
  <2>1. /\ e \in Sessions /\ e.epoch = session.epoch + 1 /\ e.generation = session.generation
        /\ e.channel = session.channel
    BY NextEpochFields, AlikeSessions DEF Alike
  <2> HIDE DEF e
  <2>2. /\ s \in Sessions /\ s.epoch = session.epoch + 1 /\ s.generation = session.generation
        /\ s.channel = session.channel
    BY <2>1, DetachedFields, AlikeSessions DEF Alike
  <2>3. session' = [s EXCEPT !.phase = "recovering", !.voice = NoConn]
    BY <1>2 DEF LossBegins, e
  <2> HIDE DEF s
  <2>4. /\ session'.epoch = session.epoch + 1 /\ session'.generation = session.generation
        /\ session'.channel = session.channel
    BY <2>2, <2>3 DEF Sessions
  <2> QED
    BY <2>4 DEF Onward, Sessions
<1>3. CASE session' = session
  BY <1>3, SameCounts
<1>4. CASE session' = FinishedStopping(BegunStopping(session))
  BY <1>4, StoppedOnward
<1>5. CASE session' = FinishedStopping(session)
  BY <1>5, FinishedFields, SameCounts
<1> QED
  BY <1>1, <1>2, <1>3, <1>4, <1>5 DEF LossStep, LossTearsDown, ExhaustionCleanup

LEMMA NextOnward == ASSUME session \in Sessions, [Next]_vars PROVE Onward
<1>1. CASE Kick
  BY <1>1, StartNextOnward DEF Kick
<1>2. CASE UNCHANGED vars
  BY <1>2, SameCounts DEF vars
<1> QED
  BY <1>1, <1>2, UserOnward, DiscordOnward, StarterOnward, StreamOnward, JoinOnward, LossOnward
  DEF Next

\* Where a worker may come from: a fetch begins in the epoch of a session that can start
\* a track, and an attempt takes the next generation.
MayBecome(w, r) ==
    /\ r.pc = "fetch" =>
          \/ starter[w].pc = "fetch" /\ r.epoch = starter[w].epoch
          \/ CanStart(session) /\ r.epoch = session.epoch
    /\ r.pc \in {"start", "commit"} =>
          \/ Starting(w) /\ r.generation = starter[w].generation
          \/ r.generation = session'.generation /\ session'.generation = session.generation + 1

WorkersOnward == \A w \in Workers : MayBecome(w, starter'[w])

LEMMA SameWorkersOnward == ASSUME SameWorkers(starter', starter) PROVE WorkersOnward
BY DEF SameWorkers, WorkersOnward, MayBecome, Starting

LEMMA WorkerOnward ==
    ASSUME NEW a \in [Workers -> WorkerStates], SameWorkers(a, starter),
           NEW w \in Workers, NEW r \in WorkerStates, MayBecome(w, r),
           starter' = [a EXCEPT ![w] = r]
    PROVE  WorkersOnward
<1>1. starter'[w] = r /\ \A v \in Workers \ {w} : starter'[v] = a[v]
  BY WorkerMoved
<1>2. \A v \in Workers \ {w} : MayBecome(v, starter'[v])
  BY <1>1 DEF SameWorkers, MayBecome, Starting
<1> QED
  BY <1>1, <1>2 DEF WorkersOnward

LEMMA SelfSameWorkers == SameWorkers(starter, starter)
BY DEF SameWorkers

LEMMA StartNextWorkers ==
    ASSUME starter \in [Workers -> WorkerStates], StartNext PROVE WorkersOnward
<1>1. CASE UNCHANGED starter
  BY <1>1, SameWorkersOnward, SelfSameWorkers
<1>2. CASE SpawnStarter
  <2> DEFINE r == [IdleWorker EXCEPT !.pc = "entry"]
  <2>1. r \in WorkerStates /\ r.pc = "entry"
    BY DEF IdleWorker, WorkerStates
  <2>2. PICK w \in Workers : starter' = [starter EXCEPT ![w] = r]
    BY <1>2 DEF SpawnStarter, FreeWorkers
  <2> HIDE DEF r
  <2>3. MayBecome(w, r)
    BY <2>1 DEF MayBecome
  <2> QED
    BY <2>1, <2>2, <2>3, WorkerOnward, SelfSameWorkers
<1> QED
  BY <1>1, <1>2 DEF StartNext

LEMMA StarterWorkers ==
    ASSUME session \in Sessions, starter \in [Workers -> WorkerStates],
           NEW w \in Workers, StarterStep(w)
    PROVE  WorkersOnward
<1>1. IdleWorker \in WorkerStates /\ MayBecome(w, IdleWorker)
  BY IdleIsState DEF MayBecome
<1>2. /\ SameWorkers(Revised, starter) /\ Revised \in [Workers -> WorkerStates]
      /\ \A changed \in BOOLEAN :
             /\ RevisedIf(changed) \in [Workers -> WorkerStates]
             /\ SameWorkers(RevisedIf(changed), starter)
  BY RevisedWorkers
<1>3. CASE starter' = [starter EXCEPT ![w] = IdleWorker]
  BY <1>1, <1>3, WorkerOnward, SelfSameWorkers
<1>4. CASE Proceed(w, "select")
  <2> DEFINE r == [starter[w] EXCEPT !.pc = "select"]
  <2>1. r \in WorkerStates /\ r.pc = "select"
    BY DEF WorkerStates
  <2>2. starter' = [starter EXCEPT ![w] = r]
    BY <1>4 DEF Proceed
  <2> HIDE DEF r
  <2>3. MayBecome(w, r)
    BY <2>1 DEF MayBecome
  <2> QED
    BY <2>1, <2>2, <2>3, WorkerOnward, SelfSameWorkers
<1>5. CASE StarterEnters(w)
  <2> DEFINE r == [pc |-> "fetch", epoch |-> session.epoch, generation |-> 0,
                   fresh |-> TRUE, latest |-> TRUE]
  <2>1. r \in WorkerStates /\ r.pc = "fetch" /\ r.epoch = session.epoch
    BY DEF WorkerStates, Sessions
  <2>2. \/ starter' = [starter EXCEPT ![w] = IdleWorker]
        \/ Proceed(w, "select")
        \/ CanStart(session) /\ starter' = [Outdated EXCEPT ![w] = r]
    BY <1>5 DEF StarterEnters, GiveUp
  <2> HIDE DEF r
  <2>3. CASE CanStart(session) /\ starter' = [Outdated EXCEPT ![w] = r]
    <3>1. MayBecome(w, r)
      BY <2>1, <2>3 DEF MayBecome
    <3> QED
      BY <2>1, <2>3, <3>1, OutdatedWorkers, WorkerOnward
  <2> QED
    BY <1>3, <1>4, <2>2, <2>3
<1>6. CASE StarterFetched(w)
  BY <1>3, <1>4, <1>6 DEF StarterFetched, GiveUp
<1>7. CASE StarterSelects(w)
  <2> DEFINE r == [pc |-> "start", epoch |-> session.epoch,
                   generation |-> session.generation + 1, fresh |-> FALSE, latest |-> FALSE]
  <2>1. r \in WorkerStates /\ r.pc = "start" /\ r.generation = session.generation + 1
    BY DEF WorkerStates, Sessions
  <2>2. \/ starter' = [starter EXCEPT ![w] = IdleWorker]
        \/ session' = NextGeneration(session) /\ starter' = [Revised EXCEPT ![w] = r]
    BY <1>7 DEF StarterSelects, GiveUp
  <2> HIDE DEF r
  <2>3. CASE session' = NextGeneration(session) /\ starter' = [Revised EXCEPT ![w] = r]
    <3>1. MayBecome(w, r)
      BY <2>1, <2>3, NextGenerationFields DEF MayBecome
    <3> QED
      BY <1>2, <2>1, <2>3, <3>1, WorkerOnward
  <2> QED
    BY <1>3, <2>2, <2>3
<1>8. CASE StreamStarts(w)
  <2> DEFINE r == [starter[w] EXCEPT !.pc = "commit"]
  <2>1. /\ r \in WorkerStates /\ r.pc = "commit" /\ starter[w].pc = "start"
        /\ r.generation = starter[w].generation
    BY <1>8 DEF WorkerStates, StreamStarts
  <2>2. starter' = [starter EXCEPT ![w] = r]
    BY <1>8 DEF StreamStarts, Proceed
  <2> HIDE DEF r
  <2>3. MayBecome(w, r)
    BY <2>1 DEF MayBecome, Starting
  <2> QED
    BY <2>1, <2>2, <2>3, WorkerOnward, SelfSameWorkers
<1>9. CASE \E unusable \in BOOLEAN : StartFails(w, unusable)
  <2>1. starter' = [RevisedIf(playlist.current # NoTrack) EXCEPT ![w] = IdleWorker]
    BY <1>9 DEF StartFails
  <2> QED
    BY <1>1, <1>2, <2>1, WorkerOnward
<1>10. CASE StaleStartFails(w) \/ StarterCommits(w) \/ StarterDiscards(w)
  BY <1>3, <1>10 DEF StaleStartFails, StarterCommits, StarterDiscards, GiveUp
<1> QED
  BY <1>5, <1>6, <1>7, <1>8, <1>9, <1>10 DEF StarterStep

LEMMA NextWorkers ==
    ASSUME session \in Sessions, starter \in [Workers -> WorkerStates], [Next]_vars
    PROVE  WorkersOnward
<1>1. CASE Kick \/ \E kind \in JoinKinds, j \in joins : JoinStarts(j)
  BY <1>1, StartNextWorkers DEF Kick, JoinStarts
<1>2. CASE \E w \in Workers : StarterStep(w)
  BY <1>2, StarterWorkers
<1>3. CASE \/ starter' = starter \/ starter' = Revised \/ starter' = Outdated
           \/ \E changed \in BOOLEAN : starter' = RevisedIf(changed)
  BY <1>3, RevisedWorkers, OutdatedWorkers, SameWorkersOnward, SelfSameWorkers
<1>4. CASE UserStep
  BY <1>3, <1>4 DEF UserStep, Connect, Enqueue, Pause, Resume, Skip, Previous, Restart, Loop,
    SetLoop, Shuffle, Clear, Edit, Stop, Toggle247, playbackVars
<1>5. CASE DiscordStep
  BY <1>3, <1>5 DEF DiscordStep, BotMoved, BotSeen, BotSeenRecovering, BotDisconnected,
    ChannelDeleted, InactivityTimeout, ConnectionLost, playbackVars
<1>6. CASE StreamStep \/ PrefetchEnds
  BY <1>3, <1>6 DEF StreamStep, StreamEnds, StreamLosesVoice, StallRestarts, StallExhausts,
    PrefetchEnds
<1>7. CASE \E kind \in JoinKinds : JoinStep(kind)
  BY <1>1, <1>3, <1>7 DEF JoinStep, JoinsOf, JoinBegins, JoinSucceeds, JoinFails, JoinEnds,
    playbackVars
<1>8. CASE ConnectStep \/ RecoveryStep \/ MoveStep
  BY <1>3, <1>8 DEF ConnectStep, ConnectFails, ConnectCommits, RecoveryStep, RecoveryWaited,
    RecoveryEnds, MoveStep, MoveEnds, playbackVars
<1>9. CASE LossStep \/ LossTearsDown \/ ExhaustionCleanup \/ UNCHANGED vars
  BY <1>3, <1>9 DEF LossStep, LossIgnored, LossBegins, LossTearsDown, ExhaustionCleanup, vars,
    playbackVars
<1> QED
  BY <1>1, <1>2, <1>4, <1>5, <1>6, <1>7, <1>8, <1>9 DEF Next

-----------------------------------------------------------------------------
(* 24/7 mode.                                                              *)

\* A stream has the epoch of the attempt that started it.
StreamsOnward ==
    \A st \in streams' :
        \/ \E old \in streams : st.epoch = old.epoch
        \/ \E w \in Workers : Starting(w) /\ st.epoch = starter[w].epoch

LEMMA NextStreams ==
    ASSUME streams \subseteq StreamStates, [Next]_vars PROVE StreamsOnward
<1>1. CASE streams' \subseteq streams
  BY <1>1 DEF StreamsOnward
<1>2. CASE \E g : streams' = StopStream(g)
  BY <1>2 DEF StreamsOnward, StopStream, StreamStates
<1>3. CASE \E w \in Workers : StreamStarts(w)
  BY <1>3 DEF StreamsOnward, StreamStarts, Starting
<1>4. CASE UserStep
  BY <1>1, <1>2, <1>4 DEF UserStep, Connect, Enqueue, Pause, Resume, Skip, Previous, Restart,
    Loop, SetLoop, Shuffle, Clear, Edit, Stop, StopAll, Toggle247, playbackVars
<1>5. CASE DiscordStep
  BY <1>1, <1>2, <1>5 DEF DiscordStep, BotMoved, BotSeen, BotSeenRecovering, BotDisconnected,
    ChannelDeleted, InactivityTimeout, StopAll, ConnectionLost, playbackVars
<1>6. CASE StreamStep \/ PrefetchEnds
  BY <1>1, <1>2, <1>6 DEF StreamStep, StreamEnds, StreamLosesVoice, StallRestarts,
    StallExhausts, PrefetchEnds
<1>7. CASE \E w \in Workers : StarterStep(w)
  BY <1>1, <1>3, <1>7 DEF StarterStep, StarterEnters, StarterFetched, StarterSelects,
    StartFails, StaleStartFails, StarterCommits, StarterDiscards
<1>8. CASE (\E kind \in JoinKinds : JoinStep(kind)) \/ Kick
  BY <1>1, <1>8 DEF JoinStep, JoinsOf, JoinBegins, JoinSucceeds, JoinFails, JoinStarts,
    JoinEnds, Kick, playbackVars
<1>9. CASE ConnectStep \/ RecoveryStep \/ MoveStep
  BY <1>1, <1>2, <1>9 DEF ConnectStep, ConnectFails, ConnectCommits, RecoveryStep,
    RecoveryWaited, RecoveryEnds, MoveStep, MoveEnds, playbackVars
<1>10. CASE LossStep \/ LossTearsDown \/ ExhaustionCleanup \/ UNCHANGED vars
  BY <1>1, <1>2, <1>10 DEF LossStep, LossIgnored, LossBegins, LossTearsDown,
    ExhaustionCleanup, vars, playbackVars
<1> QED
  BY <1>4, <1>5, <1>6, <1>7, <1>8, <1>9, <1>10 DEF Next

\* A recovery is begun with a new epoch, and joins what the session is in.
JoinsOnward ==
    \A k \in joins' : k.kind = "recovery" =>
        \/ \E j \in joins :
              j.kind = "recovery" /\ k.epoch = j.epoch /\ k.channel = j.channel
        \/ k.epoch = session.epoch + 1 /\ k.channel = RecoveryTarget

\* Where a join goes on, it is the same join.
SameJoin(k, j) == k.kind = j.kind /\ k.epoch = j.epoch /\ k.channel = j.channel

LEMMA JoinGoesOn ==
    ASSUME NEW j \in JoinStates, NEW pc
    PROVE  /\ SameJoin([j EXCEPT !.pc = pc], j) /\ [j EXCEPT !.pc = pc].pc = pc
           /\ \A c : /\ SameJoin([j EXCEPT !.pc = pc, !.conn = c], j)
                     /\ [j EXCEPT !.pc = pc, !.conn = c].pc = pc
                     /\ SameJoin([j EXCEPT !.conn = c, !.pc = pc], j)
                     /\ [j EXCEPT !.conn = c, !.pc = pc].pc = pc
BY DEF JoinStates, SameJoin

LEMMA JoinsOnwardIf ==
    ASSUME \A k \in joins' : k.kind = "recovery" => \E j \in joins : SameJoin(k, j)
    PROVE  JoinsOnward
BY DEF JoinsOnward, SameJoin

\* A join goes on or ends.
GoesOn(j) ==
    \/ joins' = joins \ {j}
    \/ \E k : SameJoin(k, j) /\ joins' = (joins \ {j}) \cup {k}

LEMMA GoesOnward == ASSUME NEW j \in joins, GoesOn(j) PROVE JoinsOnward
<1>1. CASE joins' = joins \ {j}
  BY <1>1, JoinsOnwardIf DEF SameJoin
<1>2. CASE \E k : SameJoin(k, j) /\ joins' = (joins \ {j}) \cup {k}
  BY <1>2, JoinsOnwardIf DEF SameJoin
<1> QED
  BY <1>1, <1>2 DEF GoesOn

LEMMA JoinsOfJoin ==
    ASSUME joins \subseteq JoinStates,
           (\E kind \in JoinKinds : JoinStep(kind)) \/ ConnectStep \/ RecoveryStep \/ MoveStep
    PROVE  JoinsOnward
<1>1. CASE \E j \in joins : JoinBegins(j) \/ JoinFails(j) \/ JoinStarts(j)
  BY <1>1, JoinGoesOn, GoesOnward DEF JoinBegins, JoinFails, JoinStarts, Advance, GoesOn
<1>2. CASE \E j \in joins : JoinSucceeds(j)
  <2>1. PICK j \in joins : JoinSucceeds(j)
    BY <1>2
  <2>2. \E c : joins' = (joins \ {j}) \cup {[j EXCEPT !.pc = "joined", !.conn = c]}
    BY <2>1 DEF JoinSucceeds
  <2> QED
    BY <2>2, JoinGoesOn, GoesOnward DEF GoesOn
<1>3. CASE \E j \in joins : JoinEnds(j)
  BY <1>3, GoesOnward DEF JoinEnds, GoesOn
<1>4. CASE ConnectStep
  <2>1. PICK j \in joins : ConnectFails(j) \/ \E suppress \in BOOLEAN : ConnectCommits(j, suppress)
    BY <1>4 DEF ConnectStep
  <2>2. \E pc : joins' = (joins \ {j}) \cup {[j EXCEPT !.pc = pc, !.conn = NoConn]}
             \/ joins' = (joins \ {j}) \cup {[j EXCEPT !.conn = NoConn, !.pc = pc]}
    BY <2>1 DEF ConnectFails, ConnectCommits
  <2> QED
    BY <2>2, JoinGoesOn, GoesOnward DEF GoesOn
<1>5. CASE RecoveryStep
  <2>1. PICK j \in joins : RecoveryWaited(j) \/ RecoveryEnds(j)
    BY <1>5 DEF RecoveryStep
  <2>2. \/ joins' = joins \ {j}
        \/ \E pc : joins' = (joins \ {j}) \cup {[j EXCEPT !.pc = pc]}
                \/ joins' = (joins \ {j}) \cup {[j EXCEPT !.conn = NoConn, !.pc = pc]}
    BY <2>1 DEF RecoveryWaited, RecoveryEnds, Advance
  <2> QED
    BY <2>2, JoinGoesOn, GoesOnward DEF GoesOn
<1>6. CASE MoveStep
  BY <1>6, JoinGoesOn, GoesOnward DEF MoveStep, MoveEnds, GoesOn
<1>7. CASE \E kind \in JoinKinds : JoinStep(kind)
  BY <1>1, <1>2, <1>3, <1>7 DEF JoinStep, JoinsOf
<1> QED
  BY <1>4, <1>5, <1>6, <1>7

LEMMA NextJoins ==
    ASSUME session \in Sessions, joins \subseteq JoinStates, [Next]_vars PROVE JoinsOnward
<1>1. CASE \A k \in joins' \ joins : k.kind # "recovery"
  <2>1. \A k \in joins' : k.kind = "recovery" => k \in joins
    BY <1>1
  <2> QED
    BY <2>1, JoinsOnwardIf DEF SameJoin
<1>2. CASE UserStep
  BY <1>1, <1>2 DEF UserStep, Connect, Join, Enqueue, Pause, Resume, Skip, Previous, Restart,
    Loop, SetLoop, Shuffle, Clear, Edit, Stop, Toggle247, voiceVars
<1>3. CASE DiscordStep
  <2>1. CASE \E channel \in Channels : BotMoved(channel)
    <3>1. \A k \in joins' \ joins : k.kind = "move"
      BY <2>1 DEF BotMoved
    <3> QED
      BY <1>1, <3>1
  <2>2. CASE joins' = joins
    BY <1>1, <2>2
  <2> QED
    BY <1>3, <2>1, <2>2 DEF DiscordStep, BotSeen, BotSeenRecovering, BotDisconnected,
      ChannelDeleted, InactivityTimeout, ConnectionLost, voiceVars
<1>4. CASE StreamStep \/ PrefetchEnds \/ Kick \/ \E w \in Workers : StarterStep(w)
  <2>1. joins' = joins
    BY <1>4 DEF StreamStep, StreamEnds, StreamLosesVoice, StallRestarts, StallExhausts,
      PrefetchEnds, Kick, StarterStep, StarterEnters, StarterFetched, StarterSelects,
      StreamStarts, StartFails, StaleStartFails, StarterCommits, StarterDiscards, voiceVars
  <2> QED
    BY <1>1, <2>1
<1>5. CASE \E conn \in losses : LossBegins(conn)
  <2>1. NextEpoch(session).epoch = session.epoch + 1
    BY NextEpochFields
  <2>2. \A k \in joins' \ joins : k.epoch = session.epoch + 1 /\ k.channel = RecoveryTarget
    BY <1>5, <2>1 DEF LossBegins
  <2> QED
    BY <2>2 DEF JoinsOnward
<1>6. CASE \/ \E conn \in losses : LossIgnored(conn)
           \/ LossTearsDown \/ ExhaustionCleanup \/ UNCHANGED vars
  BY <1>1, <1>6 DEF LossIgnored, LossTearsDown, ExhaustionCleanup, vars, voiceVars
<1> QED
  BY <1>2, <1>3, <1>4, <1>5, <1>6, JoinsOfJoin DEF Next, LossStep

\* Fetches and streams are of no epoch to come, and none is of the epoch of a recovery,
\* so that none of them ends its phase.
Bygone ==
    /\ \A w \in Workers : starter[w].pc = "fetch" => starter[w].epoch <= session.epoch
    /\ \A st \in streams : st.epoch <= session.epoch
    /\ session.phase = "recovering" =>
          /\ \A w \in Workers : starter[w].pc = "fetch" => starter[w].epoch # session.epoch
          /\ \A st \in streams : st.epoch # session.epoch

\* A recovery joins the session's channel.
Aimed ==
    \A j \in joins :
        /\ j.kind = "recovery" /\ j.epoch = session.epoch
        /\ session.phase = "recovering" /\ session.channel # NoChannel
        => j.channel = session.channel

StayInv == StreamInv /\ Bygone /\ Aimed

LEMMA InitStayInv == Init => StayInv
<1> SUFFICES ASSUME Init PROVE StayInv
  OBVIOUS
<1>1. /\ \A w \in Workers : starter[w].pc = "idle"
      /\ session.phase = "idle" /\ streams = {} /\ joins = {}
  BY IdleIsState DEF Init
<1> QED
  BY <1>1, InitStreamInv DEF StayInv, Bygone, Aimed

\* What a step begins is not of the epoch in which the session recovers.
LEMMA NextStayInv ==
    ASSUME StayInv, [Next]_vars, Excluded \cap Operations = {} PROVE StayInv'
<1>1. /\ session \in Sessions /\ session.epoch \in Nat /\ starter \in [Workers -> WorkerStates]
      /\ joins \subseteq JoinStates /\ streams \subseteq StreamStates /\ StreamInv
  BY StreamInvTypes DEF StayInv, StreamInv, StreamTypes
<1>2. Onward /\ WorkersOnward /\ StreamsOnward /\ JoinsOnward
  BY <1>1, NextOnward, NextWorkers, NextStreams, NextJoins
<1>3. StreamInv' /\ session'.epoch \in Nat
  <2>1. StreamInv'
    BY <1>1, NextStreamInv
  <2> QED
    BY <2>1 DEF StreamInv, StreamTypes, CoreTypes, Sessions
<1>4. session'.epoch >= session.epoch
  BY <1>2 DEF Onward
<1>5. /\ session.phase = "recovering" \/ CanStart(session) => (Away <=> ~CanStart(session))
      /\ session.phase = "recovering" => Away /\ ~CanStart(session)
  BY <1>1, ReadyIsPresent DEF Away
<1>6. ASSUME NEW w \in Workers, starter'[w].pc = "fetch"
      PROVE  /\ starter'[w].epoch <= session'.epoch
             /\ session'.phase = "recovering" => starter'[w].epoch # session'.epoch
  <2>1. \/ starter[w].pc = "fetch" /\ starter'[w].epoch = starter[w].epoch
        \/ CanStart(session) /\ starter'[w].epoch = session.epoch
    BY <1>2, <1>6 DEF WorkersOnward, MayBecome
  <2>2. starter[w].epoch \in Nat
    BY <1>1 DEF WorkerStates
  <2>3. starter'[w].epoch \in Nat /\ starter'[w].epoch <= session.epoch
    BY <1>1, <2>1, <2>2 DEF StayInv, Bygone
  <2>4. CASE session'.epoch > session.epoch
    BY <1>1, <1>3, <2>3, <2>4
  <2>5. CASE session'.epoch = session.epoch
    <3>1. session'.phase = "recovering" => session.phase = "recovering"
      BY <1>1, <1>2, <2>5 DEF Onward
    <3>2. session.phase = "recovering" => starter'[w].epoch # session.epoch
      BY <1>5, <2>1 DEF StayInv, Bygone
    <3> QED
      BY <2>3, <2>5, <3>1, <3>2
  <2> QED
    BY <1>1, <1>3, <1>4, <2>4, <2>5
<1>7. ASSUME NEW st \in streams'
      PROVE  /\ st.epoch <= session'.epoch
             /\ session'.phase = "recovering" => st.epoch # session'.epoch
  <2>1. \/ \E old \in streams : st.epoch = old.epoch
        \/ \E w \in Workers : Starting(w) /\ st.epoch = starter[w].epoch
    BY <1>2 DEF StreamsOnward
  <2>2. st.epoch \in Nat /\ st.epoch <= session.epoch
    BY <1>1, <2>1 DEF StayInv, Bygone, StreamInv, VoicePart, EpochsPast, StreamStates,
      WorkerStates
  <2>3. CASE session'.epoch > session.epoch
    BY <1>1, <1>3, <2>2, <2>3
  <2>4. CASE session'.epoch = session.epoch
    <3>1. session'.phase = "recovering" => session.phase = "recovering"
      BY <1>1, <1>2, <2>4 DEF Onward
    <3>2. session.phase = "recovering" => st.epoch # session.epoch
      BY <1>1, <1>5, <2>1 DEF StayInv, Bygone, StreamInv, VoicePart, AwayIsQuiet, Quiet
    <3> QED
      BY <2>2, <2>4, <3>1, <3>2
  <2> QED
    BY <1>1, <1>3, <1>4, <2>3, <2>4
<1>8. ASSUME NEW k \in joins', k.kind = "recovery", k.epoch = session'.epoch,
             session'.phase = "recovering", session'.channel # NoChannel
      PROVE  k.channel = session'.channel
  <2>1. session'.channel = session.channel
    BY <1>2, <1>8 DEF Onward
  <2>2. CASE \E j \in joins : j.kind = "recovery" /\ k.epoch = j.epoch /\ k.channel = j.channel
    <3>1. PICK j \in joins : j.kind = "recovery" /\ k.epoch = j.epoch /\ k.channel = j.channel
      BY <2>2
    <3>2. j.epoch \in Nat /\ j.epoch <= session.epoch
      BY <1>1, <3>1 DEF StreamInv, VoicePart, EpochsPast, JoinStates
    <3>3. session'.epoch = session.epoch
      BY <1>1, <1>3, <1>4, <1>8, <3>1, <3>2
    <3>4. session.phase = "recovering"
      BY <1>1, <1>2, <1>8, <3>3 DEF Onward
    <3> QED
      BY <1>8, <2>1, <3>1, <3>3, <3>4 DEF StayInv, Aimed
  <2>3. CASE k.channel = RecoveryTarget
    BY <1>8, <2>1, <2>3 DEF RecoveryTarget
  <2> QED
    BY <1>2, <1>8, <2>2, <2>3 DEF JoinsOnward
<1>9. Bygone'
  BY <1>6, <1>7 DEF Bygone
<1>10. Aimed'
  BY <1>8 DEF Aimed
<1> QED
  BY <1>3, <1>9, <1>10 DEF StayInv

-----------------------------------------------------------------------------
(* Each action lets the session reside where it does.                      *)

\* Residing goes on, in the same channel.
Abides == Resides => Resides' /\ session'.channel = session.channel

\* What the residence depends on is left alone, and who rejoins goes on.
LEMMA KeepsResiding ==
    ASSUME session'.is247 = session.is247, session'.channel = session.channel,
           session'.stopping = session.stopping, session'.epoch = session.epoch,
           session'.moveTarget = session.moveTarget, session'.voice = session.voice,
           session.phase = "recovering" => session'.phase = "recovering",
           \A j \in joins : Rejoins(j) =>
              \E k \in joins' :
                 /\ SameJoin(k, j)
                 /\ k.pc = j.pc \/ k.pc \in {"queued", "joining", "joined"}
    PROVE  Abides
<1>1. ASSUME NEW j \in joins, Rejoins(j) PROVE \E k \in joins' : Rejoins(k)'
  <2>1. PICK k \in joins' :
           /\ SameJoin(k, j)
           /\ k.pc = j.pc \/ k.pc \in {"queued", "joining", "joined"}
    BY <1>1
  <2>2. Rejoins(k)'
    BY <1>1, <2>1 DEF Rejoins, SameJoin, Overtaken
  <2> QED
    BY <2>2
<1> QED
  BY <1>1 DEF Abides, Resides

\* The same for a step that leaves the joins alone or adds one.
SameResidence(t, s) ==
    /\ t.is247 = s.is247 /\ t.channel = s.channel /\ t.stopping = s.stopping
    /\ t.epoch = s.epoch /\ t.moveTarget = s.moveTarget /\ t.voice = s.voice

LEMMA SameAbides ==
    ASSUME SameResidence(session', session), joins \subseteq joins',
           session.phase = "recovering" => session'.phase = "recovering"
    PROVE  Abides
BY KeepsResiding DEF SameResidence, SameJoin

LEMMA SelfResidence == \A s : SameResidence(s, s)
BY DEF SameResidence

LEMMA ResidesIn ==
    ASSUME session'.is247 = session.is247, session'.voice # NoConn,
           session'.channel = session.channel
    PROVE  Abides
BY DEF Abides, Resides

LEMMA RecoveringIsAway == ASSUME StayInv, session.phase = "recovering" PROVE Away /\ Quiet
BY DEF StayInv, StreamInv, VoicePart, AwayIsQuiet, Away

LEMMA AloneResidence ==
    ASSUME NEW s \in Sessions
    PROVE  SameResidence(Detached(s), s) /\ SameResidence(NextGeneration(s), s)
BY DetachedFields, NextGenerationFields, AlikeSessions DEF SameResidence, Alike

LEMMA UserAbides ==
    ASSUME StayInv, UserStep PROVE Abides \/ SentAway \/ GivenUp
<1>1. session \in Sessions
  BY StreamInvTypes DEF StayInv
<1>2. CASE \E channel \in Channels : Connect(channel)
  <2>1. /\ SameResidence(session', session) /\ joins \subseteq joins'
        /\ session'.phase = session.phase
    BY <1>1, <1>2 DEF Connect, SameResidence, Sessions
  <2> QED
    BY <2>1, SameAbides
<1>3. CASE \E request \in Requests, placement \in Placements : Enqueue(request, placement)
  <2>1. /\ SameResidence(session', session) /\ joins \subseteq joins'
        /\ session'.phase = session.phase \/ session.phase = "idle"
    BY <1>1, <1>3 DEF Enqueue, SameResidence, Sessions, voiceVars
  <2> QED
    BY <2>1, SameAbides
<1>4. CASE Pause \/ Resume
  <2>1. /\ SameResidence(session', session) /\ joins \subseteq joins'
        /\ session.phase # "recovering"
    BY <1>1, <1>4 DEF Pause, Resume, SameResidence, Sessions, voiceVars
  <2> QED
    BY <2>1, SameAbides
<1>5. CASE (Skip \/ Previous) /\ session.phase = "recovering"
  BY <1>5 DEF GivenUp
<1>6. CASE (Skip \/ Previous) /\ session.phase # "recovering"
  <2> DEFINE d == Detached(session)
             t == NextGeneration(d)
  <2>1. d \in Sessions /\ SameResidence(d, session)
    BY <1>1, DetachedFields, AloneResidence
  <2> HIDE DEF d
  <2>2. t \in Sessions /\ SameResidence(t, session)
    BY <2>1, NextGenerationFields, AloneResidence DEF SameResidence
  <2>3. session' = [t EXCEPT !.phase = "loading"] /\ joins' = joins
    BY <1>6 DEF Skip, Previous, Restart, voiceVars, d
  <2> HIDE DEF t
  <2>4. SameResidence(session', session)
    BY <2>2, <2>3 DEF SameResidence, Sessions
  <2> QED
    BY <1>6, <2>3, <2>4, SameAbides
<1>7. CASE Loop \/ SetLoop \/ Shuffle \/ Clear
  <2>1. session' = session /\ joins' = joins
    BY <1>7 DEF Loop, SetLoop, Shuffle, Clear, Edit, voiceVars
  <2> QED
    BY <2>1, SelfResidence, SameAbides
<1>8. CASE Toggle247 \/ Stop
  BY <1>8 DEF SentAway
<1> QED
  BY <1>2, <1>3, <1>4, <1>5, <1>6, <1>7, <1>8 DEF UserStep

\* The bot is moved, and the session with it.
LEMMA BotMovedResides ==
    ASSUME StayInv, NEW channel \in Channels, BotMoved(channel), Resides PROVE Resides'
<1> DEFINE e == NextEpoch(session)
           s == NextGeneration(e)
           t == Detached(s)
           j == [kind |-> "move", pc |-> "queued", epoch |-> s.epoch,
                 channel |-> channel, moving |-> TRUE, conn |-> NoConn]
<1>1. session \in Sessions /\ session.voice # NoConn
  BY StreamInvTypes DEF StayInv, BotMoved
<1>2. session.stopping = FALSE
  BY <1>1 DEF StayInv, StreamInv, VoicePart, AwayIsQuiet, Away, Quiet, Sessions
<1>3. e \in Sessions /\ e.stopping = FALSE /\ e.is247 = session.is247
  BY <1>1, <1>2, NextEpochFields, AlikeSessions DEF Alike
<1>4. session' = [t EXCEPT !.moveTarget = channel, !.transition = TRUE, !.voice = NoConn,
                           !.channel = channel, !.phase = "connecting"]
      /\ j \in joins'
  BY DEF BotMoved
<1> HIDE DEF e
<1>5. s \in Sessions /\ s.stopping = FALSE /\ s.is247 = session.is247
  BY <1>3, NextGenerationFields, AlikeSessions DEF Alike
<1>6. PICK k \in joins' :
         k.kind = "move" /\ k.pc = "queued" /\ k.epoch = s.epoch /\ k.channel = channel
  BY <1>4
<1> HIDE DEF s, j
<1>7. /\ t \in Sessions /\ t.stopping = FALSE /\ t.is247 = session.is247
      /\ t.epoch = s.epoch
  BY <1>5, DetachedFields, AlikeSessions DEF Alike
<1> HIDE DEF t
<1>8. /\ session'.stopping = FALSE /\ session'.is247 = session.is247
      /\ session'.epoch = s.epoch /\ session'.channel = channel
      /\ session'.moveTarget = channel
  BY <1>4, <1>7 DEF Sessions
<1>9. Rejoins(k)'
  BY <1>6, <1>8 DEF Rejoins, Overtaken
<1>10. channel # NoChannel
  BY SessionAssumption
<1> QED
  BY <1>4, <1>8, <1>9, <1>10 DEF Resides

LEMMA DiscordAbides ==
    ASSUME StayInv, DiscordStep
    PROVE  Abides \/ SentAway \/ GivenUp \/ (Resides => Resides' /\ TakenAlong)
<1>1. session \in Sessions
  BY StreamInvTypes DEF StayInv
<1>2. CASE \E channel \in Channels : BotMoved(channel)
  BY <1>2, BotMovedResides DEF TakenAlong
<1>3. CASE \E channel \in Channels : BotSeen(channel)
  <2>1. PICK channel \in Channels : BotSeen(channel)
    BY <1>3
  <2>2. CASE session.moveTarget # NoChannel
    BY <2>1, <2>2 DEF GivenUp
  <2>3. CASE session.moveTarget = NoChannel
    <3>1. session.voice = NoConn \/ session.channel = NoChannel
      BY <2>1 DEF BotSeen, Displaced
    <3>2. session.phase # "recovering"
      BY <2>1 DEF BotSeen
    <3>3. ~Resides
      BY <2>3, <3>1, <3>2 DEF Resides, Rejoins
    <3> QED
      BY <3>3 DEF Abides
  <2> QED
    BY <2>2, <2>3
<1>4. CASE \E channel \in Channels : BotSeenRecovering(channel)
  BY <1>4 DEF GivenUp, BotSeenRecovering
<1>5. CASE BotDisconnected \/ \E conn \in Conns : ConnectionLost(conn)
  <2>1. session' = session /\ joins' = joins
    BY <1>5 DEF BotDisconnected, ConnectionLost
  <2> QED
    BY <2>1, SelfResidence, SameAbides
<1>6. CASE ChannelDeleted
  BY <1>6 DEF SentAway
<1>7. CASE InactivityTimeout
  BY <1>7 DEF InactivityTimeout, Abides, Resides
<1> QED
  BY <1>2, <1>3, <1>4, <1>5, <1>6, <1>7 DEF DiscordStep

LEMMA StartNextAbides == ASSUME StayInv, StartNext, joins' = joins PROVE Abides
<1>1. session \in Sessions
  BY StreamInvTypes DEF StayInv
<1>2. CASE UNCHANGED session
  BY <1>2, SelfResidence, SameAbides
<1>3. CASE CanStart(session) /\ session' = StartedLoading(session)
  <2>1. SameResidence(session', session)
    BY <1>1, <1>3 DEF StartedLoading, SameResidence, Sessions
  <2>2. session.phase # "recovering"
    BY <1>3, ReadyIsPresent DEF StayInv, Away
  <2> QED
    BY <2>1, <2>2, SameAbides
<1> QED
  BY <1>2, <1>3 DEF StartNext

LEMMA GiveUpAbides ==
    ASSUME StayInv, NEW w \in Workers, joins' = joins,
           \/ GiveUp(w, session)
           \/ session.phase # "recovering" /\ \E p : GiveUp(w, [session EXCEPT !.phase = p])
    PROVE  Abides
<1>1. session \in Sessions
  BY StreamInvTypes DEF StayInv
<1>2. /\ SameResidence(session', session)
      /\ session.phase = "recovering" => session'.phase = "recovering"
  BY <1>1 DEF GiveUp, SameResidence, Sessions
<1> QED
  BY <1>2, SameAbides

LEMMA StarterAbides == ASSUME StayInv, NEW w \in Workers, StarterStep(w) PROVE Abides
<1>1. session \in Sessions /\ StreamInv
  BY StreamInvTypes DEF StayInv
<1>2. joins' = joins
  BY DEF StarterStep, StarterEnters, StarterFetched, StarterSelects, StreamStarts, StartFails,
         StaleStartFails, StarterCommits, StarterDiscards, voiceVars
<1>3. Starting(w) /\ Attempted(w) => session.phase # "recovering"
  BY RecoveringIsAway DEF Quiet, Attempted
<1>4. CASE \/ StarterEnters(w) \/ StreamStarts(w) \/ StarterDiscards(w)
  <2>1. session' = session \/ GiveUp(w, session)
    BY <1>4 DEF StarterEnters, StreamStarts, StarterDiscards
  <2> QED
    BY <1>2, <2>1, GiveUpAbides, SelfResidence, SameAbides
<1>5. CASE StarterFetched(w)
  <2>1. CASE session.phase = "recovering"
    <3>1. session.epoch # starter[w].epoch
      BY <1>5, <2>1 DEF StayInv, Bygone, StarterFetched
    <3>2. session' = session \/ GiveUp(w, session)
      BY <1>5, <3>1 DEF StarterFetched
    <3> QED
      BY <1>2, <3>2, GiveUpAbides, SelfResidence, SameAbides
  <2>2. CASE session.phase # "recovering"
    <3>1. \/ session' = session \/ GiveUp(w, session)
          \/ GiveUp(w, [session EXCEPT !.phase = "idle"])
      BY <1>5 DEF StarterFetched
    <3> QED
      BY <1>2, <2>2, <3>1, GiveUpAbides, SelfResidence, SameAbides
  <2> QED
    BY <2>1, <2>2
<1>6. CASE StarterSelects(w)
  <2>1. CASE GiveUp(w, session)
    BY <1>2, <2>1, GiveUpAbides
  <2>2. CASE CanStart(session) /\ GiveUp(w, [session EXCEPT !.phase = "idle"])
    <3>1. session.phase # "recovering"
      BY <1>1, <2>2, ReadyIsPresent DEF Away
    <3> QED
      BY <1>2, <2>2, <3>1, GiveUpAbides
  <2>3. CASE session' = NextGeneration(session)
    BY <1>1, <1>2, <2>3, NextGenerationFields, AloneResidence, SameAbides
  <2> QED
    BY <1>6, <2>1, <2>2, <2>3 DEF StarterSelects
<1>7. CASE \E unusable \in BOOLEAN : StartFails(w, unusable)
  <2>1. SameResidence(session', session) /\ session.phase # "recovering"
    BY <1>1, <1>3, <1>7 DEF StartFails, Starting, SameResidence, Sessions
  <2> QED
    BY <1>2, <2>1, SameAbides
<1>8. CASE StaleStartFails(w)
  <2>1. CASE session.phase = "recovering"
    <3>1. ~Connected(session)
      BY <2>1, RecoveringIsAway DEF Quiet, Connected
    <3>2. GiveUp(w, [session EXCEPT !.phase = session.phase])
      BY <1>8, <2>1, <3>1 DEF StaleStartFails
    <3>3. [session EXCEPT !.phase = session.phase] = session
      BY <1>1 DEF Sessions
    <3> QED
      BY <1>2, <3>2, <3>3, GiveUpAbides
  <2>2. CASE session.phase # "recovering"
    BY <1>2, <1>8, <2>2, GiveUpAbides DEF StaleStartFails
  <2> QED
    BY <2>1, <2>2
<1>9. CASE StarterCommits(w)
  <2>1. SameResidence(session', session) /\ session.phase # "recovering"
    BY <1>1, <1>3, <1>9 DEF StarterCommits, Starting, SameResidence, Sessions
  <2> QED
    BY <1>2, <2>1, SameAbides
<1> QED
  BY <1>4, <1>5, <1>6, <1>7, <1>8, <1>9 DEF StarterStep

LEMMA StreamAbides == ASSUME StayInv, StreamStep \/ PrefetchEnds PROVE Abides \/ GivenUp
<1>1. session \in Sessions
  BY StreamInvTypes DEF StayInv
<1>2. CASE PrefetchEnds \/ \E st \in streams : StreamLosesVoice(st)
  <2>1. session' = session /\ joins' = joins
    BY <1>2 DEF PrefetchEnds, StreamLosesVoice, voiceVars
  <2> QED
    BY <2>1, SelfResidence, SameAbides
<1>3. ASSUME NEW st \in streams, Completes(st) PROVE session.phase # "recovering"
  BY <1>3 DEF StayInv, Bygone, Completes
<1>4. CASE \E st \in streams, replay \in BOOLEAN : StreamEnds(st, replay)
  <2>1. PICK st \in streams, replay \in BOOLEAN : StreamEnds(st, replay)
    BY <1>4
  <2> DEFINE t == Detached(session)
  <2>2. t \in Sessions /\ SameResidence(t, session)
    BY <1>1, DetachedFields, AloneResidence
  <2>3. /\ joins' = joins
        /\ \/ session' = session
           \/ Completes(st) /\ \E p : session' = [t EXCEPT !.phase = p]
    BY <2>1 DEF StreamEnds, voiceVars
  <2> HIDE DEF t
  <2>4. SameResidence(session', session)
    BY <2>2, <2>3 DEF SameResidence, Sessions
  <2> QED
    BY <1>3, <2>3, <2>4, SameAbides
<1>5. CASE \E st \in streams : StallRestarts(st)
  <2> DEFINE d == Detached(session)
             t == NextGeneration(d)
  <2>1. d \in Sessions /\ SameResidence(d, session)
    BY <1>1, DetachedFields, AloneResidence
  <2> HIDE DEF d
  <2>2. t \in Sessions /\ SameResidence(t, session)
    BY <2>1, NextGenerationFields, AloneResidence DEF SameResidence
  <2>3. /\ session' = [t EXCEPT !.restarting = TRUE, !.phase = "loading"] /\ joins' = joins
        /\ session.phase # "recovering"
    BY <1>3, <1>5 DEF StallRestarts, Stalled, voiceVars, d
  <2> HIDE DEF t
  <2>4. SameResidence(session', session)
    BY <2>2, <2>3 DEF SameResidence, Sessions
  <2> QED
    BY <2>3, <2>4, SameAbides
<1>6. CASE \E st \in streams : StallExhausts(st)
  BY <1>6 DEF GivenUp
<1> QED
  BY <1>2, <1>4, <1>5, <1>6 DEF StreamStep

\* A join other than the one that brings the session back may be dropped.
LEMMA OneJoinAbides ==
    ASSUME NEW j \in joins, SameResidence(session', session),
           session.phase = "recovering" => session'.phase = "recovering",
           \/ joins' = joins \ {j} /\ ~Rejoins(j)
           \/ \E k : /\ joins' = (joins \ {j}) \cup {k}
                     /\ \/ ~Rejoins(j)
                        \/ SameJoin(k, j) /\ k.pc \in {"queued", "joining", "joined"}
    PROVE  Abides
<1>1. ASSUME NEW i \in joins, Rejoins(i)
      PROVE  \E k \in joins' :
                SameJoin(k, i) /\ (k.pc = i.pc \/ k.pc \in {"queued", "joining", "joined"})
  BY <1>1 DEF SameJoin
<1> QED
  BY <1>1, KeepsResiding DEF SameResidence

LEMMA AdvancedAbides ==
    ASSUME NEW j \in joins, j \in JoinStates, NEW pc \in {"queued", "joining", "joined"},
           SameResidence(session', session), session'.phase = session.phase, NEW k,
           \/ k = [j EXCEPT !.pc = pc]
           \/ \E c : k = [j EXCEPT !.pc = pc, !.conn = c],
           joins' = (joins \ {j}) \cup {k}
    PROVE  Abides
<1>1. CASE k = [j EXCEPT !.pc = pc]
  <2>1. SameJoin([j EXCEPT !.pc = pc], j) /\ [j EXCEPT !.pc = pc].pc = pc
    BY JoinGoesOn
  <2> QED
    BY <1>1, <2>1, OneJoinAbides
<1>2. CASE \E c : k = [j EXCEPT !.pc = pc, !.conn = c]
  <2>1. PICK c : k = [j EXCEPT !.pc = pc, !.conn = c]
    BY <1>2
  <2>2. /\ SameJoin([j EXCEPT !.pc = pc, !.conn = c], j)
        /\ [j EXCEPT !.pc = pc, !.conn = c].pc = pc
    BY DEF JoinStates, SameJoin
  <2> QED
    BY <2>1, <2>2, OneJoinAbides
<1> QED
  BY <1>1, <1>2

LEMMA JoinAbides ==
    ASSUME StayInv, NEW kind \in JoinKinds, JoinStep(kind) PROVE Abides
<1>1. session \in Sessions /\ joins \subseteq JoinStates
  BY StreamInvTypes DEF StayInv
<1>2. CASE \E j \in joins : JoinBegins(j) \/ JoinFails(j)
  <2>1. PICK j \in joins : JoinBegins(j) \/ JoinFails(j)
    BY <1>2
  <2>2. PICK pc \in {"joining", "joined"} : joins' = (joins \ {j}) \cup {[j EXCEPT !.pc = pc]}
    BY <2>1 DEF JoinBegins, JoinFails, Advance
  <2>3. session' = session
    BY <2>1 DEF JoinBegins, JoinFails
  <2> QED
    BY <1>1, <2>2, <2>3, AdvancedAbides, SelfResidence
<1>3. CASE \E j \in joins : JoinSucceeds(j)
  <2>1. PICK j \in joins : JoinSucceeds(j)
    BY <1>3
  <2>2. PICK c : joins' = (joins \ {j}) \cup {[j EXCEPT !.pc = "joined", !.conn = c]}
    BY <2>1 DEF JoinSucceeds
  <2>3. session' = session
    BY <2>1 DEF JoinSucceeds
  <2> QED
    BY <1>1, <2>2, <2>3, AdvancedAbides, SelfResidence
<1>4. CASE \E j \in joins : JoinStarts(j)
  <2>1. PICK j \in joins : JoinStarts(j)
    BY <1>4
  <2>2. ~Rejoins(j)
    BY <2>1 DEF JoinStarts, Rejoins
  <2>3. joins' = joins \ {j} \/ \E k : joins' = (joins \ {j}) \cup {k}
    BY <2>1 DEF JoinStarts, Advance
  <2>4. /\ SameResidence(session', session)
        /\ session.phase = "recovering" => session'.phase = "recovering"
    <3>1. CASE UNCHANGED session
      BY <3>1, SelfResidence
    <3>2. CASE CanStart(session) /\ session' = StartedLoading(session)
      <4>1. SameResidence(session', session)
        BY <1>1, <3>2 DEF StartedLoading, SameResidence, Sessions
      <4> QED
        BY <3>2, <4>1, ReadyIsPresent DEF StayInv, Away
    <3> QED
      BY <2>1, <3>1, <3>2 DEF JoinStarts, StartNext
  <2> QED
    BY <2>2, <2>3, <2>4, OneJoinAbides
<1>5. CASE \E j \in joins : JoinEnds(j)
  <2>1. PICK j \in joins : JoinEnds(j)
    BY <1>5
  <2>2. ~Rejoins(j) /\ joins' = joins \ {j}
    BY <2>1 DEF JoinEnds, Rejoins
  <2>3. SameResidence(session', session) /\ session'.phase = session.phase
    BY <1>1, <2>1 DEF JoinEnds, SameResidence, Sessions
  <2> QED
    BY <2>2, <2>3, OneJoinAbides
<1> QED
  BY <1>2, <1>3, <1>4, <1>5 DEF JoinStep, JoinsOf

LEMMA ConnectAbides ==
    ASSUME StayInv, ConnectStep PROVE Abides \/ (Resides => Resides' /\ TakenAlong)
<1>1. session \in Sessions /\ joins \subseteq JoinStates
  BY StreamInvTypes DEF StayInv
<1>2. CASE \E j \in joins : ConnectFails(j)
  <2>1. PICK j \in joins : ConnectFails(j)
    BY <1>2
  <2>2. ~Rejoins(j) /\ \E k : joins' = (joins \ {j}) \cup {k}
    BY <2>1 DEF ConnectFails, Rejoins
  <2>3. session' = session
    BY <2>1 DEF ConnectFails
  <2> QED
    BY <2>2, <2>3, OneJoinAbides, SelfResidence
<1>3. CASE \E j \in joins, suppress \in BOOLEAN : ConnectCommits(j, suppress)
  <2>1. PICK j \in joins, suppress \in BOOLEAN : ConnectCommits(j, suppress)
    BY <1>3
  <2> DEFINE e == NextEpoch(session)
             s == IF j.moving THEN NextGeneration(e) ELSE session
             t == Detached(s)
  <2>2. e \in Sessions /\ Alike(e, session)
    BY <1>1, NextEpochFields, AlikeSessions
  <2> HIDE DEF e
  <2>3. s \in Sessions /\ Alike(s, session)
    BY <1>1, <2>2, NextGenerationFields, AlikeSessions DEF Alike
  <2> HIDE DEF s
  <2>4. t \in Sessions /\ t.is247 = session.is247
    BY <2>3, DetachedFields, AlikeSessions DEF Alike
  <2>5. session' = [t EXCEPT !.voice = j.conn, !.phase = "idle", !.channel = j.channel]
    BY <2>1 DEF ConnectCommits, e, s
  <2> HIDE DEF t
  <2>6. /\ session'.is247 = session.is247 /\ session'.voice = j.conn
        /\ session'.channel = j.channel
    BY <2>4, <2>5 DEF Sessions
  <2>7. j.conn # NoConn /\ j.channel # NoChannel
    BY <1>1, <2>1, SessionAssumption DEF ConnectCommits, JoinStates
  <2> QED
    BY <2>6, <2>7, <1>3 DEF Resides, TakenAlong, ConnectStep
<1> QED
  BY <1>2, <1>3 DEF ConnectStep

LEMMA RecoveryAbides == ASSUME StayInv, RecoveryStep PROVE Abides \/ GivenUp
<1>1. session \in Sessions /\ joins \subseteq JoinStates
  BY StreamInvTypes DEF StayInv
<1>2. CASE \E j \in joins : RecoveryWaited(j)
  <2>1. PICK j \in joins : RecoveryWaited(j)
    BY <1>2
  <2>2. CASE GivesUpRecovery(j)
    <3>1. ~Rejoins(j) /\ joins' = joins \ {j} /\ session' = session
      BY <2>1, <2>2 DEF RecoveryWaited, GivesUpRecovery, Rejoins
    <3> QED
      BY <3>1, OneJoinAbides, SelfResidence
  <2>3. CASE ~GivesUpRecovery(j)
    <3>1. joins' = (joins \ {j}) \cup {[j EXCEPT !.pc = "queued"]}
      BY <2>1, <2>3 DEF RecoveryWaited, Advance
    <3>2. SameResidence(session', session) /\ session'.phase = session.phase
      BY <1>1, <2>1, <2>3 DEF RecoveryWaited, SameResidence, Sessions
    <3> QED
      BY <1>1, <3>1, <3>2, AdvancedAbides
  <2> QED
    BY <2>2, <2>3
<1>3. CASE \E j \in joins : RecoveryEnds(j)
  <2>1. PICK j \in joins : RecoveryEnds(j)
    BY <1>3
  <2>2. CASE GivesUpRecovery(j)
    <3>1. ~Rejoins(j) /\ session' = session /\ \E k : joins' = (joins \ {j}) \cup {k}
      BY <2>1, <2>2 DEF RecoveryEnds, GivesUpRecovery, Rejoins
    <3> QED
      BY <3>1, OneJoinAbides, SelfResidence
  <2>3. CASE j.conn = NoConn
    BY <2>1, <2>3 DEF GivenUp
  <2>4. CASE ~GivesUpRecovery(j) /\ j.conn # NoConn
    <3>1. /\ session'.is247 = session.is247 /\ session'.voice = j.conn
          /\ session'.channel = j.channel
      BY <1>1, <2>1, <2>4 DEF RecoveryEnds, Sessions
    <3>2. session.channel # NoChannel => j.channel = session.channel
      BY <2>1, <2>4 DEF StayInv, Aimed, RecoveryEnds, GivesUpRecovery, Overtaken
    <3>3. session.channel = NoChannel => Abides
      BY DEF Abides, Resides
    <3> QED
      BY <2>4, <3>1, <3>2, <3>3, ResidesIn
  <2> QED
    BY <2>2, <2>3, <2>4
<1> QED
  BY <1>2, <1>3 DEF RecoveryStep

LEMMA MoveAbides == ASSUME StayInv, MoveStep PROVE Abides \/ GivenUp
<1>1. session \in Sessions /\ joins \subseteq JoinStates
  BY StreamInvTypes DEF StayInv
<1>2. PICK j \in joins : MoveEnds(j)
  BY DEF MoveStep
<1> DEFINE valid == ~Overtaken(j) /\ session.moveTarget = j.channel
           moved == [session EXCEPT !.moveTarget = NoChannel, !.transition = FALSE]
<1>3. CASE ~valid
  <2>1. ~Rejoins(j) /\ joins' = joins \ {j} /\ session' = session
    BY <1>2, <1>3 DEF MoveEnds, Rejoins
  <2> QED
    BY <2>1, OneJoinAbides, SelfResidence
<1>4. CASE j.conn = NoConn
  BY <1>2, <1>4 DEF GivenUp
<1>5. CASE valid /\ j.conn # NoConn
  <2>1. session' = [moved EXCEPT !.voice = j.conn, !.phase = "loading"]
    BY <1>2, <1>5 DEF MoveEnds
  <2>2. /\ moved \in Sessions /\ moved.is247 = session.is247
        /\ moved.channel = session.channel
    BY <1>1 DEF Sessions
  <2> HIDE DEF moved
  <2>3. /\ session'.is247 = session.is247 /\ session'.voice = j.conn
        /\ session'.channel = session.channel
    BY <2>1, <2>2 DEF Sessions
  <2> QED
    BY <1>5, <2>3, ResidesIn
<1> QED
  BY <1>3, <1>4, <1>5

LEMMA LossAbides ==
    ASSUME StayInv, LossStep \/ LossTearsDown \/ ExhaustionCleanup PROVE Abides \/ GivenUp
<1>1. session \in Sessions /\ joins \subseteq JoinStates
  BY StreamInvTypes DEF StayInv
<1>2. CASE \E conn \in losses : LossIgnored(conn)
  <2>1. session' = session /\ joins' = joins
    BY <1>2 DEF LossIgnored
  <2> QED
    BY <2>1, SelfResidence, SameAbides
<1>3. CASE \E conn \in losses : LossBegins(conn)
  <2>1. PICK conn \in losses : LossBegins(conn)
    BY <1>3
  <2> SUFFICES ASSUME Resides PROVE Resides' /\ session'.channel = session.channel
    BY DEF Abides
  <2> DEFINE e == NextEpoch(session)
             t == Detached(e)
  <2>2. e \in Sessions /\ Alike(e, session) /\ e.stopping = session.stopping
    BY <1>1, NextEpochFields, AlikeSessions
  <2>3. session' = [t EXCEPT !.phase = "recovering", !.voice = NoConn] /\ ~session.stopping
    BY <2>1 DEF LossBegins, Irrelevant
  <2>4. RecoveryTarget = session.channel /\ session.channel # NoChannel /\ session.is247
    BY DEF Resides, RecoveryTarget
  <2>5. Recovers(playlist')
    BY <2>4 DEF Recovers
  <2>6. PICK k \in joins' :
           /\ k.kind = "recovery" /\ k.pc = "waiting" /\ k.epoch = e.epoch
           /\ k.channel = session.channel
    <3>1. [kind |-> "recovery", pc |-> "waiting", epoch |-> e.epoch,
           channel |-> RecoveryTarget, moving |-> FALSE, conn |-> NoConn] \in joins'
      BY <2>1, <2>5 DEF LossBegins
    <3> HIDE DEF e
    <3> QED
      BY <2>4, <3>1
  <2> HIDE DEF e
  <2>7. /\ t \in Sessions /\ Alike(t, session) /\ t.stopping = session.stopping
        /\ t.epoch = e.epoch
    BY <2>2, DetachedFields, AlikeSessions DEF Alike
  <2> HIDE DEF t
  <2>8. /\ session'.phase = "recovering" /\ session'.is247 = session.is247
        /\ session'.channel = session.channel /\ session'.epoch = e.epoch
        /\ session'.stopping = session.stopping
    BY <2>3, <2>7 DEF Alike, Sessions
  <2>9. Rejoins(k)'
    BY <2>3, <2>6, <2>8 DEF Rejoins, Overtaken
  <2> QED
    BY <2>4, <2>6, <2>8, <2>9 DEF Resides
<1>4. CASE LossTearsDown
  BY <1>4 DEF GivenUp
<1>5. CASE ExhaustionCleanup /\ session.epoch = exhaustion
  <2>1. session.stopping /\ session.voice = NoConn
    <3>1. exhaustion # 0
      BY <1>5 DEF ExhaustionCleanup
    <3>2. session.stopping
      BY <1>5, <3>1 DEF StayInv, StreamInv, VoicePart, OneWayBack
    <3> QED
      BY <3>2 DEF StayInv, StreamInv, VoicePart, AwayIsQuiet, Away, Quiet
  <2>2. ~Resides
    BY <2>1 DEF Resides, Rejoins, Overtaken
  <2> QED
    BY <2>2 DEF Abides
<1>6. CASE ExhaustionCleanup /\ session.epoch # exhaustion
  <2>1. session' = session /\ joins' = joins
    BY <1>6 DEF ExhaustionCleanup, voiceVars
  <2> QED
    BY <2>1, SelfResidence, SameAbides
<1> QED
  BY <1>2, <1>3, <1>4, <1>5, <1>6 DEF LossStep

\* A session that resides in its channel in 24/7 mode keeps the mode, the channel, and a
\* connection or a goroutine that joins again, until it is sent away or given up: no
\* other loss, timer, event or overtaken goroutine ends it, and only a user takes it to
\* another channel.  (Not when Connect takes over during an external move or a teardown,
\* or 24/7 mode is switched on during a teardown: RadioSession admits those by name only.)
THEOREM StaysUnlessRejoinFailsAlways ==
    ASSUME Excluded \cap Operations = {} PROVE Spec => StaysUnlessRejoinFails
<1>1. StayInv /\ [Next]_vars => StayInv'
  BY NextStayInv
<1>2. StayInv /\ [Next]_vars =>
        [Resides => \/ Resides' /\ (session'.channel = session.channel \/ TakenAlong)
                    \/ SentAway \/ GivenUp]_vars
  <2> SUFFICES ASSUME StayInv, [Next]_vars
               PROVE  Abides \/ SentAway \/ GivenUp \/ (Resides => Resides' /\ TakenAlong)
    BY DEF Abides
  <2>1. CASE Kick
    BY <2>1, StartNextAbides DEF Kick, voiceVars
  <2>2. CASE UNCHANGED vars
    BY <2>2, SelfResidence, SameAbides DEF vars, voiceVars
  <2>3. CASE \E kind \in JoinKinds : JoinStep(kind)
    BY <2>3, JoinAbides
  <2> QED
    BY <2>1, <2>2, <2>3, UserAbides, DiscordAbides, StarterAbides, StreamAbides,
       ConnectAbides, RecoveryAbides, MoveAbides, LossAbides DEF Next
<1> QED
  BY <1>1, <1>2, InitStayInv, PTL DEF Spec, StaysUnlessRejoinFails

-----------------------------------------------------------------------------
(* No wake-up is lost, but for one that found a fetch of another epoch in  *)
(* flight.                                                                 *)

Attended == session.starting \/ kicks > 0 \/ \E j \in joins : j.pc = "starting"

\* Nothing but a track and a startNext is missing.
Ready == session.phase = "loading" /\ CanStart(session)

\* A connection that is dialed is nobody's yet: its opening does not connect a session
\* that holds one that was closed.
Dialed ==
    /\ open \subseteq dialed /\ dialed \subseteq Conns
    /\ session.voice \in dialed \cup {NoConn}
    /\ \A j \in joins : j.conn \in dialed \cup {NoConn}

\* What workers and background fetches captured lies in the past, and a worker that
\* fetches is the latest one to do so.
FetchesPast ==
    /\ session.epoch >= 1
    /\ prefetch.epoch <= session.epoch /\ prefetch.generation <= session.generation
    /\ \A w \in Workers :
          starter[w].pc = "fetch" =>
             /\ starter[w].latest
             /\ prefetch.epoch <= starter[w].epoch /\ starter[w].epoch <= session.epoch
    /\ \A w \in Workers :
          Starting(w) =>
             /\ prefetch.generation < starter[w].generation
             /\ starter[w].generation <= session.generation

PrefetchCurrent == prefetch = [epoch |-> session.epoch, generation |-> session.generation]

\* A background fetch that can still append a track finds somebody to start it.
PrefetchAttended == Ready /\ PrefetchCurrent => Attended

ServedInv ==
    /\ Inv
    /\ kicks \in Nat
    /\ prefetch \in [epoch: Nat, generation: Nat]
    /\ Dialed
    /\ FetchesPast
    /\ PrefetchAttended

LEMMA ServedIs == Served <=> (Ready /\ playlist.queue # << >> => Attended)
BY DEF Served, Ready, Attended

\* A step that makes no session ready, brings it no first track, and lets nobody down
\* who attends to it.
SameNeeds ==
    /\ Ready' => Ready
    /\ playlist'.queue # << >> => playlist.queue # << >>
    /\ Attended => Attended'

ServedStep == ~Ready' \/ Attended' \/ SameNeeds

LEMMA ServedStepServes == ASSUME Served, ServedStep PROVE Served'
<1>1. Ready /\ playlist.queue # << >> => Attended
  BY ServedIs
<1>2. Ready' /\ playlist'.queue # << >> => Attended'
  BY <1>1 DEF ServedStep, SameNeeds
<1> QED
  BY <1>2 DEF Served, Ready, Attended

\* What decides about the need for a startNext is left alone.
LEMMA SameNeedsStep ==
    ASSUME session'.phase = session.phase, session'.stopping = session.stopping,
           session'.voice = session.voice, session'.playback = session.playback,
           session'.starting = session.starting,
           session.voice \in open' => session.voice \in open,
           playlist'.queue # << >> => playlist.queue # << >>,
           kicks' = kicks,
           \A j \in joins : j.pc = "starting" => \E i \in joins' : i.pc = "starting"
    PROVE  ServedStep
<1>1. CanStart(session)' => CanStart(session)
  BY DEF CanStart, Connected
<1>2. Ready' => Ready
  BY <1>1 DEF Ready
<1>3. Attended => Attended'
  BY DEF Attended
<1> QED
  BY <1>2, <1>3 DEF ServedStep, SameNeeds

LEMMA SameSessionStep ==
    ASSUME session' = session, open' \subseteq open, playlist' = playlist, kicks' = kicks,
           \A j \in joins : j.pc = "starting" => \E i \in joins' : i.pc = "starting"
    PROVE  ServedStep
BY SameNeedsStep

LEMMA NotLoadingStep == ASSUME session'.phase # "loading" PROVE ServedStep
BY DEF ServedStep, Ready

LEMMA KickedStep == ASSUME kicks \in Nat, kicks' = kicks + 1 PROVE ServedStep
<1>1. kicks' > 0
  OBVIOUS
<1> QED
  BY <1>1 DEF ServedStep, Attended

\* startNext leaves nobody waiting.
LEMMA StartNextServes ==
    ASSUME Inv, StartNext, playlist' = playlist, open' = open PROVE ServedStep
<1>1. CASE session' = StartedLoading(session)
  <2>1. session'.starting = TRUE
    BY <1>1 DEF StartedLoading, Inv, CoreTypes, Sessions
  <2> QED
    BY <2>1 DEF ServedStep, Attended
<1>2. CASE (~CanStart(session) \/ session.starting) /\ UNCHANGED session
  BY <1>2 DEF ServedStep, SameNeeds, Attended, Ready, CanStart, Connected
<1> QED
  BY <1>1, <1>2 DEF StartNext

LEMMA ShuffledEmpty ==
    ASSUME NEW p, Shaped(p), p.queue = << >>, NEW q \in Shuffled(p) PROVE q.queue = << >>
<1>1. UserPending(p.queue) = {}
  BY DEF UserPending
<1>2. Cardinality(UserPending(p.queue)) = 0
  BY <1>1, FS_EmptySet
<1>3. ~(Cardinality(UserPending(p.queue)) > 1)
  BY <1>2
<1>4. Shuffled(p) = {p}
  BY <1>3, Zenon DEF Shuffled
<1> QED
  BY <1>4

-----------------------------------------------------------------------------
(* Each action keeps the queue served.                                     *)

LEMMA KeptStarting ==
    ASSUME NEW j \in joins, j.pc # "starting", joins \ {j} \subseteq joins'
    PROVE  \A k \in joins : k.pc = "starting" => \E i \in joins' : i.pc = "starting"
OBVIOUS

LEMMA UserServed == ASSUME ServedInv, UserStep PROVE ServedStep
<1>1. session \in Sessions /\ kicks \in Nat /\ Shaped(playlist)
  BY DEF ServedInv, Inv, CoreTypes
<1>2. CASE \E channel \in Channels : Connect(channel)
  <2>1. PICK channel \in Channels : Connect(channel)
    BY <1>2
  <2>2. CASE kicks' = kicks + 1
    BY <1>1, <2>2, KickedStep
  <2>3. CASE kicks' = kicks /\ session' = [session EXCEPT !.transition = TRUE]
    <3>1. /\ session'.phase = session.phase /\ session'.stopping = session.stopping
          /\ session'.voice = session.voice /\ session'.playback = session.playback
          /\ session'.starting = session.starting
      BY <1>1, <2>3 DEF Sessions
    <3>2. playlist' = playlist /\ open' = open /\ joins \subseteq joins'
      BY <2>1 DEF Connect
    <3> QED
      BY <2>3, <3>1, <3>2, SameNeedsStep
  <2> QED
    BY <2>1, <2>2, <2>3 DEF Connect
<1>3. CASE \E request \in Requests, placement \in Placements : Enqueue(request, placement)
  <2>1. /\ session'.stopping = session.stopping
        /\ session'.voice = session.voice /\ session'.playback = session.playback
        /\ session'.starting = session.starting
        /\ open' = open
    BY <1>1, <1>3 DEF Enqueue, Sessions, voiceVars
  <2>2. CanStart(session)' <=> CanStart(session)
    BY <2>1 DEF CanStart, Connected
  <2>3. CASE CanStart(session) /\ ~session.starting
    BY <1>1, <1>3, <2>3, KickedStep DEF Enqueue
  <2>4. CASE ~CanStart(session) \/ session.starting
    BY <2>1, <2>2, <2>4 DEF ServedStep, Ready, Attended
  <2> QED
    BY <2>3, <2>4
<1>4. CASE Pause \/ Resume
  <2>1. session'.phase # "loading"
    BY <1>1, <1>4 DEF Pause, Resume, Sessions
  <2> QED
    BY <2>1, NotLoadingStep
<1>5. CASE Skip \/ Previous
  <2>1. kicks' = kicks + 1
    BY <1>5 DEF Skip, Previous, Restart
  <2> QED
    BY <1>1, <2>1, KickedStep
<1>6. CASE Loop \/ SetLoop \/ Shuffle \/ Clear
  <2>1. session' = session /\ open' = open /\ kicks' = kicks /\ joins' = joins
    BY <1>6 DEF Loop, SetLoop, Shuffle, Clear, Edit, voiceVars
  <2>2. playlist'.queue # << >> => playlist.queue # << >>
    BY <1>1, <1>6, ShuffledEmpty DEF Loop, SetLoop, Shuffle, Clear, Edit, LoopSet, Cleared, Shaped
  <2> QED
    BY <2>1, <2>2, SameNeedsStep
<1>7. CASE Stop
  <2>1. session' = FinishedStopping(BegunStopping(session))
    BY <1>7 DEF Stop, StopAll
  <2> QED
    BY <1>1, <2>1, StoppedFields, NotLoadingStep
<1>8. CASE Toggle247
  <2>1. /\ session'.phase = session.phase /\ session'.stopping = session.stopping
        /\ session'.voice = session.voice /\ session'.playback = session.playback
        /\ session'.starting = session.starting
        /\ open' = open /\ kicks' = kicks /\ joins' = joins /\ playlist' = playlist
    BY <1>1, <1>8 DEF Toggle247, Sessions, voiceVars, playbackVars
  <2> QED
    BY <2>1, SameNeedsStep
<1> QED
  BY <1>2, <1>3, <1>4, <1>5, <1>6, <1>7, <1>8 DEF UserStep

LEMMA DiscordServed ==
    ASSUME ServedInv, DiscordStep, "botMovedRecovering" \notin Operations PROVE ServedStep
<1>1. session \in Sessions
  BY DEF ServedInv, Inv, CoreTypes
<1>2. CASE \E channel \in Channels : BotMoved(channel)
  <2> DEFINE s == Detached(NextGeneration(NextEpoch(session)))
  <2>1. s \in Sessions
    BY <1>1, NextEpochFields, NextGenerationFields, DetachedFields
  <2>2. \E channel \in Channels :
          session' = [s EXCEPT !.moveTarget = channel, !.transition = TRUE,
                               !.voice = NoConn, !.channel = channel, !.phase = "connecting"]
    BY <1>2 DEF BotMoved
  <2> HIDE DEF s
  <2>3. session'.phase = "connecting"
    BY <2>1, <2>2 DEF Sessions
  <2> QED
    BY <2>3, NotLoadingStep
<1>3. CASE \E channel \in Channels : BotSeen(channel)
  <2>1. /\ session'.phase = session.phase /\ session'.stopping = session.stopping
        /\ session'.voice = session.voice /\ session'.playback = session.playback
        /\ session'.starting = session.starting
        /\ open' = open /\ kicks' = kicks /\ joins' = joins /\ playlist' = playlist
    BY <1>1, <1>3 DEF BotSeen, Sessions, voiceVars, playbackVars
  <2> QED
    BY <2>1, SameNeedsStep
<1>4. CASE BotDisconnected \/ \E conn \in Conns : ConnectionLost(conn)
  <2>1. /\ session' = session /\ open' \subseteq open /\ kicks' = kicks /\ joins' = joins
        /\ playlist' = playlist
    BY <1>4 DEF BotDisconnected, ConnectionLost, playbackVars
  <2> QED
    BY <2>1, SameSessionStep
<1>5. CASE ChannelDeleted \/ InactivityTimeout
  <2>1. session' = FinishedStopping(BegunStopping(session))
    BY <1>5 DEF ChannelDeleted, InactivityTimeout, StopAll
  <2> QED
    BY <1>1, <2>1, StoppedFields, NotLoadingStep
<1>6. \A channel \in Channels : ~BotSeenRecovering(channel)
  BY DEF BotSeenRecovering, Arrives
<1> QED
  BY <1>2, <1>3, <1>4, <1>5, <1>6 DEF DiscordStep

\* A worker gives up where nothing can start, or the session does not show "loading".
LEMMA GiveUpServes ==
    ASSUME Inv, NEW w \in Workers, GiveUp(w, session), open' = open, ~CanStart(session)
    PROVE  ServedStep
<1>1. /\ session'.stopping = session.stopping /\ session'.voice = session.voice
      /\ session'.playback = session.playback
  BY DEF GiveUp, Inv, CoreTypes, Sessions
<1>2. ~Ready'
  BY <1>1 DEF Ready, CanStart, Connected
<1> QED
  BY <1>2 DEF ServedStep

\* A worker that fetches is not outdated: it finds the session as it left it, stopping,
\* or in another epoch.
LEMMA FetchedServed ==
    ASSUME ServedInv, NEW w \in Workers, StarterFetched(w), ~ReturnsTooLate PROVE ServedStep
<1>1. /\ Inv /\ session \in Sessions /\ starter \in [Workers -> WorkerStates]
      /\ starter[w].pc = "fetch" /\ session.starting
  BY DEF ServedInv, Inv, CoreTypes, StarterFetched, OneStarter, Busy
<1>2. session.epoch = starter[w].epoch /\ starter[w].latest
  BY <1>1 DEF ReturnsTooLate, ServedInv, FetchesPast
<1>3. open' = open
  BY DEF StarterFetched, voiceVars
<1>4. CASE GiveUp(w, [session EXCEPT !.phase = "idle"])
  <2>1. session'.phase = "idle"
    BY <1>1, <1>4 DEF GiveUp, Sessions
  <2> QED
    BY <2>1, NotLoadingStep
<1>5. CASE UNCHANGED session
  BY <1>1, <1>5 DEF ServedStep, Attended
<1>6. CASE ~CanStart(session) /\ GiveUp(w, session)
  BY <1>1, <1>3, <1>6, GiveUpServes
<1> QED
  BY <1>2, <1>4, <1>5, <1>6 DEF StarterFetched, CanStart

LEMMA StarterServed ==
    ASSUME ServedInv, NEW w \in Workers, StarterStep(w), ~ReturnsTooLate
    PROVE  ServedStep \/ (StarterDiscards(w) /\ playlist.queue = << >>)
<1>1. /\ Inv /\ session \in Sessions /\ kicks \in Nat
  BY DEF ServedInv, Inv, CoreTypes
<1>2. open' = open /\ joins' = joins
  BY DEF StarterStep, StarterEnters, StarterFetched, StarterSelects, StreamStarts, StartFails,
         StaleStartFails, StarterCommits, StarterDiscards, voiceVars
<1>3. CASE StarterEnters(w)
  <2>1. CASE ~CanStart(session) /\ GiveUp(w, session)
    BY <1>1, <1>2, <2>1, GiveUpServes
  <2>2. CASE UNCHANGED session
    BY <1>2, <1>3, <2>2, SameSessionStep DEF StarterEnters
  <2> QED
    BY <1>3, <2>1, <2>2 DEF StarterEnters
<1>4. CASE StarterFetched(w)
  BY <1>4, FetchedServed
<1>5. CASE StarterSelects(w)
  <2>1. CASE ~CanStart(session) /\ GiveUp(w, session)
    BY <1>1, <1>2, <2>1, GiveUpServes
  <2>2. CASE GiveUp(w, [session EXCEPT !.phase = "idle"])
    <3>1. session'.phase = "idle"
      BY <1>1, <2>2 DEF GiveUp, Sessions
    <3> QED
      BY <3>1, NotLoadingStep
  <2>3. CASE session' = NextGeneration(session)
    <3>1. session.starting
      BY <1>1, <1>5 DEF Inv, OneStarter, Busy, StarterSelects
    <3>2. session'.starting
      BY <1>1, <2>3, <3>1, NextGenerationFields
    <3> QED
      BY <3>2 DEF ServedStep, Attended
  <2> QED
    BY <1>5, <2>1, <2>2, <2>3 DEF StarterSelects
<1>6. CASE StreamStarts(w)
  BY <1>2, <1>6, SameSessionStep DEF StreamStarts
<1>7. CASE \E unusable \in BOOLEAN : StartFails(w, unusable)
  <2>1. session'.phase = "idle" \/ kicks' = kicks + 1
    BY <1>1, <1>7 DEF StartFails, Sessions
  <2> QED
    BY <1>1, <2>1, NotLoadingStep, KickedStep
<1>8. CASE StaleStartFails(w)
  <2> DEFINE vacant == /\ ~session.stopping
                       /\ session.playback = NoStream
                       /\ playlist.current = NoTrack
             retries == vacant /\ Connected(session) /\ HasNext(playlist)
             parked  == vacant /\ ~retries /\ session.phase = "loading"
  <2>1. CASE retries
    BY <1>1, <1>8, <2>1, KickedStep DEF StaleStartFails
  <2>2. CASE vacant /\ ~retries
    <3>1. session'.phase # "loading"
      BY <1>1, <1>8, <2>2 DEF StaleStartFails, GiveUp, Sessions
    <3> QED
      BY <3>1, NotLoadingStep
  <2>3. CASE ~vacant
    <3>1. starter[w].pc # "idle" /\ ~Attempting(w)
      BY <1>8 DEF StaleStartFails, Attempting
    <3>2. ~CanStart(session)
      BY <1>1, <2>3, <3>1, OvertakenOwnsNothing DEF CanStart
    <3>3. session' = [session EXCEPT !.phase = session.phase, !.starting = FALSE]
      BY <1>1, <1>8, <2>3 DEF StaleStartFails, GiveUp
    <3>4. /\ session'.stopping = session.stopping /\ session'.voice = session.voice
          /\ session'.playback = session.playback
      BY <1>1, <3>3 DEF Sessions
    <3> QED
      BY <1>2, <3>2, <3>4 DEF ServedStep, Ready, CanStart, Connected
  <2> QED
    BY <2>1, <2>2, <2>3
<1>9. CASE StarterCommits(w)
  <2>1. session'.phase = "playing"
    BY <1>1, <1>9 DEF StarterCommits, Sessions
  <2> QED
    BY <2>1, NotLoadingStep
<1>10. CASE StarterDiscards(w)
  <2>1. starter[w].pc # "idle" /\ GiveUp(w, session) /\ playlist' = playlist
    BY <1>10 DEF StarterDiscards
  <2>2. CASE ~session.stopping /\ playlist.current = NoTrack /\ playlist.queue # << >>
    BY <1>1, <1>10, <2>2, KickedStep DEF StarterDiscards
  <2>3. CASE playlist.queue = << >>
    BY <1>10, <2>3
  <2>4. CASE session.stopping
    BY <1>1, <1>2, <2>1, <2>4, GiveUpServes DEF CanStart
  <2>5. CASE playlist.current # NoTrack
    <3>1. ~Attempting(w)
      BY <1>10, <2>5 DEF StarterDiscards, Attempting
    <3>2. ~CanStart(session)
      BY <1>1, <2>1, <2>5, <3>1, OvertakenOwnsNothing DEF CanStart
    <3> QED
      BY <1>1, <1>2, <2>1, <3>2, GiveUpServes
  <2> QED
    BY <2>2, <2>3, <2>4, <2>5
<1> QED
  BY <1>3, <1>4, <1>5, <1>6, <1>7, <1>8, <1>9, <1>10 DEF StarterStep

LEMMA StreamServed == ASSUME ServedInv, StreamStep PROVE ServedStep
<1>1. session \in Sessions /\ kicks \in Nat
  BY DEF ServedInv, Inv, CoreTypes
<1>2. CASE \E st \in streams, replay \in BOOLEAN : StreamEnds(st, replay)
  <2>1. PICK st \in streams, replay \in BOOLEAN : StreamEnds(st, replay)
    BY <1>2
  <2>2. CASE Completes(st)
    <3>1. \/ kicks' = kicks + 1
          \/ session' = [Detached(session) EXCEPT !.phase = "idle"]
      BY <2>1, <2>2 DEF StreamEnds
    <3>2. CASE session' = [Detached(session) EXCEPT !.phase = "idle"]
      <4>1. session'.phase = "idle"
        BY <1>1, <3>2, DetachedFields DEF Sessions
      <4> QED
        BY <4>1, NotLoadingStep
    <3> QED
      BY <1>1, <3>1, <3>2, KickedStep
  <2>3. CASE ~Completes(st)
    BY <2>1, <2>3, SameSessionStep DEF StreamEnds, voiceVars
  <2> QED
    BY <2>2, <2>3
<1>3. CASE \E st \in streams : StreamLosesVoice(st)
  BY <1>3, SameSessionStep DEF StreamLosesVoice
<1>4. CASE \E st \in streams : StallRestarts(st)
  BY <1>1, <1>4, KickedStep DEF StallRestarts
<1>5. CASE \E st \in streams : StallExhausts(st)
  <2> DEFINE b == BegunStopping(session)
             s == Detached(b)
  <2>1. b \in Sessions /\ b.phase = "stopping"
    BY <1>1, BegunFields
  <2>2. session' = [s EXCEPT !.voice = NoConn]
    BY <1>5 DEF StallExhausts
  <2> HIDE DEF b
  <2>3. session'.phase = "stopping"
    BY <2>1, <2>2 DEF Detached, Sessions
  <2> QED
    BY <2>3, NotLoadingStep
<1> QED
  BY <1>2, <1>3, <1>4, <1>5 DEF StreamStep

LEMMA JoinServed == ASSUME ServedInv, NEW kind \in JoinKinds, JoinStep(kind) PROVE ServedStep
<1>1. /\ Inv /\ session \in Sessions /\ joins \subseteq JoinStates
      /\ NoConn \notin Conns /\ Dialed
  BY SessionAssumption DEF ServedInv, Inv, CoreTypes
<1>2. CASE \E j \in joins : JoinBegins(j) \/ JoinFails(j)
  <2>1. PICK j \in joins : JoinBegins(j) \/ JoinFails(j)
    BY <1>2
  <2>2. j.pc # "starting" /\ joins \ {j} \subseteq joins'
    BY <2>1 DEF JoinBegins, JoinFails, Advance
  <2>3. session' = session /\ open' = open /\ playlist' = playlist /\ kicks' = kicks
    BY <2>1 DEF JoinBegins, JoinFails, playbackVars
  <2> QED
    BY <2>2, <2>3, KeptStarting, SameSessionStep
<1>3. CASE \E j \in joins : JoinSucceeds(j)
  <2>1. PICK j \in joins : JoinSucceeds(j)
    BY <1>3
  <2>2. j.pc # "starting" /\ joins \ {j} \subseteq joins'
    BY <2>1 DEF JoinSucceeds
  <2>3. session' = session /\ playlist' = playlist /\ kicks' = kicks
    BY <2>1 DEF JoinSucceeds, playbackVars
  <2>4. \E c \in Conns \ dialed : open' = open \cup {c}
    BY <2>1 DEF JoinSucceeds
  <2>5. session.voice \in open' => session.voice \in open
    BY <1>1, <2>4 DEF Dialed
  <2> QED
    BY <2>2, <2>3, <2>5, KeptStarting, SameNeedsStep
<1>4. CASE \E j \in joins : JoinStarts(j)
  BY <1>1, <1>4, StartNextServes DEF JoinStarts
<1>5. CASE \E j \in joins : JoinEnds(j)
  <2>1. PICK j \in joins : JoinEnds(j)
    BY <1>5
  <2>2. j.pc # "starting" /\ joins \ {j} \subseteq joins'
    BY <2>1 DEF JoinEnds
  <2>3. /\ session'.phase = session.phase /\ session'.stopping = session.stopping
        /\ session'.voice = session.voice /\ session'.playback = session.playback
        /\ session'.starting = session.starting
        /\ open' = open /\ kicks' = kicks /\ playlist' = playlist
    BY <1>1, <2>1 DEF JoinEnds, Sessions, playbackVars
  <2> QED
    BY <2>2, <2>3, KeptStarting, SameNeedsStep
<1> QED
  BY <1>2, <1>3, <1>4, <1>5 DEF JoinStep, JoinsOf

LEMMA ConnectServed == ASSUME ServedInv, ConnectStep PROVE ServedStep
<1>1. session \in Sessions /\ joins \subseteq JoinStates
  BY DEF ServedInv, Inv, CoreTypes
<1>2. CASE \E j \in joins : ConnectFails(j)
  <2>1. PICK j \in joins : ConnectFails(j)
    BY <1>2
  <2>2. j.pc # "starting" /\ joins \ {j} \subseteq joins'
    BY <2>1 DEF ConnectFails
  <2>3. session' = session /\ open' \subseteq open /\ playlist' = playlist /\ kicks' = kicks
    BY <2>1 DEF ConnectFails, CloseAll, playbackVars
  <2> QED
    BY <2>2, <2>3, KeptStarting, SameSessionStep
<1>3. CASE \E j \in joins, suppress \in BOOLEAN : ConnectCommits(j, suppress)
  <2>1. PICK j \in joins, suppress \in BOOLEAN : ConnectCommits(j, suppress)
    BY <1>3
  <2> DEFINE s == Detached(IF j.moving THEN NextGeneration(NextEpoch(session)) ELSE session)
  <2>2. s \in Sessions
    BY <1>1, NextEpochFields, NextGenerationFields, DetachedFields
  <2>3. session' = [s EXCEPT !.voice = j.conn, !.phase = "idle", !.channel = j.channel]
    BY <2>1 DEF ConnectCommits
  <2> HIDE DEF s
  <2>4. session'.phase = "idle"
    BY <2>2, <2>3 DEF Sessions
  <2> QED
    BY <2>4, NotLoadingStep
<1> QED
  BY <1>2, <1>3 DEF ConnectStep

\* A join that took over has a startNext to make.
LEMMA HandedOver ==
    ASSUME NEW j \in JoinStates, [j EXCEPT !.conn = NoConn, !.pc = "starting"] \in joins'
    PROVE  ServedStep
<1>1. [j EXCEPT !.conn = NoConn, !.pc = "starting"].pc = "starting"
  BY DEF JoinStates
<1> QED
  BY <1>1 DEF ServedStep, Attended

LEMMA RecoveryServed == ASSUME ServedInv, RecoveryStep PROVE ServedStep
<1>1. session \in Sessions /\ joins \subseteq JoinStates
  BY DEF ServedInv, Inv, CoreTypes
<1>2. CASE \E j \in joins : RecoveryWaited(j)
  <2>1. PICK j \in joins : RecoveryWaited(j)
    BY <1>2
  <2>2. j.pc # "starting" /\ joins \ {j} \subseteq joins'
    BY <2>1 DEF RecoveryWaited, Advance
  <2>3. /\ session'.phase = session.phase /\ session'.stopping = session.stopping
        /\ session'.voice = session.voice /\ session'.playback = session.playback
        /\ session'.starting = session.starting
        /\ open' = open /\ kicks' = kicks /\ playlist' = playlist
    BY <1>1, <2>1 DEF RecoveryWaited, Sessions, playbackVars
  <2> QED
    BY <2>2, <2>3, KeptStarting, SameNeedsStep
<1>3. CASE \E j \in joins : RecoveryEnds(j)
  <2>1. PICK j \in joins : RecoveryEnds(j)
    BY <1>3
  <2>2. j.pc # "starting" /\ joins \ {j} \subseteq joins' /\ j \in JoinStates
    BY <1>1, <2>1 DEF RecoveryEnds
  <2>3. CASE GivesUpRecovery(j)
    <3>1. session' = session /\ open' \subseteq open /\ playlist' = playlist /\ kicks' = kicks
      BY <2>1, <2>3 DEF RecoveryEnds, CloseAll, playbackVars
    <3> QED
      BY <2>2, <3>1, KeptStarting, SameSessionStep
  <2>4. CASE ~GivesUpRecovery(j) /\ j.conn = NoConn
    <3>1. session' = FinishedStopping(BegunStopping(session))
      BY <2>1, <2>4 DEF RecoveryEnds
    <3> QED
      BY <1>1, <3>1, StoppedFields, NotLoadingStep
  <2>5. CASE ~GivesUpRecovery(j) /\ j.conn # NoConn
    <3>1. [j EXCEPT !.conn = NoConn, !.pc = "starting"] \in joins'
      BY <2>1, <2>5 DEF RecoveryEnds
    <3> QED
      BY <2>2, <3>1, HandedOver
  <2> QED
    BY <2>3, <2>4, <2>5
<1> QED
  BY <1>2, <1>3 DEF RecoveryStep

LEMMA MoveServed == ASSUME ServedInv, MoveStep PROVE ServedStep
<1>1. session \in Sessions /\ joins \subseteq JoinStates
  BY DEF ServedInv, Inv, CoreTypes
<1>2. PICK j \in joins : MoveEnds(j)
  BY DEF MoveStep
<1>3. j.pc # "starting" /\ joins \ {j} \subseteq joins' /\ j \in JoinStates
  BY <1>1, <1>2 DEF MoveEnds
<1> DEFINE moved == [session EXCEPT !.moveTarget = NoChannel, !.transition = FALSE]
<1>4. CASE CloseAll({j.conn}) /\ session' = session
  <2>1. open' \subseteq open /\ playlist' = playlist /\ kicks' = kicks
    BY <1>2, <1>4 DEF MoveEnds, CloseAll, playbackVars
  <2> QED
    BY <1>3, <1>4, <2>1, KeptStarting, SameSessionStep
<1>5. CASE session' = [moved EXCEPT !.channel = NoChannel, !.phase = "idle"]
  <2>1. session'.phase = "idle"
    BY <1>1, <1>5 DEF Sessions
  <2> QED
    BY <2>1, NotLoadingStep
<1>6. CASE [j EXCEPT !.conn = NoConn, !.pc = "starting"] \in joins'
  BY <1>3, <1>6, HandedOver
<1>7. [j EXCEPT !.pc = "starting", !.conn = NoConn] = [j EXCEPT !.conn = NoConn, !.pc = "starting"]
  BY <1>3 DEF JoinStates
<1> QED
  BY <1>2, <1>4, <1>5, <1>6, <1>7 DEF MoveEnds

LEMMA LossServed == ASSUME ServedInv, LossStep PROVE ServedStep
<1>1. session \in Sessions
  BY DEF ServedInv, Inv, CoreTypes
<1>2. CASE \E conn \in losses : LossIgnored(conn)
  BY <1>2, SameSessionStep DEF LossIgnored, playbackVars
<1>3. CASE \E conn \in losses : LossBegins(conn)
  <2> DEFINE s == Detached(NextEpoch(session))
  <2>1. s \in Sessions
    BY <1>1, NextEpochFields, DetachedFields
  <2>2. session' = [s EXCEPT !.phase = "recovering", !.voice = NoConn]
    BY <1>3 DEF LossBegins
  <2> HIDE DEF s
  <2>3. session'.phase = "recovering"
    BY <2>1, <2>2 DEF Sessions
  <2> QED
    BY <2>3, NotLoadingStep
<1> QED
  BY <1>2, <1>3 DEF LossStep

LEMMA EndServed == ASSUME ServedInv, LossTearsDown \/ ExhaustionCleanup PROVE ServedStep
<1>1. session \in Sessions
  BY DEF ServedInv, Inv, CoreTypes
<1>2. CASE session' = session /\ playlist' = playlist
  BY <1>2, SameSessionStep DEF LossTearsDown, ExhaustionCleanup, voiceVars, playbackVars
<1>3. CASE session' = FinishedStopping(BegunStopping(session))
  BY <1>1, <1>3, StoppedFields, NotLoadingStep
<1>4. CASE session' = FinishedStopping(session)
  BY <1>1, <1>4, FinishedFields, NotLoadingStep
<1> QED
  BY <1>2, <1>3, <1>4 DEF LossTearsDown, ExhaustionCleanup

-----------------------------------------------------------------------------
(* What the argument needs besides.                                        *)

\* A step passes connections on, dropping some.
PassesOn ==
    /\ dialed' = dialed /\ open' \subseteq open
    /\ session'.voice \in {session.voice, NoConn} \cup {j.conn : j \in joins}
    /\ \A j \in joins' : j.conn \in {NoConn} \cup {i.conn : i \in joins}

LEMMA PassesOnDialed == ASSUME Dialed, PassesOn PROVE Dialed'
BY DEF Dialed, PassesOn

LEMMA SameVoicePassesOn ==
    ASSUME dialed' = dialed, open' \subseteq open, joins' \subseteq joins,
           session'.voice \in {session.voice, NoConn}
    PROVE  PassesOn
BY DEF PassesOn

\* The connection of a join that moved on, or was replaced by nothing.
LEMMA MovedConn ==
    ASSUME NEW j \in JoinStates, NEW pc
    PROVE  /\ [j EXCEPT !.pc = pc].conn = j.conn
           /\ [j EXCEPT !.conn = NoConn, !.pc = pc].conn = NoConn
           /\ [j EXCEPT !.pc = pc, !.conn = NoConn].conn = NoConn
           /\ \A c : [j EXCEPT !.pc = pc, !.conn = c].conn = c
BY DEF JoinStates

LEMMA StartNextVoice == ASSUME Inv, StartNext PROVE session'.voice = session.voice
BY DEF StartNext, StartedLoading, Inv, CoreTypes, Sessions

LEMMA StarterVoice ==
    ASSUME Inv, NEW w \in Workers, StarterStep(w) PROVE session'.voice = session.voice
<1>1. session \in Sessions
  BY DEF Inv, CoreTypes
<1>2. CASE StarterSelects(w)
  BY <1>1, <1>2, NextGenerationFields DEF StarterSelects, GiveUp, Sessions
<1>3. CASE StarterEnters(w) \/ StarterFetched(w) \/ StreamStarts(w)
  BY <1>1, <1>3 DEF StarterEnters, StarterFetched, StreamStarts, GiveUp, Sessions
<1>4. CASE \E unusable \in BOOLEAN : StartFails(w, unusable)
  BY <1>1, <1>4 DEF StartFails, Sessions
<1>5. CASE StaleStartFails(w) \/ StarterCommits(w) \/ StarterDiscards(w)
  BY <1>1, <1>5 DEF StaleStartFails, StarterCommits, StarterDiscards, GiveUp, Sessions
<1> QED
  BY <1>2, <1>3, <1>4, <1>5 DEF StarterStep

LEMMA UserPassesOn == ASSUME Inv, UserStep PROVE PassesOn
<1>1. session \in Sessions
  BY DEF Inv, CoreTypes
<1>2. CASE \E channel \in Channels : Connect(channel)
  <2>1. PICK channel \in Channels : Connect(channel)
    BY <1>2
  <2>2. session'.voice = session.voice /\ dialed' = dialed /\ open' = open
    BY <1>1, <2>1 DEF Connect, Sessions
  <2>3. \A j \in joins' : j \in joins \/ j.conn = NoConn
    BY <2>1 DEF Connect, Join
  <2> QED
    BY <2>2, <2>3 DEF PassesOn
<1>3. CASE Stop
  <2>1. session' = FinishedStopping(BegunStopping(session))
    BY <1>3 DEF Stop, StopAll
  <2> QED
    BY <1>1, <1>3, <2>1, StoppedFields, SameVoicePassesOn DEF Stop, StopAll, CloseAll
<1>4. CASE Skip \/ Previous
  <2>1. session' = [NextGeneration(Detached(session)) EXCEPT !.phase = "loading"]
    BY <1>4 DEF Skip, Previous, Restart
  <2>2. session'.voice = session.voice
    BY <1>1, <2>1, DetachedFields, NextGenerationFields DEF Sessions
  <2> QED
    BY <1>4, <2>2, SameVoicePassesOn DEF Skip, Previous, Restart, voiceVars
<1>5. CASE \E request \in Requests, placement \in Placements : Enqueue(request, placement)
  <2>1. session'.voice = session.voice
    BY <1>1, <1>5 DEF Enqueue, Sessions
  <2> QED
    BY <1>5, <2>1, SameVoicePassesOn DEF Enqueue, voiceVars
<1>6. CASE Pause \/ Resume \/ Loop \/ SetLoop \/ Shuffle \/ Clear \/ Toggle247
  <2>1. session'.voice = session.voice
    BY <1>1, <1>6 DEF Pause, Resume, Loop, SetLoop, Shuffle, Clear, Edit, Toggle247, Sessions
  <2> QED
    BY <1>6, <2>1, SameVoicePassesOn
    DEF Pause, Resume, Loop, SetLoop, Shuffle, Clear, Edit, Toggle247, voiceVars
<1> QED
  BY <1>2, <1>3, <1>4, <1>5, <1>6 DEF UserStep

LEMMA DiscordPassesOn == ASSUME Inv, DiscordStep PROVE PassesOn
<1>1. session \in Sessions
  BY DEF Inv, CoreTypes
<1>2. CASE \E channel \in Channels : BotMoved(channel)
  <2>1. PICK channel \in Channels : BotMoved(channel)
    BY <1>2
  <2> DEFINE s == Detached(NextGeneration(NextEpoch(session)))
  <2>2. s \in Sessions
    BY <1>1, NextEpochFields, NextGenerationFields, DetachedFields
  <2>3. session' = [s EXCEPT !.moveTarget = channel, !.transition = TRUE,
                             !.voice = NoConn, !.channel = channel, !.phase = "connecting"]
    BY <2>1 DEF BotMoved
  <2> HIDE DEF s
  <2>4. session'.voice = NoConn
    BY <2>2, <2>3 DEF Sessions
  <2>5. \A j \in joins' : j \in joins \/ j.conn = NoConn
    BY <2>1 DEF BotMoved
  <2>6. dialed' = dialed /\ open' \subseteq open
    BY <2>1 DEF BotMoved, CloseAll
  <2> QED
    BY <2>4, <2>5, <2>6 DEF PassesOn
<1>3. CASE \E channel \in Channels : BotSeen(channel)
  <2>1. session'.voice = session.voice
    BY <1>1, <1>3 DEF BotSeen, Sessions
  <2> QED
    BY <1>3, <2>1, SameVoicePassesOn DEF BotSeen, voiceVars
<1>4. CASE \E channel \in Channels : BotSeenRecovering(channel)
  <2>1. PICK channel \in Channels : BotSeenRecovering(channel)
    BY <1>4
  <2>2. session' = [NextEpoch(session) EXCEPT !.channel = channel, !.phase = "idle",
                                              !.starting = FALSE]
    BY <2>1 DEF BotSeenRecovering
  <2>3. session'.voice = session.voice
    BY <1>1, <2>2, NextEpochFields DEF Sessions
  <2> QED
    BY <1>4, <2>3, SameVoicePassesOn DEF BotSeenRecovering, voiceVars
<1>5. CASE BotDisconnected \/ \E conn \in Conns : ConnectionLost(conn)
  BY <1>5, SameVoicePassesOn DEF BotDisconnected, ConnectionLost
<1>6. CASE ChannelDeleted \/ InactivityTimeout
  <2>1. session' = FinishedStopping(BegunStopping(session))
    BY <1>6 DEF ChannelDeleted, InactivityTimeout, StopAll
  <2> QED
    BY <1>1, <1>6, <2>1, StoppedFields, SameVoicePassesOn
    DEF ChannelDeleted, InactivityTimeout, StopAll, CloseAll
<1> QED
  BY <1>2, <1>3, <1>4, <1>5, <1>6 DEF DiscordStep

LEMMA StreamPassesOn == ASSUME Inv, StreamStep PROVE PassesOn
<1>1. session \in Sessions
  BY DEF Inv, CoreTypes
<1>2. CASE \E st \in streams, replay \in BOOLEAN : StreamEnds(st, replay)
  <2>1. \/ session' = session
        \/ \E p \in Phases : session' = [Detached(session) EXCEPT !.phase = p]
    BY <1>2 DEF StreamEnds, Phases
  <2>2. session'.voice = session.voice
    BY <1>1, <2>1 DEF Detached, Sessions
  <2> QED
    BY <1>2, <2>2, SameVoicePassesOn DEF StreamEnds, voiceVars
<1>3. CASE \E st \in streams : StreamLosesVoice(st)
  BY <1>3, SameVoicePassesOn DEF StreamLosesVoice
<1>4. CASE \E st \in streams : StallRestarts(st)
  <2>1. session' = [NextGeneration(Detached(session)) EXCEPT
                     !.restarting = TRUE, !.phase = "loading"]
    BY <1>4 DEF StallRestarts
  <2>2. session'.voice = session.voice
    BY <1>1, <2>1, DetachedFields, NextGenerationFields DEF Sessions
  <2> QED
    BY <1>4, <2>2, SameVoicePassesOn DEF StallRestarts, voiceVars
<1>5. CASE \E st \in streams : StallExhausts(st)
  <2> DEFINE s == Detached(BegunStopping(session))
  <2>1. s \in Sessions
    BY <1>1, BegunFields, DetachedFields
  <2>2. session' = [s EXCEPT !.voice = NoConn]
    BY <1>5 DEF StallExhausts
  <2> HIDE DEF s
  <2>3. session'.voice = NoConn
    BY <2>1, <2>2 DEF Sessions
  <2> QED
    BY <1>5, <2>3, SameVoicePassesOn DEF StallExhausts, CloseAll
<1> QED
  BY <1>2, <1>3, <1>4, <1>5 DEF StreamStep

LEMMA JoinPassesOn ==
    ASSUME Inv, NEW j \in joins, RecoveryWaited(j) \/ RecoveryEnds(j) \/ MoveEnds(j)
    PROVE  PassesOn
<1>1. session \in Sessions /\ j \in JoinStates
  BY DEF Inv, CoreTypes
<1>2. CASE RecoveryWaited(j)
  <2>1. session'.voice = session.voice
    BY <1>1, <1>2 DEF RecoveryWaited, Sessions
  <2>2. \A k \in joins' : k \in joins \/ k.conn = j.conn
    <3>1. [j EXCEPT !.pc = "queued"].conn = j.conn
      BY <1>1, MovedConn
    <3> QED
      BY <1>2, <3>1 DEF RecoveryWaited, Advance
  <2>3. dialed' = dialed /\ open' = open
    BY <1>2 DEF RecoveryWaited
  <2> QED
    BY <2>1, <2>2, <2>3 DEF PassesOn
<1>3. CASE RecoveryEnds(j)
  <2>1. \A k \in joins' : k \in joins \/ k.conn = NoConn
    <3>1. \A pc : [j EXCEPT !.conn = NoConn, !.pc = pc].conn = NoConn
      BY <1>1, MovedConn
    <3> QED
      BY <1>3, <3>1 DEF RecoveryEnds
  <2>2. session'.voice \in {session.voice, j.conn, NoConn}
    <3>1. CASE session' = session
      BY <3>1
    <3>2. CASE session' = FinishedStopping(BegunStopping(session))
      BY <1>1, <3>2, StoppedFields
    <3>3. CASE session' = [session EXCEPT !.voice = j.conn, !.channel = j.channel,
                                          !.phase = "loading"]
      BY <1>1, <3>3 DEF Sessions
    <3> QED
      BY <1>3, <3>1, <3>2, <3>3 DEF RecoveryEnds
  <2>3. dialed' = dialed /\ open' \subseteq open
    BY <1>3 DEF RecoveryEnds, CloseAll
  <2> QED
    BY <2>1, <2>2, <2>3 DEF PassesOn
<1>4. CASE MoveEnds(j)
  <2>1. \A k \in joins' : k \in joins \/ k.conn = NoConn
    <3>1. [j EXCEPT !.pc = "starting", !.conn = NoConn].conn = NoConn
      BY <1>1, MovedConn
    <3> QED
      BY <1>4, <3>1 DEF MoveEnds
  <2>2. session'.voice \in {session.voice, j.conn}
    BY <1>1, <1>4 DEF MoveEnds, Sessions
  <2>3. dialed' = dialed /\ open' \subseteq open
    BY <1>4 DEF MoveEnds, CloseAll
  <2> QED
    BY <2>1, <2>2, <2>3 DEF PassesOn
<1> QED
  BY <1>2, <1>3, <1>4

LEMMA ConnectPassesOn == ASSUME Inv, ConnectStep PROVE PassesOn
<1>1. session \in Sessions /\ joins \subseteq JoinStates
  BY DEF Inv, CoreTypes
<1>2. CASE \E j \in joins : ConnectFails(j)
  <2>1. PICK j \in joins : ConnectFails(j)
    BY <1>2
  <2>2. \A k \in joins' : k \in joins \/ k.conn = NoConn
    <3>1. [j EXCEPT !.pc = "ending", !.conn = NoConn].conn = NoConn
      BY <1>1, MovedConn
    <3> QED
      BY <2>1, <3>1 DEF ConnectFails
  <2> QED
    BY <2>1, <2>2 DEF ConnectFails, CloseAll, PassesOn
<1>3. CASE \E j \in joins, suppress \in BOOLEAN : ConnectCommits(j, suppress)
  <2>1. PICK j \in joins, suppress \in BOOLEAN : ConnectCommits(j, suppress)
    BY <1>3
  <2> DEFINE s == Detached(IF j.moving THEN NextGeneration(NextEpoch(session)) ELSE session)
  <2>2. s \in Sessions
    BY <1>1, NextEpochFields, NextGenerationFields, DetachedFields
  <2>3. session' = [s EXCEPT !.voice = j.conn, !.phase = "idle", !.channel = j.channel]
    BY <2>1 DEF ConnectCommits
  <2> HIDE DEF s
  <2>4. session'.voice = j.conn
    BY <2>2, <2>3 DEF Sessions
  <2>5. \A k \in joins' : k \in joins \/ k.conn = NoConn
    <3>1. \A pc : [j EXCEPT !.conn = NoConn, !.pc = pc].conn = NoConn
      BY <1>1, MovedConn
    <3> QED
      BY <2>1, <3>1 DEF ConnectCommits
  <2> QED
    BY <2>1, <2>4, <2>5 DEF ConnectCommits, CloseAll, PassesOn
<1> QED
  BY <1>2, <1>3 DEF ConnectStep

LEMMA LossPassesOn ==
    ASSUME Inv, LossStep \/ LossTearsDown \/ ExhaustionCleanup PROVE PassesOn
<1>1. session \in Sessions
  BY DEF Inv, CoreTypes
<1>2. CASE \E conn \in losses : LossIgnored(conn)
  BY <1>2, SameVoicePassesOn DEF LossIgnored
<1>3. CASE \E conn \in losses : LossBegins(conn)
  <2>1. PICK conn \in losses : LossBegins(conn)
    BY <1>3
  <2> DEFINE s == Detached(NextEpoch(session))
  <2>2. s \in Sessions
    BY <1>1, NextEpochFields, DetachedFields
  <2>3. session' = [s EXCEPT !.phase = "recovering", !.voice = NoConn]
    BY <2>1 DEF LossBegins
  <2> HIDE DEF s
  <2>4. session'.voice = NoConn
    BY <2>2, <2>3 DEF Sessions
  <2>5. \A j \in joins' : j \in joins \/ j.conn = NoConn
    BY <2>1 DEF LossBegins
  <2> QED
    BY <2>1, <2>4, <2>5 DEF LossBegins, CloseAll, PassesOn
<1>4. CASE LossTearsDown \/ ExhaustionCleanup
  <2>1. \/ session' = session
        \/ session' = FinishedStopping(BegunStopping(session))
        \/ session' = FinishedStopping(session)
    BY <1>4 DEF LossTearsDown, ExhaustionCleanup
  <2>2. session'.voice \in {session.voice, NoConn}
    BY <1>1, <2>1, StoppedFields, FinishedFields
  <2> QED
    BY <1>4, <2>2, SameVoicePassesOn DEF LossTearsDown, ExhaustionCleanup, voiceVars
<1> QED
  BY <1>2, <1>3, <1>4 DEF LossStep

\* The one step that dials.
LEMMA JoinStepDialed == ASSUME Inv, Dialed, NEW kind \in JoinKinds, JoinStep(kind) PROVE Dialed'
<1>1. session \in Sessions /\ joins \subseteq JoinStates
  BY DEF Inv, CoreTypes
<1>2. CASE \E j \in joins : JoinBegins(j) \/ JoinFails(j)
  <2>1. PICK j \in joins : JoinBegins(j) \/ JoinFails(j)
    BY <1>2
  <2>2. \A k \in joins' : k \in joins \/ k.conn = j.conn
    <3>1. /\ [j EXCEPT !.pc = "joining"].conn = j.conn
          /\ [j EXCEPT !.pc = "joined"].conn = j.conn
      BY <1>1, MovedConn
    <3> QED
      BY <2>1, <3>1 DEF JoinBegins, JoinFails, Advance
  <2> QED
    BY <2>1, <2>2 DEF JoinBegins, JoinFails, Dialed
<1>3. CASE \E j \in joins : JoinSucceeds(j)
  <2>1. PICK j \in joins : JoinSucceeds(j)
    BY <1>3
  <2>2. PICK c \in Conns \ dialed :
            /\ dialed' = dialed \cup {c} /\ open' = open \cup {c}
            /\ joins' = (joins \ {j}) \cup {[j EXCEPT !.pc = "joined", !.conn = c]}
    BY <2>1 DEF JoinSucceeds
  <2>3. [j EXCEPT !.pc = "joined", !.conn = c].conn = c
    BY <1>1, MovedConn
  <2> QED
    BY <2>1, <2>2, <2>3 DEF JoinSucceeds, Dialed
<1>4. CASE \E j \in joins : JoinStarts(j)
  <2>1. PICK j \in joins : JoinStarts(j)
    BY <1>4
  <2>2. \A k \in joins' : k \in joins \/ k.conn = j.conn
    <3>1. \A pc : [j EXCEPT !.pc = pc].conn = j.conn
      BY <1>1, MovedConn
    <3> QED
      BY <2>1, <3>1 DEF JoinStarts, Advance
  <2>3. session'.voice = session.voice
    BY <2>1, StartNextVoice DEF JoinStarts
  <2> QED
    BY <2>1, <2>2, <2>3 DEF JoinStarts, Dialed
<1>5. CASE \E j \in joins : JoinEnds(j)
  <2>1. session'.voice = session.voice
    BY <1>1, <1>5 DEF JoinEnds, Sessions
  <2> QED
    BY <1>5, <2>1, SameVoicePassesOn, PassesOnDialed DEF JoinEnds
<1> QED
  BY <1>2, <1>3, <1>4, <1>5 DEF JoinStep, JoinsOf

LEMMA NextDialed == ASSUME Inv, Dialed, [Next]_vars PROVE Dialed'
<1>1. CASE UserStep \/ DiscordStep \/ StreamStep
  BY <1>1, UserPassesOn, DiscordPassesOn, StreamPassesOn, PassesOnDialed
<1>2. CASE Kick
  BY <1>2, StartNextVoice, SameVoicePassesOn, PassesOnDialed DEF Kick, voiceVars
<1>3. CASE \E w \in Workers : StarterStep(w)
  <2>1. session'.voice = session.voice
    BY <1>3, StarterVoice
  <2>2. UNCHANGED voiceVars
    BY <1>3 DEF StarterStep, StarterEnters, StarterFetched, StarterSelects, StreamStarts,
      StartFails, StaleStartFails, StarterCommits, StarterDiscards
  <2> QED
    BY <2>1, <2>2, SameVoicePassesOn, PassesOnDialed DEF voiceVars
<1>4. CASE PrefetchEnds \/ UNCHANGED vars
  BY <1>4, SameVoicePassesOn, PassesOnDialed DEF PrefetchEnds, vars, voiceVars
<1>5. CASE \E kind \in JoinKinds : JoinStep(kind)
  BY <1>5, JoinStepDialed
<1>6. CASE ConnectStep
  BY <1>6, ConnectPassesOn, PassesOnDialed
<1>7. CASE RecoveryStep \/ MoveStep
  BY <1>7, JoinPassesOn, PassesOnDialed DEF RecoveryStep, MoveStep
<1>8. CASE LossStep \/ LossTearsDown \/ ExhaustionCleanup
  BY <1>8, LossPassesOn, PassesOnDialed
<1> QED
  BY <1>1, <1>2, <1>3, <1>4, <1>5, <1>6, <1>7, <1>8 DEF Next

LEMMA NextKicks == ASSUME kicks \in Nat, [Next]_vars PROVE kicks' \in Nat
<1>1. CASE Kick
  BY <1>1 DEF Kick
<1>2. CASE kicks' = kicks \/ kicks' = kicks + 1
  BY <1>2
<1>3. CASE UserStep
  BY <1>2, <1>3 DEF UserStep, Connect, Enqueue, Pause, Resume, Skip, Previous, Restart, Loop,
    SetLoop, Shuffle, Clear, Edit, Stop, Toggle247, playbackVars
<1>4. CASE DiscordStep
  BY <1>2, <1>4 DEF DiscordStep, BotMoved, BotSeen, BotSeenRecovering, BotDisconnected,
    ChannelDeleted, InactivityTimeout, ConnectionLost, playbackVars
<1>5. CASE \E w \in Workers : StarterStep(w)
  BY <1>2, <1>5 DEF StarterStep, StarterEnters, StarterFetched, StarterSelects, StreamStarts,
    StartFails, StaleStartFails, StarterCommits, StarterDiscards
<1>6. CASE StreamStep \/ PrefetchEnds
  BY <1>2, <1>6 DEF StreamStep, StreamEnds, StreamLosesVoice, StallRestarts, StallExhausts,
    PrefetchEnds
<1>7. CASE \E kind \in JoinKinds : JoinStep(kind)
  BY <1>2, <1>7 DEF JoinStep, JoinsOf, JoinBegins, JoinSucceeds, JoinFails, JoinStarts,
    JoinEnds, playbackVars
<1>8. CASE ConnectStep \/ RecoveryStep \/ MoveStep
  BY <1>2, <1>8 DEF ConnectStep, ConnectFails, ConnectCommits, RecoveryStep, RecoveryWaited,
    RecoveryEnds, MoveStep, MoveEnds, playbackVars
<1>9. CASE LossStep \/ LossTearsDown \/ ExhaustionCleanup \/ UNCHANGED vars
  BY <1>2, <1>9 DEF LossStep, LossIgnored, LossBegins, LossTearsDown, ExhaustionCleanup, vars,
    playbackVars
<1> QED
  BY <1>1, <1>3, <1>4, <1>5, <1>6, <1>7, <1>8, <1>9 DEF Next

\* A worker that fetches is outdated only by another that begins to.
LatestOnward ==
    \A w \in Workers :
        starter'[w].pc = "fetch" =>
           \/ starter'[w].latest
           \/ starter[w].pc = "fetch" /\ starter'[w].latest = starter[w].latest

SameLatest(a) ==
    \A w \in Workers :
        a[w].pc = "fetch" => starter[w].pc = "fetch" /\ a[w].latest = starter[w].latest

LEMMA RevisedLatest ==
    ASSUME starter \in [Workers -> WorkerStates]
    PROVE  /\ SameLatest(starter) /\ SameLatest(Revised)
           /\ \A changed \in BOOLEAN : SameLatest(RevisedIf(changed))
BY DEF SameLatest, Revised, RevisedIf, WorkerStates

LEMMA SameLatestOnward == ASSUME SameLatest(starter') PROVE LatestOnward
BY DEF SameLatest, LatestOnward

LEMMA WorkerLatest ==
    ASSUME NEW a \in [Workers -> WorkerStates], SameLatest(a), NEW w \in Workers,
           NEW r \in WorkerStates, r.pc = "fetch" => r.latest, starter' = [a EXCEPT ![w] = r]
    PROVE  LatestOnward
<1>1. starter'[w] = r /\ \A v \in Workers \ {w} : starter'[v] = a[v]
  BY WorkerMoved
<1>2. \A v \in Workers \ {w} : starter'[v].pc = "fetch" =>
         starter[v].pc = "fetch" /\ starter'[v].latest = starter[v].latest
  BY <1>1 DEF SameLatest
<1>3. starter'[w].pc = "fetch" => starter'[w].latest
  BY <1>1
<1> QED
  BY <1>2, <1>3 DEF LatestOnward

LEMMA StartNextLatest == ASSUME Inv, StartNext PROVE LatestOnward
<1>1. starter \in [Workers -> WorkerStates]
  BY DEF Inv, CoreTypes
<1>2. CASE UNCHANGED starter
  BY <1>1, <1>2, RevisedLatest, SameLatestOnward
<1>3. CASE SpawnStarter
  <2> DEFINE r == [IdleWorker EXCEPT !.pc = "entry"]
  <2>1. r \in WorkerStates /\ r.pc = "entry"
    BY DEF IdleWorker, WorkerStates
  <2>2. PICK w \in Workers : starter' = [starter EXCEPT ![w] = r]
    BY <1>3 DEF SpawnStarter, FreeWorkers
  <2> HIDE DEF r
  <2> QED
    BY <1>1, <2>1, <2>2, RevisedLatest, WorkerLatest
<1> QED
  BY <1>2, <1>3 DEF StartNext

LEMMA StarterLatest == ASSUME Inv, NEW w \in Workers, StarterStep(w) PROVE LatestOnward
<1>1. starter \in [Workers -> WorkerStates] /\ session \in Sessions
  BY DEF Inv, CoreTypes
<1>2. IdleWorker \in WorkerStates /\ IdleWorker.pc = "idle"
  BY IdleIsState
<1>3. /\ Revised \in [Workers -> WorkerStates] /\ SameLatest(Revised)
      /\ SameLatest(starter)
      /\ \A changed \in BOOLEAN :
             RevisedIf(changed) \in [Workers -> WorkerStates] /\ SameLatest(RevisedIf(changed))
  BY <1>1, RevisedWorkers, RevisedLatest
<1>4. \E a \in [Workers -> WorkerStates], r \in WorkerStates :
         /\ SameLatest(a) /\ (r.pc = "fetch" => r.latest) /\ starter' = [a EXCEPT ![w] = r]
  <2>1. CASE starter' = [starter EXCEPT ![w] = IdleWorker]
    BY <1>1, <1>2, <1>3, <2>1
  <2>2. CASE \E pc \in {"select", "commit"} : Proceed(w, pc)
    <3>1. PICK pc \in {"select", "commit"} : Proceed(w, pc)
      BY <2>2
    <3>2. /\ [starter[w] EXCEPT !.pc = pc] \in WorkerStates
          /\ [starter[w] EXCEPT !.pc = pc].pc # "fetch"
      BY <1>1, <3>1 DEF WorkerStates
    <3>3. starter' = [starter EXCEPT ![w] = [starter[w] EXCEPT !.pc = pc]]
      BY <3>1 DEF Proceed
    <3> QED
      BY <1>1, <1>3, <3>2, <3>3
  <2>3. CASE StarterEnters(w)
    <3> DEFINE r == [pc |-> "fetch", epoch |-> session.epoch, generation |-> 0,
                     fresh |-> TRUE, latest |-> TRUE]
    <3>1. r \in WorkerStates /\ r.latest
      BY <1>1 DEF WorkerStates, Sessions
    <3>2. CASE starter' = [Outdated EXCEPT ![w] = r]
      <4>1. starter[w].pc # "idle"
        BY <2>3 DEF StarterEnters
      <4>2. /\ Outdated \in [Workers -> WorkerStates] /\ starter[w].pc = "entry"
            /\ \A v \in Workers : Outdated[v].pc = starter[v].pc
        BY <1>1, <2>3, OutdatedWorkers DEF SameWorkers, StarterEnters
      <4>3. SameLatest(Outdated)
        BY <4>1, <4>2, OthersIdle DEF SameLatest
      <4> HIDE DEF r
      <4> QED
        BY <3>1, <3>2, <4>2, <4>3
    <3> QED
      BY <2>1, <2>2, <2>3, <3>2 DEF StarterEnters, GiveUp
  <2>4. CASE StarterSelects(w)
    <3> DEFINE r == [pc |-> "start", epoch |-> session.epoch,
                     generation |-> session.generation + 1,
                     fresh |-> FALSE, latest |-> FALSE]
    <3>1. r \in WorkerStates /\ r.pc # "fetch"
      BY <1>1 DEF WorkerStates, Sessions
    <3>2. starter' = [starter EXCEPT ![w] = IdleWorker] \/ starter' = [Revised EXCEPT ![w] = r]
      BY <2>4 DEF StarterSelects, GiveUp
    <3> HIDE DEF r
    <3> QED
      BY <1>3, <2>1, <3>1, <3>2
  <2>5. CASE StreamStarts(w)
    BY <2>2, <2>5 DEF StreamStarts
  <2>6. CASE \E unusable \in BOOLEAN : StartFails(w, unusable)
    <3>1. starter' = [RevisedIf(playlist.current # NoTrack) EXCEPT ![w] = IdleWorker]
      BY <2>6 DEF StartFails
    <3> QED
      BY <1>2, <1>3, <3>1
  <2>7. CASE StarterFetched(w)
    BY <2>1, <2>2, <2>7 DEF StarterFetched, GiveUp
  <2>8. CASE StaleStartFails(w) \/ StarterCommits(w) \/ StarterDiscards(w)
    BY <2>1, <2>8 DEF StaleStartFails, StarterCommits, StarterDiscards, GiveUp
  <2> QED
    BY <2>3, <2>4, <2>5, <2>6, <2>7, <2>8 DEF StarterStep
<1> QED
  BY <1>4, WorkerLatest

LEMMA NextLatest ==
    ASSUME Inv, [Next]_vars, "botMovedRecovering" \notin Operations PROVE LatestOnward
<1>1. starter \in [Workers -> WorkerStates]
  BY DEF Inv, CoreTypes
<1>2. CASE Kick \/ \E kind \in JoinKinds, j \in joins : JoinStarts(j)
  BY <1>2, StartNextLatest DEF Kick, JoinStarts
<1>3. CASE \E w \in Workers : StarterStep(w)
  BY <1>3, StarterLatest
<1>4. CASE \/ starter' = starter \/ starter' = Revised
           \/ \E changed \in BOOLEAN : starter' = RevisedIf(changed)
  BY <1>1, <1>4, RevisedLatest, SameLatestOnward
<1>5. CASE UserStep
  BY <1>4, <1>5 DEF UserStep, Connect, Enqueue, Pause, Resume, Skip, Previous, Restart, Loop,
    SetLoop, Shuffle, Clear, Edit, Stop, Toggle247, playbackVars
<1>6. CASE DiscordStep
  <2>1. \A channel \in Channels : ~BotSeenRecovering(channel)
    BY DEF BotSeenRecovering, Arrives
  <2> QED
    BY <1>4, <1>6, <2>1 DEF DiscordStep, BotMoved, BotSeen, BotDisconnected, ChannelDeleted,
      InactivityTimeout, ConnectionLost, playbackVars
<1>7. CASE StreamStep \/ PrefetchEnds
  BY <1>4, <1>7 DEF StreamStep, StreamEnds, StreamLosesVoice, StallRestarts, StallExhausts,
    PrefetchEnds
<1>8. CASE \E kind \in JoinKinds : JoinStep(kind)
  BY <1>2, <1>4, <1>8 DEF JoinStep, JoinsOf, JoinBegins, JoinSucceeds, JoinFails, JoinEnds,
    playbackVars
<1>9. CASE ConnectStep \/ RecoveryStep \/ MoveStep
  BY <1>4, <1>9 DEF ConnectStep, ConnectFails, ConnectCommits, RecoveryStep, RecoveryWaited,
    RecoveryEnds, MoveStep, MoveEnds, playbackVars
<1>10. CASE LossStep \/ LossTearsDown \/ ExhaustionCleanup \/ UNCHANGED vars
  BY <1>4, <1>10 DEF LossStep, LossIgnored, LossBegins, LossTearsDown, ExhaustionCleanup, vars,
    playbackVars
<1> QED
  BY <1>2, <1>3, <1>5, <1>6, <1>7, <1>8, <1>9, <1>10 DEF Next

\* A background fetch is the one of the track that a worker has just committed.
PrefetchStep ==
    \/ prefetch' = prefetch
    \/ prefetch' = NoFetch
    \/ \E w \in Workers :
          /\ StarterCommits(w)
          /\ prefetch' = [epoch |-> session.epoch, generation |-> session.generation]

LEMMA NextPrefetch == ASSUME [Next]_vars PROVE PrefetchStep
<1>1. CASE prefetch' = prefetch
  BY <1>1 DEF PrefetchStep
<1>2. CASE UserStep
  BY <1>1, <1>2 DEF UserStep, Connect, Enqueue, Pause, Resume, Skip, Previous, Restart, Loop,
    SetLoop, Shuffle, Clear, Edit, Stop, Toggle247, playbackVars
<1>3. CASE DiscordStep
  BY <1>1, <1>3 DEF DiscordStep, BotMoved, BotSeen, BotSeenRecovering, BotDisconnected,
    ChannelDeleted, InactivityTimeout, ConnectionLost, playbackVars
<1>4. CASE \E w \in Workers : StarterStep(w)
  <2>1. CASE \E w \in Workers : StarterCommits(w)
    BY <2>1 DEF StarterCommits, PrefetchStep
  <2> QED
    BY <1>1, <1>4, <2>1 DEF StarterStep, StarterEnters, StarterFetched, StarterSelects,
      StreamStarts, StartFails, StaleStartFails, StarterDiscards
<1>5. CASE StreamStep \/ Kick
  BY <1>1, <1>5 DEF StreamStep, StreamEnds, StreamLosesVoice, StallRestarts, StallExhausts, Kick
<1>6. CASE PrefetchEnds
  BY <1>6 DEF PrefetchEnds, PrefetchStep
<1>7. CASE \E kind \in JoinKinds : JoinStep(kind)
  BY <1>1, <1>7 DEF JoinStep, JoinsOf, JoinBegins, JoinSucceeds, JoinFails, JoinStarts,
    JoinEnds, playbackVars
<1>8. CASE ConnectStep \/ RecoveryStep \/ MoveStep
  BY <1>1, <1>8 DEF ConnectStep, ConnectFails, ConnectCommits, RecoveryStep, RecoveryWaited,
    RecoveryEnds, MoveStep, MoveEnds, playbackVars
<1>9. CASE LossStep \/ LossTearsDown \/ ExhaustionCleanup \/ UNCHANGED vars
  BY <1>1, <1>9 DEF LossStep, LossIgnored, LossBegins, LossTearsDown, ExhaustionCleanup, vars,
    playbackVars
<1> QED
  BY <1>2, <1>3, <1>4, <1>5, <1>6, <1>7, <1>8, <1>9 DEF Next

LEMMA NextFetchesPast ==
    ASSUME ServedInv, [Next]_vars, "botMovedRecovering" \notin Operations
    PROVE  FetchesPast' /\ prefetch' \in [epoch: Nat, generation: Nat]
<1>1. /\ Inv /\ FetchesPast /\ session \in Sessions /\ starter \in [Workers -> WorkerStates]
      /\ session.epoch \in Nat /\ session.generation \in Nat
      /\ prefetch \in [epoch: Nat, generation: Nat]
  BY DEF ServedInv, Inv, CoreTypes, Sessions
<1>2. Onward /\ WorkersOnward /\ LatestOnward /\ PrefetchStep
  BY <1>1, NextOnward, NextWorkers, NextLatest, NextPrefetch
<1>3. /\ session'.epoch \in Nat /\ session'.generation \in Nat
      /\ starter' \in [Workers -> WorkerStates]
  <2>1. Inv'
    BY <1>1, NextInv
  <2> QED
    BY <2>1 DEF Inv, CoreTypes, Sessions
<1>4. session'.epoch >= session.epoch /\ session'.generation >= session.generation
  BY <1>2 DEF Onward
<1>5. CASE \E w \in Workers :
             /\ StarterCommits(w)
             /\ prefetch' = [epoch |-> session.epoch, generation |-> session.generation]
  <2>1. PICK w \in Workers :
           /\ StarterCommits(w)
           /\ prefetch' = [epoch |-> session.epoch, generation |-> session.generation]
    BY <1>5
  <2>2. starter[w].pc = "commit" /\ starter' = [starter EXCEPT ![w] = IdleWorker]
    BY <2>1 DEF StarterCommits
  <2>3. \A v \in Workers : starter'[v].pc = "idle"
    BY <1>1, <2>2, OthersIdle, IdleIsState
  <2> QED
    BY <1>1, <1>3, <1>4, <2>1, <2>3 DEF FetchesPast, Starting
<1>6. CASE prefetch' \in {prefetch, NoFetch}
  <2>1. /\ prefetch' \in [epoch: Nat, generation: Nat]
        /\ prefetch'.epoch <= prefetch.epoch /\ prefetch'.generation <= prefetch.generation
    BY <1>1, <1>6 DEF NoFetch
  <2>2. ASSUME NEW w \in Workers, starter'[w].pc = "fetch"
        PROVE  /\ starter'[w].latest
               /\ prefetch'.epoch <= starter'[w].epoch /\ starter'[w].epoch <= session'.epoch
    <3>1. starter'[w].latest
      BY <1>1, <1>2, <2>2 DEF LatestOnward, FetchesPast
    <3>2. \/ starter[w].pc = "fetch" /\ starter'[w].epoch = starter[w].epoch
          \/ starter'[w].epoch = session.epoch
      BY <1>2, <2>2 DEF WorkersOnward, MayBecome
    <3>3. starter[w].epoch \in Nat
      BY <1>1 DEF WorkerStates
    <3>4. prefetch.epoch <= starter'[w].epoch /\ starter'[w].epoch <= session.epoch
      BY <1>1, <3>2, <3>3 DEF FetchesPast
    <3>5. starter'[w].epoch \in Nat
      BY <1>1, <3>2, <3>3
    <3> QED
      BY <1>1, <1>3, <1>4, <2>1, <3>1, <3>4, <3>5
  <2>3. ASSUME NEW w \in Workers, Starting(w)'
        PROVE  /\ prefetch'.generation < starter'[w].generation
               /\ starter'[w].generation <= session'.generation
    <3>1. \/ Starting(w) /\ starter'[w].generation = starter[w].generation
          \/ /\ starter'[w].generation = session'.generation
             /\ session'.generation = session.generation + 1
      BY <1>2, <2>3 DEF WorkersOnward, MayBecome, Starting
    <3>2. starter[w].generation \in Nat
      BY <1>1 DEF WorkerStates
    <3>3. CASE Starting(w) /\ starter'[w].generation = starter[w].generation
      <4>1. /\ prefetch.generation < starter[w].generation
            /\ starter[w].generation <= session.generation
        BY <1>1, <3>3 DEF FetchesPast
      <4> QED
        BY <1>1, <1>3, <1>4, <2>1, <3>2, <3>3, <4>1
    <3>4. CASE /\ starter'[w].generation = session'.generation
               /\ session'.generation = session.generation + 1
      <4>1. prefetch.generation <= session.generation
        BY <1>1 DEF FetchesPast
      <4> QED
        BY <1>1, <1>3, <2>1, <3>4, <4>1
    <3> QED
      BY <3>1, <3>3, <3>4
  <2>4. session'.epoch >= 1 /\ prefetch'.epoch <= session'.epoch
        /\ prefetch'.generation <= session'.generation
    BY <1>1, <1>3, <1>4, <2>1 DEF FetchesPast
  <2> QED
    BY <2>1, <2>2, <2>3, <2>4 DEF FetchesPast, Starting
<1> QED
  BY <1>2, <1>5, <1>6 DEF PrefetchStep

\* The background fetch that is current after a step was so before it.
LEMMA PrefetchWasCurrent ==
    ASSUME ServedInv, Onward, session' \in Sessions, prefetch' = prefetch, PrefetchCurrent'
    PROVE  PrefetchCurrent
<1>1. /\ session \in Sessions /\ prefetch.epoch <= session.epoch
      /\ prefetch.generation <= session.generation
  BY DEF ServedInv, Inv, CoreTypes, FetchesPast
<1>2. session'.epoch >= session.epoch /\ session'.generation >= session.generation
  BY DEF Onward
<1>3. prefetch.epoch = session'.epoch /\ prefetch.generation = session'.generation
  BY DEF PrefetchCurrent
<1>4. prefetch.epoch = session.epoch /\ prefetch.generation = session.generation
  BY <1>1, <1>2, <1>3 DEF Sessions
<1> QED
  BY <1>4 DEF PrefetchCurrent, ServedInv

\* The background fetch appends a track for a session that somebody attends to.
LEMMA PrefetchServed == ASSUME ServedInv, PrefetchEnds PROVE ServedStep
<1>1. /\ session' = session /\ open' = open /\ joins' = joins /\ kicks' = kicks
  BY DEF PrefetchEnds, voiceVars
<1>2. Ready' => Ready
  BY <1>1 DEF Ready, CanStart, Connected
<1>3. Attended => Attended'
  BY <1>1 DEF Attended
<1>4. CASE PrefetchCurrent
  BY <1>2, <1>3, <1>4 DEF ServedStep, ServedInv, PrefetchAttended
<1>5. CASE ~PrefetchCurrent
  <2>1. playlist' = playlist
    BY <1>5 DEF PrefetchEnds, PrefetchCurrent
  <2> QED
    BY <1>1, <2>1, SameSessionStep
<1> QED
  BY <1>4, <1>5

\* An overtaken attempt whose stream is discarded finds the queue empty.
DiscardsForNothing == \E w \in Workers : StarterDiscards(w) /\ playlist.queue = << >>

LEMMA NextServedStep ==
    ASSUME ServedInv, [Next]_vars, "botMovedRecovering" \notin Operations
    PROVE  ServedStep \/ ReturnsTooLate \/ DiscardsForNothing
<1>1. Inv
  BY DEF ServedInv
<1>2. CASE Kick
  BY <1>1, <1>2, StartNextServes DEF Kick, voiceVars
<1>3. CASE \E w \in Workers : StarterStep(w)
  BY <1>3, StarterServed DEF DiscardsForNothing
<1>4. CASE UNCHANGED vars
  BY <1>4, SameSessionStep DEF vars, voiceVars, playbackVars
<1> QED
  BY <1>2, <1>3, <1>4, PrefetchServed, UserServed, DiscordServed, StreamServed, JoinServed,
     ConnectServed, RecoveryServed, MoveServed, LossServed, EndServed DEF Next

LEMMA NextPrefetchAttended ==
    ASSUME ServedInv, [Next]_vars, "botMovedRecovering" \notin Operations
    PROVE  PrefetchAttended'
<1> SUFFICES ASSUME Ready', PrefetchCurrent' PROVE Attended'
  BY DEF PrefetchAttended
<1>1. /\ Inv /\ FetchesPast /\ session \in Sessions /\ starter \in [Workers -> WorkerStates]
      /\ prefetch \in [epoch: Nat, generation: Nat]
  BY DEF ServedInv, Inv, CoreTypes
<1>2. Inv' /\ FetchesPast' /\ Onward /\ PrefetchStep
  BY <1>1, NextInv, NextFetchesPast, NextOnward, NextPrefetch
<1>3. session' \in Sessions /\ session'.epoch >= 1
  BY <1>2 DEF Inv, CoreTypes, FetchesPast
<1>4. CASE prefetch' = NoFetch
  BY <1>3, <1>4 DEF PrefetchCurrent, NoFetch, Sessions
<1>5. CASE \E w \in Workers : StarterCommits(w)
  <2>1. session'.phase = "playing"
    BY <1>1, <1>5 DEF StarterCommits, Sessions
  <2> QED
    BY <2>1 DEF Ready
<1>6. CASE prefetch' = prefetch
  <2>1. PrefetchCurrent
    BY <1>2, <1>3, <1>6, PrefetchWasCurrent
  <2>2. prefetch.epoch = session.epoch /\ prefetch.generation = session.generation
    BY <2>1 DEF PrefetchCurrent
  <2>3. session.epoch \in Nat /\ session.generation \in Nat
    BY <1>1 DEF Sessions
  <2>4. CASE ServedStep
    BY <2>1, <2>4 DEF ServedStep, SameNeeds, ServedInv, PrefetchAttended
  <2>5. ~ReturnsTooLate
    <3> SUFFICES ASSUME NEW w \in Workers, starter[w].epoch # session.epoch, StarterFetched(w)
                 PROVE  FALSE
      BY DEF ReturnsTooLate
    <3>1. prefetch.epoch <= starter[w].epoch /\ starter[w].epoch <= session.epoch
      BY <1>1 DEF StarterFetched, FetchesPast
    <3>2. starter[w].epoch \in Nat
      BY <1>1 DEF WorkerStates
    <3> QED
      BY <2>2, <2>3, <3>1, <3>2
  <2>6. ~DiscardsForNothing
    <3> SUFFICES ASSUME NEW w \in Workers, StarterDiscards(w) PROVE FALSE
      BY DEF DiscardsForNothing
    <3>1. /\ prefetch.generation < starter[w].generation
          /\ starter[w].generation <= session.generation
      BY <1>1 DEF StarterDiscards, FetchesPast, Starting
    <3>2. starter[w].generation \in Nat
      BY <1>1 DEF WorkerStates
    <3> QED
      BY <2>2, <2>3, <3>1, <3>2
  <2> QED
    BY <2>4, <2>5, <2>6, NextServedStep
<1> QED
  BY <1>2, <1>4, <1>5, <1>6 DEF PrefetchStep

LEMMA NextServed ==
    ASSUME ServedInv, [Next]_vars, "botMovedRecovering" \notin Operations
    PROVE  ServedInv' /\ (Served => Served' \/ ReturnsTooLate)
<1>1. ServedInv'
  BY NextInv, NextKicks, NextDialed, NextFetchesPast, NextPrefetchAttended DEF ServedInv
<1>2. CASE ServedStep
  BY <1>1, <1>2, ServedStepServes
<1>3. CASE DiscardsForNothing
  <2>1. playlist'.queue = << >>
    BY <1>3 DEF DiscardsForNothing, StarterDiscards
  <2> QED
    BY <1>1, <2>1 DEF Served
<1> QED
  BY <1>1, <1>2, <1>3, NextServedStep

\* However commands, losses, stalls, fetches for autoplay and failed starts overlap: a
\* connected session with tracks to play that shows "loading", once it has a worker, a
\* startNext call or a join that will start one, goes on having it, unless a worker
\* comes back from its fetch in another epoch than it left.  (The bot is not moved during
\* a recovery.)
THEOREM QueueIsServedAlways ==
    ASSUME "botMovedRecovering" \notin Operations PROVE Spec => QueueIsServed
<1>1. Init => ServedInv /\ Served
  <2> SUFFICES ASSUME Init PROVE ServedInv /\ Served
    OBVIOUS
  <2>1. session.voice = NoConn /\ session.phase = "idle" /\ session.epoch = 1
        /\ session.generation = 0 /\ kicks = 0 /\ prefetch = NoFetch
    BY DEF Init
  <2>2. \A w \in Workers : starter[w].pc = "idle"
    BY IdleIsState DEF Init
  <2>3. Dialed /\ Served /\ PrefetchAttended
    BY <2>1 DEF Init, Dialed, Served, PrefetchAttended, Ready
  <2>4. FetchesPast /\ prefetch \in [epoch: Nat, generation: Nat]
    BY <2>1, <2>2 DEF FetchesPast, NoFetch, Starting
  <2> QED
    BY <2>1, <2>3, <2>4, InitInv DEF ServedInv
<1>2. ServedInv /\ [Next]_vars => ServedInv'
  BY NextServed
<1>3. ServedInv /\ [Next]_vars => [Served => Served' \/ ReturnsTooLate]_vars
  BY NextServed
<1> QED
  BY <1>1, <1>2, <1>3, PTL DEF Spec, QueueIsServed
=============================================================================
