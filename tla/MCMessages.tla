----------------------------- MODULE MCMessages -----------------------------
(***************************************************************************)
(* What the bot keeps of messages, and the radio's own abstract playlist,  *)
(* requests, card and connection, for TLC.  They share nothing: focus,     *)
(* chosen in the initial state, says whose variables the slots hold, and   *)
(* nobody else moves.  RadioPlaylist is extended, with its own variable.    *)
(*                                                                         *)
(* Its three tracks are each requested or chosen by autoplay at most once, *)
(* so that a second copy of a track can only be the program's doing.       *)
(***************************************************************************)
EXTENDS RadioPlaylist, TLC

CONSTANTS
  Idle, None, Nothing, Nobody, Cancelled, TooLong,  \* the components' own
  Jobs, Users, Admin,                 \* goroutines, members
  Channels, MaxCards, MaxChanges,     \* controller; starboard
  Songs, PastLimit, PendingLimit, VoiceChannels,            \* requests
  Builders, Texts, Start, MaxFields, MaxInteractions,       \* embed builder
  Messages, MaxTracked, MaxLimit, DefaultLimit,             \* snipe
  Threshold,                                                \* starboard
  Pages, MaxPresses, SweepAfter,                            \* pagination
  MaxSessions, MaxTimers, MaxRequests, MaxMoves,            \* idle
  MaxEvents, MaxErrors,               \* bounds of several
  QueueBound            \* bound: no step of the playlist makes the queue longer

VARIABLES
  focus,  \* the component that runs
  s1, s2, s3, s4, s5, s6, s7, s8, s9, s10, s11, s12, s13, s14, s15, s16, s17, s18, s19,
  s20, s21, s22, s23, s24, s25, s26, s27  \* its variables

\* The slots from the n-th on, and that they hold nothing.
From23 == <<s23, s24, s25, s26, s27>>
From17 == <<s17, s18, s19, s20, s21, s22, From23>>
From14 == <<s14, s15, s16, From17>>
From13 == <<s13, From14>>
From12 == <<s12, From13>>
From1 == <<s1, s2, s3, s4, s5, s6, s7, s8, s9, s10, s11, From12>>

Blank23 == s23 = Idle /\ s24 = Idle /\ s25 = Idle /\ s26 = Idle /\ s27 = Idle
Blank17 == s17 = Idle /\ s18 = Idle /\ s19 = Idle /\ s20 = Idle /\ s21 = Idle /\
  s22 = Idle /\ Blank23
Blank14 == s14 = Idle /\ s15 = Idle /\ s16 = Idle /\ Blank17
Blank13 == s13 = Idle /\ Blank14
Blank12 == s12 = Idle /\ Blank13
Blank1 == s1 = Idle /\ s2 = Idle /\ s3 = Idle /\ s4 = Idle /\ s5 = Idle /\ s6 = Idle /\
  s7 = Idle /\ s8 = Idle /\ s9 = Idle /\ s10 = Idle /\ s11 = Idle /\ Blank12

(***************************************************************************)
(* The playlist.                                                           *)
(***************************************************************************)

VARIABLES
    asked,    \* Tracks requested or chosen by autoplay so far
    looped    \* Whether the queue was ever set to loop

mcvars == <<playlist, asked, looped>>

MCRequests == {<<t>> : t \in Tracks} \cup {<<t, u>> : t, u \in Tracks}

MCInit == Init /\ asked = {} /\ looped = FALSE

Repeats(request) == Cardinality(ToSet(request)) # Len(request)

\* A request may name a track autoplay queued before any user asked for it.
Fresh(request) ==
    /\ ~Repeats(request)
    /\ ToSet(request) \cap asked \subseteq
         {playlist.queue[i].id : i \in AutoPending(playlist.queue)}

MCEnqueue ==
    \E request \in Requests, placement \in Placements :
        /\ Fresh(request)
        /\ Enqueue(request, placement)
        /\ asked' = asked \cup ToSet(request)
        /\ UNCHANGED looped

MCAutoplay ==
    \E t \in Tracks \ asked :
        /\ Autoplay(t)
        /\ asked' = asked \cup {t}
        /\ UNCHANGED looped

MCSetLoop ==
    \E mode \in LoopModes :
        /\ SetLoop(mode)
        /\ looped' = (looped \/ mode = "queue")
        /\ UNCHANGED asked

MCOther ==
    /\ \/ SelectNext
       \/ \E replay \in BOOLEAN : Finish(replay)
       \/ Requeue
       \/ Fail
       \/ Skip
       \/ Previous
       \/ Shuffle
       \/ Clear
       \/ Stop
    /\ UNCHANGED <<asked, looped>>

MCNext ==
    /\ MCEnqueue \/ MCAutoplay \/ MCSetLoop \/ MCOther
    /\ Len(playlist'.queue) <= QueueBound

Copies(entries, t) == Cardinality({i \in DOMAIN entries : entries[i].id = t})

(***************************************************************************)
(* The other components.                                                   *)
(***************************************************************************)

\* What is asked for in one behaviour, by whom, and how often.
Scenarios ==
  {[who |-> {Admin}, asks |-> {"playfile", "confirm", "cancel"}, max |-> 3, plays |-> 1, moves |-> 0],
   [who |-> Users, asks |-> {"skip", "previous"}, max |-> 4, plays |-> 2, moves |-> 0],
   [who |-> {Admin}, asks |-> {"find", "select", "confirm"}, max |-> 3, plays |-> 1, moves |-> 0],
   [who |-> Users, asks |-> {"play", "playnext", "post", "session"}, max |-> 2, plays |-> 1, moves |-> 0],
   [who |-> Users, asks |-> {"pause", "resume", "leave"}, max |-> 2, plays |-> 1, moves |-> 0],
   [who |-> Users, asks |-> {"join", "skip", "loop", "shuffle", "clear"}, max |-> 1, plays |-> 1, moves |-> 1]}

Transport == INSTANCE VoiceTransport WITH
  setup <- s1, isClosed <- s2, isEstablished <- s3, readyChan <- s4, wsConn <- s5,
  udpConn <- s6, daveSess <- s7, handlers <- s8, sockets <- s9, broken <- s10,
  closing <- s11, reader <- s12, beats <- s13, loss <- s14, voiceLossOnce <- s15,
  reported <- s16, outstanding <- s17, version <- s18, e2ee <- s19, invalid <- s20,
  asked <- s21, speaking <- s22, heard <- s23, speakingMu <- s24, saying <- s25,
  ownerClosed <- s26, unwritable <- s27

Card == INSTANCE RadioController WITH
  phase <- s1, epoch <- s2, gen <- s3, view <- s4, text <- s5, voice <- s6, player <- s7,
  controller <- s8, pending <- s9, backoff <- s10, suppressed <- s11, asked <- s12,
  job <- s13, cards <- s14, gone <- s15, deletions <- s16, made <- s17, changes <- s18,
  errors <- s19, dropped <- s20, refused <- s21, disturbed <- s22

Ask == INSTANCE RadioRequests WITH
  Tracks <- Songs, HistoryLimit <- PastLimit, QueueLimit <- PendingLimit,
  Admins <- {Admin}, Moderators <- {}, Files <- {f \in Songs \X Songs : f[1] # f[2]},
  playlist <- s1, paused <- s2, bot <- s3, voice <- s4, restriction <- s5, job <- s6,
  flight <- s7, prompts <- s8, menus <- s9, voteKey <- s10, votes <- s11, ballots <- s12,
  scenario <- s13, requests <- s14, plays <- s15, moves <- s16

Embed == INSTANCE EmbedBuilder WITH
  Parts <- {"title"},
  sessions <- s1, content <- s2, targets <- s3, mu <- s4, modals <- s5, shown <- s6,
  message <- s7, template <- s8, jobs <- s9, interactions <- s10, errors <- s11,
  over <- s12, stale <- s13

Sniped == INSTANCE Snipe WITH
  discord <- s1, row <- s2, limit <- s3, recentMsgs <- s4, lists <- s5, autoMod <- s6,
  jobs <- s7, events <- s8, errors <- s9, raced <- s10, cleared <- s11, inHand <- s12

Stars == INSTANCE Starboard WITH
  Members <- Users, Author <- Admin,
  stars <- s1, starboard <- s2, selfReactDisabled <- s3, posts <- s4, lastPost <- s5,
  entry <- s6, lock <- s7, jobs <- s8, events <- s9, errors <- s10, moved <- s11,
  lost <- s12

Paged == INSTANCE Pagination WITH
  Off <- Nothing,
  opener <- s1, message <- s2, stored <- s3, page <- s4, gen <- s5, timer <- s6,
  jobs <- s7, running <- s8, presses <- s9, errors <- s10, forsaken <- s11

Leaving == INSTANCE RadioIdle WITH
  humans <- s1, sessions <- s2, made <- s3, current <- s4, noted <- s5, timers <- s6,
  jobs <- s7, sweeper <- s8, shutdown <- s9, requests <- s10, moves <- s11, missed <- s12,
  held <- s13

MessagesInit ==
  /\ \/ focus = "playlist" /\ Blank1
     \/ focus = "voice transport" /\ Transport!Init
     \/ focus = "controller" /\ Card!Init /\ Blank23
     \/ focus = "requests" /\ Ask!Init /\ Blank17
     \/ focus = "embed builder" /\ Embed!Init /\ Blank14
     \/ focus = "snipe" /\ Sniped!Init /\ Blank13
     \/ focus = "starboard" /\ Stars!Init /\ Blank13
     \/ focus = "pagination" /\ Paged!Init /\ Blank12
     \/ focus = "idle" /\ Leaving!Init /\ Blank14
  /\ MCInit

MessagesNext ==
  /\ UNCHANGED focus
  /\ \/ focus = "playlist" /\ MCNext /\ UNCHANGED From1
     \/ focus = "voice transport" /\ Transport!Next /\ UNCHANGED mcvars
     \/ focus = "controller" /\ Card!Next /\ UNCHANGED <<From23, mcvars>>
     \/ focus = "requests" /\ Ask!Next /\ UNCHANGED <<From17, mcvars>>
     \/ focus = "embed builder" /\ Embed!Next /\ UNCHANGED <<From14, mcvars>>
     \/ focus = "snipe" /\ Sniped!Next /\ UNCHANGED <<From13, mcvars>>
     \/ focus = "starboard" /\ Stars!Next /\ UNCHANGED <<From13, mcvars>>
     \/ focus = "pagination" /\ Paged!Next /\ UNCHANGED <<From12, mcvars>>
     \/ focus = "idle" /\ Leaving!Next /\ UNCHANGED <<From14, mcvars>>

MessagesSpec == MessagesInit /\ [][MessagesNext]_<<focus, From1, mcvars>>

Symmetry ==
  Permutations(Jobs) \cup Permutations(Users \ {Admin}) \cup Permutations(Tracks)

(***************************************************************************)
(* Properties: those of the components, each while its component runs.     *)
(***************************************************************************)

\* Each track asked for once is in one place only (queued, current or in the
\* history) until users loop the queue, which leaves a copy of every finished
\* track in the history and another in the queue.
NoTrackTwice ==
    ~looped => \A t \in Tracks :
        Copies(playlist.queue, t) + Copies(playlist.history, t)
          + (IF playlist.current # NoTrack /\ playlist.current.id = t THEN 1 ELSE 0) <= 1

\* Through any sequence of operations the playlist neither duplicates a track nor loses one
\* (queue.go).
PlaylistKeepsTracks == []NoTrackTwice /\ OnlyDiscardsOnRequest

\* Nothing of a connection stays open when it is closed, a loss of an established one is
\* reported, and Discord has been told the speaking state that was asked for last unless a
\* write has failed, which ends the heartbeat and with it the connection (dave.go).  A session
\* gives its connection up when nobody listens, when it is dropped and when the
\* program ends (recovery.go, session.go, module.go).
ConnectionIsKept ==
  /\ focus = "voice transport" =>
       Transport!NothingStaysOpen /\ Transport!LossIsReported /\ Transport!SpeakingIsCurrent
  /\ focus = "idle" =>
       Leaving!PausedIsBounded /\ Leaving!WorkersEnd /\ Leaving!DroppedIsIdle

\* Every card the bot has posted is known to the session or on its way out, the one it shows
\* is up to date, and the session leaves a channel that is gone (controller.go).
CardsFollow ==
  /\ [](focus = "controller" => Card!CardsAreKnown /\ Card!CardIsCurrent)
  /\ [][focus = "controller" => Card!LeavesWhatIsGone]_<<focus, From1, mcvars>>

\* A prompt is confirmed once and leaves no handler behind, a ballot adds up votes of members
\* who saw the same track, and a resolution in flight belongs to a request
\* (duplicate_confirmation.go, vote_skip.go, resolver.go).
RequestsAreServedOnce ==
  focus = "requests" =>
    Ask!ConfirmedOnce /\ Ask!NothingLeft /\ Ask!BallotIsForItsTrack /\ Ask!FlightsAreOwned

\* A builder that was sent or cancelled stays over, and its message shows the embed as it was
\* built, whoever else edits it (embed_builder.go).  A message of several pages does not keep buttons
\* that nothing answers, nor its session for good (pagination.go).
DialogsFollow ==
  /\ focus = "embed builder" => Embed!OverIsOver /\ Embed!ShownIsCurrent
  /\ focus = "pagination" => Paged!ButtonsExpire

\* The lists keep to the limit that was set last, and what was cleared stays so (snipe.go).
SnipesFollow == focus = "snipe" => Sniped!LimitIsCurrent /\ Sniped!ClearedStaysCleared

\* A post on the starboard has its row, and stands there while its message has the stars
\* (starboard.go).
StarsFollow == focus = "starboard" => Stars!PostsAreRecorded /\ Stars!StarsMatch
=============================================================================
