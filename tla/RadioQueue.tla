----------------------------- MODULE RadioQueue -----------------------------
(***************************************************************************)
(* The playlist of one guild's radio session (internal/radio/queue.go).    *)
(*                                                                         *)
(* A playlist is the part of the Go `session` struct that queue.go edits   *)
(* under session.mu: the pending queue, the history, the current track and *)
(* the loop mode.  Every operator below is the effect of one `...Locked`   *)
(* method.  A track is known by its identity `id` (what duplicateTracks    *)
(* compares: the canonical URL, or title and uploader) and by the          *)
(* IsAutoplay flag; everything else a Track carries is payload.            *)
(***************************************************************************)
EXTENDS Integers, Sequences, FiniteSets, SequencesExt, FiniteSetsExt

CONSTANTS
    Tracks,         \* Identities of tracks
    NoTrack,        \* The nil `current`
    HistoryLimit,   \* historyLimit
    QueueLimit      \* MaxQueuedTracks

ASSUME QueueAssumption ==
    /\ NoTrack \notin [id: Tracks, auto: BOOLEAN]
    /\ HistoryLimit \in Nat \ {0}
    /\ QueueLimit \in Nat \ {0}

LoopModes  == {"off", "track", "queue"}
Placements == {"back", "next"}

Entry     == [id: Tracks, auto: BOOLEAN]
Playlists == [queue: Seq(Entry), history: Seq(Entry),
              current: Entry \cup {NoTrack}, loop: LoopModes]

UserTrack(t) == [id |-> t, auto |-> FALSE]
AutoTrack(t) == [id |-> t, auto |-> TRUE]

EmptyPlaylist ==
    [queue |-> << >>, history |-> << >>, current |-> NoTrack, loop |-> "off"]

UserPending(queue) == {i \in DOMAIN queue : ~queue[i].auto}
AutoPending(queue) == {i \in DOMAIN queue : queue[i].auto}

-----------------------------------------------------------------------------
(* Enqueue: the limit, promotion of autoplay duplicates, and placement.    *)

HasRoomFor(p, request) ==
    Cardinality(UserPending(p.queue)) + Len(request) <= QueueLimit

\* A request for a track autoplay already queued turns the first such entry
\* into a user's track; any other requested track is incoming.
Admit(acc, t) ==
    LET twins == {i \in AutoPending(acc.queue) : acc.queue[i].id = t}
    IN  IF twins = {}
        THEN [acc EXCEPT !.incoming = Append(@, UserTrack(t))]
        ELSE [acc EXCEPT !.queue[Min(twins)].auto = FALSE]

\* The entries an EnqueueBack request goes behind: those before the first
\* autoplay entry.
UserPrefix(queue) ==
    IF AutoPending(queue) = {} THEN Len(queue) ELSE Min(AutoPending(queue)) - 1

Enqueued(p, request, placement) ==
    LET admitted == FoldLeft(Admit, [queue |-> p.queue, incoming |-> << >>], request)
        queue    == admitted.queue
        cut      == IF placement = "next" THEN 0 ELSE UserPrefix(queue)
    IN  [p EXCEPT !.queue = SubSeq(queue, 1, cut) \o admitted.incoming
                              \o SubSeq(queue, cut + 1, Len(queue))]

AppendedAutoplay(p, t) == [p EXCEPT !.queue = Append(@, AutoTrack(t))]

-----------------------------------------------------------------------------
(* Clearing and shuffling.                                                 *)

Cleared(p) == [p EXCEPT !.queue = << >>]

Permuted(s) ==
    {[i \in DOMAIN s |-> s[f[i]]] : f \in {g \in [DOMAIN s -> DOMAIN s] : IsInjective(g)}}

\* Every playlist a shuffle can leave: two or more user tracks are permuted and
\* moved ahead of the autoplay ones; otherwise the order is unchanged.
Shuffled(p) ==
    LET User(e) == ~e.auto
        Auto(e) == e.auto
        user    == SelectSeq(p.queue, User)
        auto    == SelectSeq(p.queue, Auto)
    IN  IF Cardinality(UserPending(p.queue)) > 1
        THEN {[p EXCEPT !.queue = order \o auto] : order \in Permuted(user)}
        ELSE {p}

-----------------------------------------------------------------------------
(* The current track, the history and the loop mode.                       *)

\* addHistoryLocked: the oldest entries make room past the limit.
Recorded(history, e) ==
    LET longer == Append(history, e)
    IN  SubSeq(longer, Max({1, Len(longer) - HistoryLimit + 1}), Len(longer))

\* Mutant of Requeued: the track stays current.
RequeuedTwice(p) ==
    IF p.current = NoTrack THEN p ELSE [p EXCEPT !.queue = <<p.current>> \o @]

\* The current track goes back to the head of the queue: what connecting, a
\* lost or moved voice connection, a stall and a failed start do inline.
Requeued(p) ==
    IF p.current = NoTrack THEN p
    ELSE [p EXCEPT !.queue = <<p.current>> \o @, !.current = NoTrack]

SelectedNext(p) == [p EXCEPT !.queue = Tail(@), !.current = Head(p.queue)]

\* Mutant of Finished: what the queue replays is the only track recorded.
FinishedUnrecorded(p, replay) ==
    LET again == replay /\ p.loop = "queue"
    IN  IF p.current = NoTrack THEN p
        ELSE IF replay /\ p.loop = "track" THEN Requeued(p)
        ELSE [p EXCEPT !.current = NoTrack,
                       !.history = IF again THEN Recorded(@, p.current) ELSE @,
                       !.queue   = IF again THEN Append(@, p.current) ELSE @]

\* finishCurrentLocked(replay): a finished track is replayed (loop "track"),
\* or recorded, and queued again when the queue loops.
Finished(p, replay) ==
    LET again == replay /\ p.loop = "queue"
    IN  IF p.current = NoTrack THEN p
        ELSE IF replay /\ p.loop = "track" THEN Requeued(p)
        ELSE [p EXCEPT !.current = NoTrack,
                       !.history = Recorded(@, p.current),
                       !.queue   = IF again THEN Append(@, p.current) ELSE @]

UnloopTrack(loop) == IF loop = "track" THEN "off" ELSE loop

Skipped(p) ==
    [p EXCEPT !.history = IF p.current = NoTrack THEN @ ELSE Recorded(@, p.current),
              !.current = NoTrack,
              !.loop    = UnloopTrack(@)]

HasPrevious(p) == p.history # << >>

\* The newest history entry becomes the head of the queue; the current track
\* is dropped.
SelectedPrevious(p) ==
    [p EXCEPT !.queue   = <<Last(p.history)>> \o @,
              !.history = Front(@),
              !.current = NoTrack,
              !.loop    = UnloopTrack(@)]

\* Mutant of RecordedFailure: the failed track stays current.
RecordedFailureKept(p) ==
    IF p.current = NoTrack THEN p ELSE [p EXCEPT !.history = Recorded(@, p.current)]

\* A start that failed on its source: the track is recorded, never replayed.
RecordedFailure(p) ==
    IF p.current = NoTrack THEN p
    ELSE [p EXCEPT !.history = Recorded(@, p.current), !.current = NoTrack]

NextLoop(loop) ==
    CASE loop = "off"   -> "track"
      [] loop = "track" -> "queue"
      [] loop = "queue" -> "off"

LoopSet(p, mode) == [p EXCEPT !.loop = mode]

\* finishStoppingLocked empties the playlist; the loop mode survives.
Emptied(p) == [p EXCEPT !.queue = << >>, !.history = << >>, !.current = NoTrack]
=============================================================================
