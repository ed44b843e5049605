---------------------------- MODULE RadioPlaylist ----------------------------
(***************************************************************************)
(* What a radio session promises about its playlist, whatever goroutines,  *)
(* commands and voice events run it: the playlist only ever changes by one *)
(* of the operations of internal/radio/queue.go, and a track is taken from *)
(* the queue only when no other track is current.  RadioSession implements *)
(* this specification.                                                     *)
(***************************************************************************)
EXTENDS RadioQueue

CONSTANT Requests     \* The requests (sequences of tracks) users may make

ASSUME PlaylistAssumption == Requests \subseteq Seq(Tracks) \ {<< >>}

VARIABLE playlist

Init == playlist = EmptyPlaylist

Enqueue(request, placement) ==
    /\ HasRoomFor(playlist, request)
    /\ playlist' = Enqueued(playlist, request, placement)

\* Autoplay adds a candidate only to an empty queue.
Autoplay(t) ==
    /\ playlist.queue = << >>
    /\ playlist' = AppendedAutoplay(playlist, t)

SelectNext ==
    /\ playlist.queue # << >>
    /\ playlist.current = NoTrack
    /\ playlist' = SelectedNext(playlist)

Finish(replay) == playlist' = Finished(playlist, replay)

Requeue == playlist' = Requeued(playlist)

Fail == playlist' = RecordedFailure(playlist)

Skip == playlist' = Skipped(playlist)

Previous ==
    /\ HasPrevious(playlist)
    /\ playlist' = SelectedPrevious(playlist)

Shuffle == playlist' \in Shuffled(playlist)

SetLoop(mode) == playlist' = LoopSet(playlist, mode)

Clear == playlist' = Cleared(playlist)

Stop == playlist' = Emptied(playlist)

Next ==
    \/ \E request \in Requests, placement \in Placements : Enqueue(request, placement)
    \/ \E t \in Tracks : Autoplay(t)
    \/ SelectNext
    \/ \E replay \in BOOLEAN : Finish(replay)
    \/ Requeue
    \/ Fail
    \/ Skip
    \/ Previous
    \/ Shuffle
    \/ \E mode \in LoopModes : SetLoop(mode)
    \/ Clear
    \/ Stop

Spec == Init /\ [][Next]_playlist

-----------------------------------------------------------------------------
TypeOK ==
    /\ playlist \in Playlists
    /\ Len(playlist.history) <= HistoryLimit

Ids(entries)    == {entries[i].id : i \in DOMAIN entries}
PendingIds(p)   == Ids(p.queue) \cup (IF p.current = NoTrack THEN {} ELSE {p.current.id})
KnownIds(p)     == PendingIds(p) \cup Ids(p.history)

\* No step but clearing the queue, stopping the session and going back to the
\* previous track may make a pending track disappear: it stays pending or is
\* recorded in the history, however operations follow each other.
OnlyDiscardsOnRequest ==
    [][(~Clear /\ ~Stop /\ ~Previous) => PendingIds(playlist) \subseteq KnownIds(playlist')]_playlist
=============================================================================
