------------------------------ MODULE RadioFiles ------------------------------
(***************************************************************************)
(* The files the radio plays (internal/radio/cache.go, prebuffer.go and    *)
(* the player's side of playback.go): a cache of songs on disk with an LRU *)
(* index, one download at a time for a song whoever asks for it, a         *)
(* prebuffer per guild that prepares the next song in the background, and  *)
(* players that take what was prepared or prepare it themselves.           *)
(*                                                                         *)
(* A caller of PrepareTrack is the player of a guild (Engine.Start) or a   *)
(* worker of its prebuffer.  Every section under LRUSongCache.mu, a        *)
(* PrebufferTask.mu or a session's mu is one step; the eviction asks for   *)
(* leases in its section and removes the files after it.  All songs have   *)
(* the same size, so maxSongs stands for maxBytes too.                     *)
(***************************************************************************)
EXTENDS Naturals, FiniteSets

CONSTANTS
  Songs,          \* cache keys
  Players,        \* the guilds, each with its player and its prebuffer
  Workers,        \* goroutines of the prebuffers
  Guild,          \* the guild of each worker
  Playlist,       \* the songs of each guild
  None,
  maxSongs,
  MaxRetries,     \* EngineConfig.MaxRetries
  MaxErrors       \* bound: downloads and writes that fail, cleanups of the buffer

Callers == Players \cup Workers

\* song_<key>.opus of a song; the scratch file of a caller whose song could not
\* be stored (tmp_<key>_<time>.opus).
Paths == Songs \cup Callers

ASSUME FilesAssumption ==
  /\ None \notin Songs \cup Callers
  /\ Songs \cap Callers = {} /\ Players \cap Workers = {}
  /\ IsFiniteSet(Songs) /\ IsFiniteSet(Players) /\ IsFiniteSet(Workers)
  /\ Guild \in [Workers -> Players] /\ Playlist \in [Players -> SUBSET Songs]
  /\ maxSongs \in Nat \ {0} /\ MaxRetries \in Nat \ {0} /\ MaxErrors \in Nat

VARIABLES
  disk,           \* the files that exist
  entries,        \* LRUSongCache.entries
  before,         \* <<j, k>>: LastAccess and AccessSeq of j are before those of k
  call,           \* LRUSongCache.downloads: song -> its caller, whether it is done, its result
  c,              \* the callers
  hold,           \* the prepared path a player has leased and put in playbackPath
  pre,            \* the prebuffers
  errors

lru == <<entries, before>>
vars == <<disk, lru, call, c, hold, pre, errors>>

(***************************************************************************)
(* A caller: where it is, the song it prepares, the path it has, whether   *)
(* it owns it, whether its context has ended, the attempts it has made,    *)
(* whether the download is still in its job directory, the files its       *)
(* eviction has yet to remove.                                             *)
(***************************************************************************)
Leading == {"download", "commit", "remove", "forget"}
Preparing == {"get", "join", "wait"} \cup Leading
PCs == {"idle", "publish", "open", "play"} \cup Preparing

Idle == [pc |-> "idle", song |-> None, path |-> None, owned |-> FALSE, ended |-> FALSE,
         tries |-> 0, tmp |-> FALSE, out |-> {}]
NoCall == [by |-> None, done |-> FALSE, path |-> None, owned |-> FALSE]
NoPrebuffer == [worker |-> None, song |-> None, path |-> None, owned |-> FALSE]

TypeOK ==
  /\ disk \subseteq Paths
  /\ entries \subseteq Songs /\ before \subseteq entries \X entries
  /\ call \in [Songs -> [by : Callers \cup {None}, done : BOOLEAN,
                         path : Paths \cup {None}, owned : BOOLEAN]]
  /\ c \in [Callers -> [pc : PCs, song : Songs \cup {None}, path : Paths \cup {None},
                        owned : BOOLEAN, ended : BOOLEAN, tries : 0..MaxRetries,
                        tmp : BOOLEAN, out : SUBSET Songs]]
  /\ hold \in [Players -> Paths \cup {None}]
  /\ pre \in [Players -> [worker : Workers \cup {None}, song : Songs \cup {None},
                          path : Paths \cup {None}, owned : BOOLEAN]]
  /\ errors \in 0..MaxErrors
  /\ \A x \in Callers : c[x].owned => c[x].path \in Callers

Init ==
  /\ disk = {} /\ entries = {} /\ before = {} /\ call = [k \in Songs |-> NoCall]
  /\ c = [x \in Callers |-> Idle]
  /\ hold = [p \in Players |-> None] /\ pre = [p \in Players |-> NoPrebuffer]
  /\ errors = 0

(***************************************************************************)
(* Helpers.                                                                *)
(***************************************************************************)

Fails == errors < MaxErrors /\ errors' = errors + 1

\* The order of the entries in S once k is the last that was accessed.
Touched(S, k) == {q \in before : k \notin {q[1], q[2]}} \cup ((S \ {k}) \X {k})
Among(order, S) == order \cap (S \X S)

\* IsPathInUse: leased, in playbackPath, prepared in a prebuffer, or played.
InUse(f) ==
  \E p \in Players : \/ hold[p] = f \/ pre[p].path = f
                     \/ c[p].pc = "play" /\ c[p].path = f

\* A file of one's own: removed when it is no longer wanted.
Mine(r) == IF r.owned THEN {r.path} ELSE {}

\* What x does with the result of PrepareTrack: the first MaxRetries attempts of
\* a player prepare, the later ones open and prepare again what is missing.
Returned(x, path, owned) ==
  LET r == [c[x] EXCEPT !.out = {}, !.tmp = FALSE] IN
  IF x \in Workers
  THEN IF path = None THEN Idle ELSE [r EXCEPT !.pc = "publish", !.path = path, !.owned = owned]
  ELSE IF path # None
  THEN [r EXCEPT !.pc = "open", !.tries = IF r.path = None THEN 0 ELSE @,
                 !.path = path, !.owned = owned]
  ELSE IF r.path # None THEN [r EXCEPT !.pc = "open"]
  ELSE IF r.tries + 1 < MaxRetries /\ ~r.ended THEN [r EXCEPT !.pc = "get", !.tries = @ + 1]
  ELSE Idle

\* x returns from PrepareTrack; a player that gives up drops its lease.
Return(x, path, owned) ==
  /\ c' = [c EXCEPT ![x] = Returned(x, path, owned)]
  /\ hold' = [p \in Players |-> IF p = x /\ Returned(x, path, owned) = Idle THEN None ELSE hold[p]]

Goto(x, pc) == c' = [c EXCEPT ![x].pc = pc]

(***************************************************************************)
(* EnsureTrackCachedWithCache.                                             *)
(***************************************************************************)

\* LRUSongCache.Get: an entry whose file is gone is dropped.
GetHits(x) ==
  /\ c[x].pc = "get" /\ c[x].song \in entries /\ c[x].song \in disk
  /\ before' = Touched(entries, c[x].song) /\ UNCHANGED entries
  /\ Return(x, c[x].song, FALSE)
  /\ UNCHANGED <<disk, call, pre, errors>>

GetMisses(x) ==
  /\ c[x].pc = "get" /\ c[x].song \notin entries \cap disk
  /\ entries' = entries \ {c[x].song} /\ before' = Among(before, entries')
  /\ Goto(x, "join")
  /\ UNCHANGED <<disk, call, hold, pre, errors>>

Lead(x) ==
  /\ c[x].pc = "join" /\ call[c[x].song].by = None
  /\ call' = [call EXCEPT ![c[x].song] = [NoCall EXCEPT !.by = x]]
  /\ c' = [c EXCEPT ![x].pc = "download", ![x].tmp = TRUE]
  /\ UNCHANGED <<disk, lru, hold, pre, errors>>

\* A call that is done but not yet deleted answers at once.
JoinDone(x) ==
  /\ c[x].pc = "join" /\ call[c[x].song].done
  /\ Return(x, call[c[x].song].path, call[c[x].song].owned)
  /\ UNCHANGED <<disk, lru, call, pre, errors>>

Join(x) ==
  /\ c[x].pc = "join" /\ call[c[x].song].by # None /\ ~call[c[x].song].done
  /\ Goto(x, "wait")
  /\ UNCHANGED <<disk, lru, call, hold, pre, errors>>

JoinEnded(x) ==
  /\ c[x].pc = "wait" /\ c[x].ended
  /\ Return(x, None, FALSE)
  /\ UNCHANGED <<disk, lru, call, pre, errors>>

\* The result of x's download is set, and told to those who hear of it.
Tell(x, path, owned, heard) ==
  /\ call' = [call EXCEPT ![c[x].song] = [by |-> x, done |-> TRUE, path |-> path, owned |-> owned]]
  /\ c' = [y \in Callers |-> IF y = x THEN [c[x] EXCEPT !.pc = "forget", !.tmp = FALSE]
                             ELSE IF y \in heard THEN Returned(y, path, owned) ELSE c[y]]
  /\ hold' = [p \in Players |-> IF c'[p] = Idle THEN None ELSE hold[p]]

Waiting(x) == {y \in Callers : c[y].pc = "wait" /\ c[y].song = c[x].song}

\* Mutant: a download that fails does not close its call.
CloseStored(x, path, owned) == Tell(x, path, owned, IF path = None THEN {} ELSE Waiting(x))

\* close(call.done): those who wait have the result, the error (no path) included.
Close(x, path, owned) == Tell(x, path, owned, Waiting(x))

\* The download fails, or the context of the caller that leads it has ended.
DownloadFails(x) ==
  /\ c[x].pc = "download"
  /\ \/ c[x].ended /\ UNCHANGED errors
     \/ Fails
  /\ Close(x, None, FALSE)
  /\ UNCHANGED <<disk, lru, pre>>

\* The job directory is gone: there is nothing to store or to copy.
JobLost(x) ==
  /\ c[x].pc = "download" /\ ~c[x].tmp
  /\ Close(x, None, FALSE)
  /\ UNCHANGED <<disk, lru, pre, errors>>

\* The download is complete and Put moves it into the cache.
PutFile(x) ==
  /\ c[x].pc = "download" /\ c[x].tmp
  /\ disk' = disk \cup {c[x].song}
  /\ c' = [c EXCEPT ![x].pc = "commit", ![x].tmp = FALSE]
  /\ UNCHANGED <<lru, call, hold, pre, errors>>

\* Put cannot write into the cache: the download is copied to a scratch file that
\* its callers own.
PutFails(x) ==
  /\ c[x].pc = "download" /\ c[x].tmp /\ Fails
  /\ x \notin disk \cup {c[y].path : y \in Callers} \cup {pre[p].path : p \in Players}
  /\ disk' = disk \cup {x}
  /\ Close(x, x, TRUE)
  /\ UNCHANGED <<lru, pre>>

\* Mutant: the file stays where it was moved to.
MetaFailsKeeping(x) ==
  /\ c[x].pc = "commit" /\ Fails
  /\ Close(x, None, FALSE)
  /\ UNCHANGED <<disk, lru, pre>>

\* Put has moved the file but cannot write its metadata: the file goes, and with
\* it the only copy.
MetaFails(x) ==
  /\ c[x].pc = "commit" /\ Fails
  /\ disk' = disk \ {c[x].song}
  /\ Close(x, None, FALSE)
  /\ UNCHANGED <<lru, pre>>

\* evictIfNecessaryLocked: the least recently used songs that are not in use go,
\* as many as are too many.
Surplus(S) == IF Cardinality(S) > maxSongs THEN Cardinality(S) - maxSongs ELSE 0

\* Mutant: only what is being played counts as in use.
UnlessPlayed(S) == {k \in S : ~\E p \in Players : c[p].pc = "play" /\ c[p].path = k}

Sparable(S) == {k \in S : ~InUse(k)}

Evicts(S, order, out) ==
  /\ out \subseteq Sparable(S)
  /\ \A j \in out, k \in Sparable(S) \ out : <<j, k>> \in order
  /\ Cardinality(out) =
       IF Surplus(S) < Cardinality(Sparable(S)) THEN Surplus(S) ELSE Cardinality(Sparable(S))

Commit(x) ==
  /\ c[x].pc = "commit"
  /\ LET S == entries \cup {c[x].song}
         order == Touched(S, c[x].song)
     IN \E out \in SUBSET S :
          /\ Evicts(S, order, out)
          /\ entries' = S \ out /\ before' = Among(order, S \ out)
          /\ c' = [c EXCEPT ![x].pc = "remove", ![x].out = out]
  /\ UNCHANGED <<disk, call, hold, pre, errors>>

\* removeCachePaths, outside the lock.
RemoveEvicted(x) ==
  /\ c[x].pc = "remove"
  /\ \E k \in c[x].out : /\ disk' = disk \ {k}
                         /\ c' = [c EXCEPT ![x].out = @ \ {k}]
  /\ UNCHANGED <<lru, call, hold, pre, errors>>

\* Put returns the path of the song, removed or not.
PutReturns(x) ==
  /\ c[x].pc = "remove" /\ c[x].out = {}
  /\ Close(x, c[x].song, FALSE)
  /\ UNCHANGED <<disk, lru, pre, errors>>

\* downloads.Delete: the caller returns.
Forget(x) ==
  /\ c[x].pc = "forget"
  /\ call' = [call EXCEPT ![c[x].song] = NoCall]
  /\ Return(x, call[c[x].song].path, call[c[x].song].owned)
  /\ UNCHANGED <<disk, lru, pre, errors>>

(***************************************************************************)
(* PrebufferTask.                                                          *)
(***************************************************************************)

\* Cancel: the context of the worker ends, a prepared file of its own goes.
Cancelled(p) == [x \in Callers |-> IF x = pre[p].worker /\ c[x].pc # "idle"
                                    THEN [c[x] EXCEPT !.ended = TRUE] ELSE c[x]]

PrebufferCancel(p) ==
  /\ pre[p] # NoPrebuffer
  /\ c' = Cancelled(p)
  /\ disk' = disk \ Mine(pre[p])
  /\ pre' = [pre EXCEPT ![p] = NoPrebuffer]
  /\ UNCHANGED <<lru, call, hold, errors>>

\* startForRevision: it cancels, takes a new token and launches a worker.
PrebufferStart(p, w, k) ==
  /\ c[p].pc = "play" /\ Guild[w] = p /\ c[w] = Idle /\ k \in Playlist[p]
  /\ c' = [Cancelled(p) EXCEPT ![w] = [Idle EXCEPT !.pc = "get", !.song = k]]
  /\ disk' = disk \ Mine(pre[p])
  /\ pre' = [pre EXCEPT ![p] = [NoPrebuffer EXCEPT !.worker = w, !.song = k]]
  /\ UNCHANGED <<lru, call, hold, errors>>

\* The worker has a file: it is kept if the worker is still the one wanted.
Publish(w) ==
  /\ c[w].pc = "publish" /\ pre[Guild[w]].worker = w /\ ~c[w].ended
  /\ pre' = [pre EXCEPT ![Guild[w]].worker = None,
                        ![Guild[w]].path = c[w].path, ![Guild[w]].owned = c[w].owned]
  /\ c' = [c EXCEPT ![w] = Idle]
  /\ UNCHANGED <<disk, lru, call, hold, errors>>

Discard(w) ==
  /\ c[w].pc = "publish" /\ (pre[Guild[w]].worker # w \/ c[w].ended)
  /\ disk' = disk \ Mine(c[w])
  /\ c' = [c EXCEPT ![w] = Idle]
  /\ UNCHANGED <<lru, call, hold, pre, errors>>

(***************************************************************************)
(* The player: startNext, Engine.Start and the stream.                     *)
(***************************************************************************)

\* TakeFor hands out what was prepared for this song and this place in the
\* queue; the path is leased, and Engine.Start looks whether it is still there.
TakePrepared(p) ==
  /\ c[p].pc = "idle" /\ pre[p].path # None
  /\ c' = [c EXCEPT ![p] = IF pre[p].path \in disk
                           THEN [Idle EXCEPT !.pc = "open", !.song = pre[p].song,
                                             !.path = pre[p].path, !.owned = pre[p].owned]
                           ELSE [Idle EXCEPT !.pc = "get", !.song = pre[p].song]]
  /\ hold' = [hold EXCEPT ![p] = pre[p].path]
  /\ pre' = [pre EXCEPT ![p] = NoPrebuffer]
  /\ UNCHANGED <<disk, lru, call, errors>>

\* Another song, or another generation: the player prepares for itself.
Select(p, k) ==
  /\ c[p].pc = "idle" /\ k \in Playlist[p]
  /\ c' = [c EXCEPT ![p] = [Idle EXCEPT !.pc = "get", !.song = k]]
  /\ UNCHANGED <<disk, lru, call, hold, pre, errors>>

\* The stream holds the open file: removing it no longer matters.
Open(p) ==
  /\ c[p].pc = "open" /\ ~c[p].ended /\ c[p].path \in disk
  /\ c' = [c EXCEPT ![p].pc = "play", ![p].song = None, ![p].tries = 0]
  /\ UNCHANGED <<disk, lru, call, hold, pre, errors>>

\* The stream does not start, for want of a connection or of the file; a file
\* that is missing is prepared again.
OpenFails(p) ==
  /\ c[p].pc = "open" /\ ~c[p].ended /\ c[p].tries + 1 < MaxRetries
  /\ IF c[p].path \in disk
     THEN /\ Fails
          /\ c' = [c EXCEPT ![p].tries = @ + 1]
     ELSE /\ UNCHANGED errors
          /\ c' = [c EXCEPT ![p].tries = @ + 1, ![p].pc = "get"]
  /\ UNCHANGED <<disk, lru, call, hold, pre>>

\* Mutant: the engine gives up without removing its own file.
GiveUpKeeping(p) ==
  /\ c[p].pc = "open"
  /\ c' = [c EXCEPT ![p] = Idle]
  /\ hold' = [hold EXCEPT ![p] = None]
  /\ UNCHANGED <<disk, lru, call, pre, errors>>

\* The last attempt fails, or playback was stopped: the engine cleans up.
GiveUp(p) ==
  /\ c[p].pc = "open"
  /\ disk' = disk \ Mine(c[p])
  /\ c' = [c EXCEPT ![p] = Idle]
  /\ hold' = [hold EXCEPT ![p] = None]
  /\ UNCHANGED <<lru, call, pre, errors>>

\* The stream ends, or is not committed: its own file goes, the lease too.
StreamEnds(p) ==
  /\ c[p].pc = "play"
  /\ disk' = disk \ Mine(c[p])
  /\ c' = [c EXCEPT ![p] = Idle]
  /\ hold' = [hold EXCEPT ![p] = None]
  /\ UNCHANGED <<lru, call, pre, errors>>

\* playbackCancel while the song is prepared; once it is, GiveUp.
StopStart(p) ==
  /\ c[p].pc \in {"wait", "download"} /\ ~c[p].ended
  /\ c' = [c EXCEPT ![p].ended = TRUE]
  /\ UNCHANGED <<disk, lru, call, hold, pre, errors>>

\* CleanupStaleRadioBuffers, every hour: it empties the directory of scratch
\* files and of the downloads under way.
CleanBuffers ==
  /\ Fails
  /\ disk' = disk \cap Songs
  /\ c' = [x \in Callers |-> [c[x] EXCEPT !.tmp = FALSE]]
  /\ UNCHANGED <<lru, call, hold, pre>>

(***************************************************************************)
(* The specification.                                                      *)
(***************************************************************************)

Prepare(x) ==
  \/ GetHits(x) \/ GetMisses(x) \/ Lead(x) \/ JoinDone(x) \/ Join(x) \/ JoinEnded(x)
  \/ DownloadFails(x) \/ JobLost(x) \/ PutFile(x) \/ PutFails(x) \/ MetaFails(x)
  \/ Commit(x) \/ RemoveEvicted(x) \/ PutReturns(x) \/ Forget(x)

WorkerStep(w) == Prepare(w) \/ Publish(w) \/ Discard(w)
PlayerStep(p) == Prepare(p) \/ Open(p) \/ OpenFails(p) \/ GiveUp(p)

Next ==
  \/ \E w \in Workers : WorkerStep(w)
  \/ \E p \in Players : PlayerStep(p) \/ TakePrepared(p) \/ StreamEnds(p) \/ StopStart(p)
                        \/ PrebufferCancel(p)
  \/ \E p \in Players, k \in Songs : Select(p, k) \/ \E w \in Workers : PrebufferStart(p, w, k)
  \/ CleanBuffers

Spec == Init /\ [][Next]_vars

(***************************************************************************)
(* Properties.                                                             *)
(***************************************************************************)

\* Files an eviction has decided to remove and not yet removed.
Leaving == UNION {c[x].out : x \in Callers}

\* A song in use is not evicted, by whomever it is used and however its path is
\* handed from a prebuffer to a player: only a removal decided before it came
\* into use, or a Put of the same song that fails, takes its file (cache.go:413).
HeldFileStays ==
  [][\A k \in Songs : (InUse(k) /\ k \in disk /\ k \notin Leaving)
     => /\ k \notin Leaving'
        /\ k \in disk' \/ \E x \in Callers : c[x].pc = "commit" /\ c[x].song = k]_vars

\* No song is left on disk that the index does not know: it would never be
\* evicted (cache.go:351-411, 310-349, 468).
FilesKnown ==
  \A k \in disk \cap Songs :
    k \in entries \cup Leaving \/ \E x \in Callers : c[x].pc = "commit" /\ c[x].song = k

\* A scratch file always has an owner who will remove it, although all who waited
\* for one download share it (prebuffer.go:115, cache.go:583).
ScratchOwned ==
  \A f \in disk \cap Callers :
    \/ \E x \in Callers : (c[x].path = f /\ c[x].owned) \/ (c[x].pc = "forget" /\ call[c[x].song].path = f)
    \/ \E p \in Players : pre[p].path = f /\ pre[p].owned

\* Whoever waits for the download of another will hear of it, also when it fails,
\* is cancelled by its own prebuffer or loses its directory (cache.go:575-605).
WaitersServed ==
  \A x \in Callers : c[x].pc = "wait" =>
    \E y \in Callers : c[y].song = c[x].song /\ c[y].pc \in {"download", "commit", "remove"}

\* Every file and every wait has somebody who will see to it.
FilesLookedAfter == FilesKnown /\ ScratchOwned /\ WaitersServed
=============================================================================
