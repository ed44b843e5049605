-------------------------- MODULE RadioFilesProofs --------------------------
(***************************************************************************)
(* Proofs about RadioFiles, for any songs, guilds, prebuffer workers and   *)
(* playlists, a cache of any size and any number of failures: every file   *)
(* and every wait has somebody who will see to it, and a file in use is    *)
(* not evicted.                                                            *)
(***************************************************************************)
EXTENDS RadioFiles, TLAPS

USE FilesAssumption

CallerRecord ==
  [pc : PCs, song : Songs \cup {None}, path : Paths \cup {None}, owned : BOOLEAN,
   ended : BOOLEAN, tries : 0..MaxRetries, tmp : BOOLEAN, out : SUBSET Songs]
CallRecord == [by : Callers \cup {None}, done : BOOLEAN, path : Paths \cup {None}, owned : BOOLEAN]
PreRecord ==
  [worker : Workers \cup {None}, song : Songs \cup {None}, path : Paths \cup {None}, owned : BOOLEAN]

\* Who leads a download has its call until it has told the result.
Fetching == {"download", "commit", "remove"}

\* What a caller may be, whatever the others do.
Sound(x, r) ==
  /\ r.pc = "idle" => r = Idle
  /\ r.pc # "remove" => r.out = {}
  /\ r.owned <=> r.path \in Callers
  /\ r.pc \in Preparing \cup {"open"} => r.song \in Songs
  /\ r.pc \in Preparing /\ x \in Workers => r.path = None

\* A player prepares again only what is gone.
NotPrepared(r) == r.pc \in Preparing /\ r.owned => r.path \notin disk

CallersSound ==
  \A x \in Callers :
    /\ Sound(x, c[x]) /\ NotPrepared(c[x])
    /\ c[x].pc \in Leading => call[c[x].song].by = x

CallsSound ==
  \A k \in Songs :
    /\ call[k].owned <=> call[k].path \in Callers
    /\ call[k].by # None /\ ~call[k].done =>
         c[call[k].by].song = k /\ c[call[k].by].pc \in Fetching

PrebuffersSound ==
  \A p \in Players :
    /\ pre[p].owned <=> pre[p].path \in Callers
    /\ pre[p].worker # None => pre[p].path = None
    /\ pre[p].worker # None \/ pre[p].path # None => pre[p].song \in Songs

FilesInv ==
  /\ TypeOK /\ CallersSound /\ CallsSound /\ PrebuffersSound
  /\ FilesKnown /\ ScratchOwned /\ WaitersServed

\* The parts that relate callers, calls and scratch files.
Told == CallersSound /\ CallsSound /\ ScratchOwned /\ WaitersServed

LEMMA Types ==
  ASSUME FilesInv
  PROVE  /\ disk \subseteq Paths /\ entries \subseteq Songs
         /\ c \in [Callers -> CallerRecord] /\ call \in [Songs -> CallRecord]
         /\ pre \in [Players -> PreRecord] /\ hold \in [Players -> Paths \cup {None}]
         /\ errors \in 0..MaxErrors
BY DEF FilesInv, TypeOK, CallerRecord, CallRecord, PreRecord

LEMMA TypesAfter ==
  ASSUME disk' \subseteq Paths, entries' \subseteq Songs, before' \subseteq entries' \X entries',
         c' \in [Callers -> CallerRecord], call' \in [Songs -> CallRecord],
         pre' \in [Players -> PreRecord], hold' \in [Players -> Paths \cup {None}],
         errors' \in 0..MaxErrors, CallersSound'
  PROVE  TypeOK'
BY DEF TypeOK, CallerRecord, CallRecord, PreRecord, CallersSound, Sound

LEMMA IdleIsSound ==
  /\ Idle \in CallerRecord /\ Idle.pc = "idle" /\ Idle.path = None /\ ~Idle.owned /\ Idle.out = {}
  /\ \A x \in Callers : Sound(x, Idle)
  /\ NotPrepared(Idle)
BY DEF Idle, CallerRecord, PCs, Sound, NotPrepared, Preparing, Leading, Callers, Paths

LEMMA OneCaller ==
  ASSUME FilesInv, NEW x \in Callers, NEW r \in CallerRecord, c' = [c EXCEPT ![x] = r]
  PROVE  /\ c' \in [Callers -> CallerRecord]
         /\ c'[x] = r /\ \A y \in Callers \ {x} : c'[y] = c[y]
BY Types

-----------------------------------------------------------------------------
(***************************************************************************)
(* Steps of one caller.                                                    *)
(***************************************************************************)

\* x becomes r and leaves the calls alone: what it led it still leads, the scratch
\* file it owned it still owns, or nobody needs to.
Alone(x, r) ==
  /\ c' = [c EXCEPT ![x] = r] /\ call' = call
  /\ disk' \cap Callers \subseteq disk
  /\ Sound(x, r) /\ (r.pc \in Preparing /\ r.owned => r.path \notin disk')
  /\ r.pc \in Leading => c[x].pc \in Leading /\ r.song = c[x].song
  /\ c[x].pc \in Fetching => r.pc \in Fetching /\ r.song = c[x].song
  /\ c[x].pc # "forget"
  /\ r.pc = "wait" /\ c[x].pc # "wait" =>
       \E y \in Callers \ {x} : c[y].song = r.song /\ c[y].pc \in Fetching
  /\ r.pc = "wait" => r.song = c[x].song

\* The owners of scratch files after a step that makes x be r.
OwnersKept(x, r) ==
  /\ c[x].owned /\ c[x].path \in disk' =>
       \/ r.path = c[x].path /\ r.owned
       \/ \E p \in Players : pre'[p].path = c[x].path /\ pre'[p].owned
  /\ \A p \in Players : pre[p].owned /\ pre[p].path \in disk' =>
       \/ pre'[p].path = pre[p].path /\ pre'[p].owned
       \/ r.path = pre[p].path /\ r.owned

LEMMA AloneKeeps ==
  ASSUME FilesInv, NEW x \in Callers, NEW r \in CallerRecord, Alone(x, r), OwnersKept(x, r)
  PROVE  Told'
<1>1. c'[x] = r /\ \A y \in Callers \ {x} : c'[y] = c[y]
  BY OneCaller DEF Alone
<1>2. call' = call /\ disk' \cap Callers \subseteq disk
  BY DEF Alone
<1>t. c \in [Callers -> CallerRecord] /\ call \in [Songs -> CallRecord]
  BY Types
<1>3. CallersSound'
  <2>1. ASSUME NEW y \in Callers, y # x
        PROVE  /\ Sound(y, c[y])' /\ NotPrepared(c[y])'
               /\ (c[y].pc \in Leading => call[c[y].song].by = y)'
    <3>1. Sound(y, c[y]) /\ NotPrepared(c[y]) /\ (c[y].pc \in Leading => call[c[y].song].by = y)
      BY DEF FilesInv, CallersSound
    <3>2. Sound(y, c[y])' /\ (c[y].pc \in Leading => call[c[y].song].by = y)'
      BY <1>1, <1>2, <2>1, <3>1 DEF Sound
    <3>3. NotPrepared(c[y])'
      BY <1>1, <1>2, <2>1, <3>1 DEF NotPrepared, Sound
    <3> QED BY <3>2, <3>3
  <2>2. Sound(x, c[x])' /\ NotPrepared(c[x])'
    BY <1>1 DEF Alone, NotPrepared, Sound
  <2>3. (c[x].pc \in Leading => call[c[x].song].by = x)'
    BY <1>1, <1>2 DEF Alone, FilesInv, CallersSound
  <2> QED BY <2>1, <2>2, <2>3 DEF CallersSound
<1>4. CallsSound'
  <2>1. ASSUME NEW k \in Songs, call[k].by # None, ~call[k].done
        PROVE  c'[call[k].by].song = k /\ c'[call[k].by].pc \in Fetching
    <3>1. c[call[k].by].song = k /\ c[call[k].by].pc \in Fetching /\ call[k].by \in Callers
      BY <2>1, <1>t DEF FilesInv, CallsSound, CallRecord
    <3> QED BY <1>1, <3>1 DEF Alone
  <2> QED BY <1>2, <2>1 DEF FilesInv, CallsSound
<1>5. ScratchOwned'
  <2> SUFFICES ASSUME NEW f \in disk' \cap Callers
               PROVE  \/ \E y \in Callers : \/ c'[y].path = f /\ c'[y].owned
                                            \/ c'[y].pc = "forget" /\ call[c'[y].song].path = f
                      \/ \E p \in Players : pre'[p].path = f /\ pre'[p].owned
    BY <1>2 DEF ScratchOwned
  <2>0. f \in disk \cap Callers
    BY <1>2
  <2>1. \/ \E y \in Callers : \/ c[y].path = f /\ c[y].owned
                              \/ c[y].pc = "forget" /\ call[c[y].song].path = f
        \/ \E p \in Players : pre[p].path = f /\ pre[p].owned
    BY <2>0 DEF FilesInv, ScratchOwned
  <2>2. ASSUME NEW y \in Callers, c[y].path = f /\ c[y].owned
        PROVE  \/ \E z \in Callers : c'[z].path = f /\ c'[z].owned
               \/ \E p \in Players : pre'[p].path = f /\ pre'[p].owned
    BY <1>1, <2>2 DEF OwnersKept
  <2>3. ASSUME NEW y \in Callers, c[y].pc = "forget", call[c[y].song].path = f
        PROVE  c'[y].pc = "forget" /\ call[c'[y].song].path = f
    BY <1>1, <2>3 DEF Alone
  <2>4. ASSUME NEW p \in Players, pre[p].path = f /\ pre[p].owned
        PROVE  \/ \E z \in Callers : c'[z].path = f /\ c'[z].owned
               \/ \E q \in Players : pre'[q].path = f /\ pre'[q].owned
    BY <1>1, <2>4 DEF OwnersKept
  <2> QED BY <2>1, <2>2, <2>3, <2>4
<1>6. WaitersServed'
  <2> SUFFICES ASSUME NEW y \in Callers, c'[y].pc = "wait"
               PROVE  \E z \in Callers : c'[z].song = c'[y].song /\ c'[z].pc \in Fetching
    BY DEF WaitersServed, Fetching
  <2>1. \E z \in Callers : c[z].song = c'[y].song /\ c[z].pc \in Fetching
    <3>1. c[y].pc = "wait" => \E z \in Callers : c[z].song = c[y].song /\ c[z].pc \in Fetching
      BY DEF FilesInv, WaitersServed, Fetching
    <3> QED BY <1>1, <3>1 DEF Alone
  <2>2. \A z \in Callers : c[z].pc \in Fetching => c'[z].song = c[z].song /\ c'[z].pc \in Fetching
    BY <1>1 DEF Alone
  <2> QED BY <2>1, <2>2
<1> QED BY <1>3, <1>4, <1>5, <1>6 DEF Told

\* Nothing that concerns the songs on disk happens.
LEMMA QuietKnown ==
  ASSUME FilesInv, disk' \cap Songs \subseteq disk, entries \subseteq entries',
         \A y \in Callers : /\ c[y].out \subseteq c'[y].out
                            /\ c[y].pc = "commit" => c'[y].pc = "commit" /\ c'[y].song = c[y].song
  PROVE  FilesKnown'
BY DEF FilesInv, FilesKnown, Leaving

\* What a caller is once PrepareTrack has returned: it has the new path, or what it had.
LEMMA ReturnedWhat ==
  ASSUME FilesInv, NEW x \in Callers, c[x].pc \in Preparing,
         NEW path \in Paths \cup {None}, NEW owned \in BOOLEAN, owned <=> path \in Callers
  PROVE  LET r == Returned(x, path, owned) IN
         /\ r \in CallerRecord /\ Sound(x, r)
         /\ r.pc \in {"idle", "publish", "open", "get"}
         /\ r.pc = "get" => ~r.owned
         /\ r.path = IF path = None THEN c[x].path ELSE path
         /\ r.out = {}
<1> DEFINE r == Returned(x, path, owned)
           r0 == [c[x] EXCEPT !.out = {}, !.tmp = FALSE]
<1>1. c[x] \in CallerRecord /\ Sound(x, c[x])
  BY Types DEF FilesInv, CallersSound
<1>2. /\ r0 \in CallerRecord /\ r0.path = c[x].path /\ r0.owned = c[x].owned /\ r0.song = c[x].song
      /\ r0.out = {} /\ r0.pc = c[x].pc /\ r0.tries = c[x].tries /\ r0.ended = c[x].ended
  BY <1>1 DEF CallerRecord
<1>3. /\ c[x].song \in Songs /\ (c[x].owned <=> c[x].path \in Callers)
      /\ x \in Workers => c[x].path = None
  BY <1>1 DEF Sound
<1>4. path # None => path \in Paths /\ None \notin Callers
  OBVIOUS
<1> HIDE DEF r0
<1>5. CASE x \in Workers /\ path = None
  <2>1. r = Idle
    BY <1>5 DEF Returned
  <2> QED BY <1>3, <1>5, <2>1, IdleIsSound
<1>6. CASE x \in Workers /\ path # None
  <2>1. r = [r0 EXCEPT !.pc = "publish", !.path = path, !.owned = owned]
    BY <1>6 DEF Returned, r0
  <2>2. r \in CallerRecord /\ r.pc = "publish" /\ r.path = path /\ r.owned = owned /\ r.out = {}
    BY <1>2, <1>6, <2>1 DEF CallerRecord, PCs
  <2> QED BY <1>6, <2>2 DEF Sound, Preparing, Leading
<1>7. CASE x \notin Workers /\ path # None
  <2> DEFINE t == IF r0.path = None THEN 0 ELSE r0.tries
  <2>1. r = [r0 EXCEPT !.pc = "open", !.tries = t, !.path = path, !.owned = owned]
    BY <1>7 DEF Returned, r0
  <2>t. t \in 0..MaxRetries
    BY <1>2 DEF CallerRecord
  <2> HIDE DEF t
  <2>2. /\ r \in CallerRecord /\ r.pc = "open" /\ r.path = path /\ r.owned = owned /\ r.out = {}
        /\ r.song = c[x].song
    BY <1>2, <1>7, <2>1, <2>t DEF CallerRecord, PCs
  <2> QED BY <1>3, <1>7, <2>2 DEF Sound, Preparing, Leading
<1>8. CASE x \notin Workers /\ path = None
  <2>1. CASE c[x].path # None
    <3>1. r = [r0 EXCEPT !.pc = "open"]
      BY <1>2, <1>8, <2>1 DEF Returned, r0
    <3>2. /\ r \in CallerRecord /\ r.pc = "open" /\ r.path = c[x].path /\ r.owned = c[x].owned /\ r.out = {}
          /\ r.song = c[x].song
      BY <1>2, <3>1 DEF CallerRecord, PCs
    <3> QED BY <1>3, <1>8, <3>2 DEF Sound, Preparing, Leading
  <2>2. CASE c[x].path = None /\ r0.tries + 1 < MaxRetries /\ ~r0.ended
    <3>1. r = [r0 EXCEPT !.pc = "get", !.tries = @ + 1]
      BY <1>2, <1>8, <2>2 DEF Returned, r0
    <3>2. r0.tries + 1 \in 0..MaxRetries
      BY <1>2, <2>2 DEF CallerRecord
    <3>3. /\ r \in CallerRecord /\ r.pc = "get" /\ r.path = c[x].path /\ r.owned = c[x].owned /\ r.out = {}
          /\ r.song = c[x].song
      BY <1>2, <3>1, <3>2 DEF CallerRecord, PCs, Preparing
    <3>4. ~r.owned
      BY <1>3, <2>2, <3>3
    <3> QED BY <1>3, <1>8, <3>3, <3>4 DEF Sound
  <2>3. CASE c[x].path = None /\ ~(r0.tries + 1 < MaxRetries /\ ~r0.ended)
    <3>1. r = Idle
      BY <1>2, <1>8, <2>3 DEF Returned, r0
    <3> QED BY <1>8, <2>3, <3>1, IdleIsSound
  <2> QED BY <2>1, <2>2, <2>3
<1> QED BY <1>5, <1>6, <1>7, <1>8

\* x returns from PrepareTrack without having led a download.
LEMMA ReturnKeeps ==
  ASSUME FilesInv, NEW x \in Callers, c[x].pc \in {"get", "join", "wait"},
         NEW path \in Paths \cup {None}, NEW owned \in BOOLEAN, owned <=> path \in Callers,
         Return(x, path, owned), UNCHANGED <<disk, call, pre, errors>>,
         entries' = entries, before' \subseteq entries \X entries
  PROVE  FilesInv'
<1> DEFINE r == Returned(x, path, owned)
<1>1. c[x].pc \in Preparing
  BY DEF Preparing
<1>2. /\ r \in CallerRecord /\ Sound(x, r)
      /\ r.pc \in {"idle", "publish", "open", "get"}
      /\ r.pc = "get" => ~r.owned
      /\ r.path = IF path = None THEN c[x].path ELSE path
      /\ r.out = {}
  BY <1>1, ReturnedWhat
<1>3. c' = [c EXCEPT ![x] = r]
  BY DEF Return
<1>4. hold' \in [Players -> Paths \cup {None}]
  BY Types DEF Return
<1> HIDE DEF r
<1>5. Sound(x, c[x]) /\ NotPrepared(c[x])
  BY DEF FilesInv, CallersSound
<1>6. Alone(x, r)
  BY <1>2, <1>3 DEF Alone, Preparing, Leading, Fetching
<1>7. OwnersKept(x, r)
  <2>1. c[x].owned /\ c[x].path \in disk => FALSE
    BY <1>1, <1>5 DEF NotPrepared
  <2> QED BY <2>1 DEF OwnersKept
<1>8. Told'
  BY <1>2, <1>6, <1>7, AloneKeeps
<1>9. c' \in [Callers -> CallerRecord] /\ c'[x] = r /\ \A y \in Callers \ {x} : c'[y] = c[y]
  BY <1>2, <1>3, OneCaller
<1>10. FilesKnown'
  <2>1. \A y \in Callers : /\ c[y].out \subseteq c'[y].out
                           /\ c[y].pc = "commit" => c'[y].pc = "commit" /\ c'[y].song = c[y].song
    BY <1>5, <1>9 DEF Sound
  <2> QED BY <2>1, QuietKnown
<1>11. TypeOK'
  BY <1>4, <1>8, <1>9, Types, TypesAfter DEF Told
<1>12. PrebuffersSound'
  BY DEF FilesInv, PrebuffersSound
<1> QED BY <1>8, <1>10, <1>11, <1>12 DEF FilesInv, Told

LEMMA GetHitsKeeps ==
  ASSUME FilesInv, NEW x \in Callers, GetHits(x) PROVE FilesInv'
<1>1. /\ c[x].pc = "get" /\ c[x].song \in entries /\ Return(x, c[x].song, FALSE)
      /\ UNCHANGED <<disk, call, pre, errors, entries>> /\ before' = Touched(entries, c[x].song)
  BY DEF GetHits
<1>2. c[x].song \in Songs /\ entries \subseteq Songs
  BY <1>1, Types
<1>3. c[x].song \in Paths \cup {None} /\ c[x].song \notin Callers
  BY <1>2 DEF Paths
<1>4. before' \subseteq entries \X entries
  BY <1>1 DEF Touched, FilesInv, TypeOK
<1> QED BY <1>1, <1>3, <1>4, ReturnKeeps

LEMMA JoinDoneKeeps ==
  ASSUME FilesInv, NEW x \in Callers, JoinDone(x) PROVE FilesInv'
<1>1. /\ c[x].pc = "join" /\ Return(x, call[c[x].song].path, call[c[x].song].owned)
      /\ UNCHANGED <<disk, call, pre, errors, entries, before>>
  BY DEF JoinDone, lru
<1>2. c[x].song \in Songs
  BY <1>1 DEF FilesInv, CallersSound, Sound, Preparing
<1>3. /\ call[c[x].song].path \in Paths \cup {None} /\ call[c[x].song].owned \in BOOLEAN
      /\ call[c[x].song].owned <=> call[c[x].song].path \in Callers
  BY <1>2, Types DEF CallRecord, FilesInv, CallsSound
<1>4. before' \subseteq entries \X entries
  BY <1>1 DEF FilesInv, TypeOK
<1> QED BY <1>1, <1>3, <1>4, ReturnKeeps

LEMMA JoinEndedKeeps ==
  ASSUME FilesInv, NEW x \in Callers, JoinEnded(x) PROVE FilesInv'
<1>1. /\ c[x].pc = "wait" /\ Return(x, None, FALSE)
      /\ UNCHANGED <<disk, call, pre, errors, entries, before>>
  BY DEF JoinEnded, lru
<1>2. before' \subseteq entries \X entries
  BY <1>1 DEF FilesInv, TypeOK
<1>3. None \notin Callers
  OBVIOUS
<1> QED BY <1>1, <1>2, <1>3, ReturnKeeps

\* The step of one caller, with the rest of what it changes.
LEMMA SoloKeeps ==
  ASSUME FilesInv, NEW x \in Callers, NEW r \in CallerRecord, Alone(x, r), OwnersKept(x, r),
         disk' \subseteq Paths, entries' \subseteq Songs, before' \subseteq entries' \X entries',
         pre' \in [Players -> PreRecord], hold' \in [Players -> Paths \cup {None}],
         errors' \in 0..MaxErrors, PrebuffersSound', FilesKnown'
  PROVE  FilesInv'
<1>1. Told'
  BY AloneKeeps
<1>2. c' \in [Callers -> CallerRecord] /\ call' \in [Songs -> CallRecord]
  BY Types, OneCaller DEF Alone
<1>3. TypeOK'
  BY <1>1, <1>2, TypesAfter DEF Told
<1> QED BY <1>1, <1>3 DEF FilesInv, Told

\* x moves, keeps its song and its path, and nothing else happens but perhaps an error.
LEMMA MoveKeeps ==
  ASSUME FilesInv, NEW x \in Callers, NEW r \in CallerRecord, Alone(x, r),
         r.path = c[x].path, r.owned = c[x].owned, c[x].pc # "commit", c[x].out \subseteq r.out,
         UNCHANGED <<disk, hold, pre>>, entries' = entries, before' = before, errors' \in 0..MaxErrors
  PROVE  FilesInv'
<1>1. c'[x] = r /\ \A y \in Callers \ {x} : c'[y] = c[y]
  BY OneCaller DEF Alone
<1>2. FilesKnown'
  BY <1>1, QuietKnown
<1>3. OwnersKept(x, r) /\ PrebuffersSound'
  BY DEF OwnersKept, FilesInv, PrebuffersSound
<1>4. before \subseteq entries \X entries
  BY DEF FilesInv, TypeOK
<1> QED BY <1>2, <1>3, <1>4, Types, SoloKeeps

LEMMA SoundCaller ==
  ASSUME FilesInv, NEW x \in Callers
  PROVE  /\ c[x] \in CallerRecord /\ Sound(x, c[x]) /\ NotPrepared(c[x])
         /\ c[x].pc \in Preparing => c[x].song \in Songs
         /\ c[x].pc \in Leading => call[c[x].song].by = x
BY Types DEF FilesInv, CallersSound, Sound

LEMMA GetMissesKeeps ==
  ASSUME FilesInv, NEW x \in Callers, GetMisses(x) PROVE FilesInv'
<1> DEFINE r == [c[x] EXCEPT !.pc = "join"]
           k == c[x].song
<1>1. /\ c[x].pc = "get" /\ k \notin entries \cap disk /\ c' = [c EXCEPT ![x] = r]
      /\ entries' = entries \ {k} /\ before' = Among(before, entries')
      /\ UNCHANGED <<disk, call, hold, pre, errors>>
  BY DEF GetMisses, Goto
<1>2. c[x] \in CallerRecord /\ Sound(x, c[x]) /\ NotPrepared(c[x])
  BY SoundCaller
<1>3. r \in CallerRecord /\ r.pc = "join" /\ r.path = c[x].path /\ r.owned = c[x].owned /\ r.out = c[x].out
      /\ r.song = k
  BY <1>2 DEF CallerRecord, PCs, Preparing
<1> HIDE DEF r
<1>4. Alone(x, r)
  BY <1>1, <1>2, <1>3 DEF Alone, Sound, NotPrepared, Preparing, Leading, Fetching
<1>5. OwnersKept(x, r) /\ PrebuffersSound'
  BY <1>1, <1>3 DEF OwnersKept, FilesInv, PrebuffersSound
<1>6. c'[x] = r /\ \A y \in Callers \ {x} : c'[y] = c[y]
  BY <1>1, <1>3, OneCaller
<1>7. FilesKnown'
  <2> SUFFICES ASSUME NEW j \in disk \cap Songs
               PROVE  j \in entries' \cup Leaving' \/ \E y \in Callers : c'[y].pc = "commit" /\ c'[y].song = j
    BY <1>1 DEF FilesKnown
  <2>1. j \in entries \cup Leaving \/ \E y \in Callers : c[y].pc = "commit" /\ c[y].song = j
    BY DEF FilesInv, FilesKnown
  <2>2. j \in entries => j \in entries'
    BY <1>1
  <2>3. Leaving \subseteq Leaving'
    BY <1>3, <1>6 DEF Leaving
  <2>4. \A y \in Callers : c[y].pc = "commit" => c'[y] = c[y]
    BY <1>1, <1>6
  <2> QED BY <2>1, <2>2, <2>3, <2>4
<1>8. entries' \subseteq Songs /\ before' \subseteq entries' \X entries'
  BY <1>1, Types DEF Among
<1> QED BY <1>1, <1>3, <1>4, <1>5, <1>7, <1>8, Types, SoloKeeps

LEMMA JoinKeeps ==
  ASSUME FilesInv, NEW x \in Callers, Join(x) PROVE FilesInv'
<1> DEFINE r == [c[x] EXCEPT !.pc = "wait"]
           k == c[x].song
<1>1. /\ c[x].pc = "join" /\ call[k].by # None /\ ~call[k].done /\ c' = [c EXCEPT ![x] = r]
      /\ UNCHANGED <<disk, entries, before, call, hold, pre, errors>>
  BY DEF Join, Goto, lru
<1>2. c[x] \in CallerRecord /\ Sound(x, c[x]) /\ NotPrepared(c[x]) /\ k \in Songs
  BY <1>1, SoundCaller DEF Preparing
<1>3. r \in CallerRecord /\ r.pc = "wait" /\ r.path = c[x].path /\ r.owned = c[x].owned /\ r.out = c[x].out
      /\ r.song = k
  BY <1>2 DEF CallerRecord, PCs, Preparing
<1>4. call[k].by \in Callers \ {x} /\ c[call[k].by].song = k /\ c[call[k].by].pc \in Fetching
  BY <1>1, <1>2, Types DEF CallRecord, FilesInv, CallsSound, Fetching
<1> HIDE DEF r
<1>5. Alone(x, r)
  <2>1. Sound(x, r) /\ (r.pc \in Preparing /\ r.owned => r.path \notin disk)
    BY <1>1, <1>2, <1>3 DEF Sound, NotPrepared, Preparing, Leading
  <2> QED BY <1>1, <1>3, <1>4, <2>1 DEF Alone, Leading, Fetching
<1> QED BY <1>1, <1>3, <1>5, Types, MoveKeeps

LEMMA PutFileKeeps ==
  ASSUME FilesInv, NEW x \in Callers, PutFile(x) PROVE FilesInv'
<1> DEFINE r == [c[x] EXCEPT !.pc = "commit", !.tmp = FALSE]
           k == c[x].song
<1>1. /\ c[x].pc = "download" /\ disk' = disk \cup {k} /\ c' = [c EXCEPT ![x] = r]
      /\ UNCHANGED <<entries, before, call, hold, pre, errors>>
  BY DEF PutFile, lru
<1>2. c[x] \in CallerRecord /\ Sound(x, c[x]) /\ NotPrepared(c[x]) /\ k \in Songs
  BY <1>1, SoundCaller DEF Preparing, Leading
<1>3. r \in CallerRecord /\ r.pc = "commit" /\ r.path = c[x].path /\ r.owned = c[x].owned /\ r.out = c[x].out
      /\ r.song = k
  BY <1>2 DEF CallerRecord, PCs, Preparing, Leading
<1> HIDE DEF r
<1>4. k \notin Callers
  BY <1>2
<1>5. Alone(x, r)
  <2>1. Sound(x, r) /\ (r.pc \in Preparing /\ r.owned => r.path \notin disk')
    BY <1>1, <1>2, <1>3, <1>4 DEF Sound, NotPrepared, Preparing, Leading
  <2> QED BY <1>1, <1>3, <1>4, <2>1 DEF Alone, Leading, Fetching
<1>6. OwnersKept(x, r) /\ PrebuffersSound'
  BY <1>1, <1>3 DEF OwnersKept, FilesInv, PrebuffersSound
<1>7. c'[x] = r /\ \A y \in Callers \ {x} : c'[y] = c[y]
  BY <1>1, <1>3, OneCaller
<1>8. FilesKnown'
  <2> SUFFICES ASSUME NEW j \in disk' \cap Songs
               PROVE  j \in entries \cup Leaving' \/ \E y \in Callers : c'[y].pc = "commit" /\ c'[y].song = j
    BY <1>1 DEF FilesKnown
  <2>1. CASE j = k
    BY <1>3, <1>7, <2>1
  <2>2. CASE j # k
    <3>1. j \in entries \cup Leaving \/ \E y \in Callers : c[y].pc = "commit" /\ c[y].song = j
      BY <1>1, <2>2 DEF FilesInv, FilesKnown
    <3>2. Leaving \subseteq Leaving'
      BY <1>3, <1>7 DEF Leaving
    <3>3. \A y \in Callers : c[y].pc = "commit" => c'[y] = c[y]
      BY <1>1, <1>7
    <3> QED BY <3>1, <3>2, <3>3
  <2> QED BY <2>1, <2>2
<1>9. disk' \subseteq Paths /\ before' \subseteq entries \X entries
  BY <1>1, <1>2, Types DEF Paths, FilesInv, TypeOK
<1> QED BY <1>1, <1>3, <1>5, <1>6, <1>8, <1>9, Types, SoloKeeps

LEMMA CommitKeeps ==
  ASSUME FilesInv, NEW x \in Callers, Commit(x) PROVE FilesInv'
<1> DEFINE k == c[x].song
           S == entries \cup {k}
<1>1. PICK out \in SUBSET S :
        /\ entries' = S \ out /\ before' = Among(Touched(S, k), S \ out)
        /\ c' = [c EXCEPT ![x].pc = "remove", ![x].out = out]
  BY DEF Commit
<1> DEFINE r == [c[x] EXCEPT !.pc = "remove", !.out = out]
<1>2. /\ c[x].pc = "commit" /\ c' = [c EXCEPT ![x] = r]
      /\ UNCHANGED <<disk, call, hold, pre, errors>>
  <2>1. c' = [c EXCEPT ![x] = r]
    BY <1>1
  <2>2. c[x].pc = "commit" /\ UNCHANGED <<disk, call, hold, pre, errors>>
    BY DEF Commit
  <2> QED BY <2>1, <2>2
<1>3. c[x] \in CallerRecord /\ Sound(x, c[x]) /\ NotPrepared(c[x]) /\ k \in Songs
  BY <1>2, SoundCaller DEF Preparing, Leading
<1>4. S \subseteq Songs
  BY <1>3, Types
<1>5. r \in CallerRecord /\ r.pc = "remove" /\ r.path = c[x].path /\ r.owned = c[x].owned /\ r.out = out
      /\ r.song = k
  BY <1>3, <1>4 DEF CallerRecord, PCs, Preparing, Leading
<1> HIDE DEF r, S
<1>6. Alone(x, r)
  <2>1. Sound(x, r) /\ (r.pc \in Preparing /\ r.owned => r.path \notin disk)
    BY <1>2, <1>3, <1>5 DEF Sound, NotPrepared, Preparing, Leading
  <2> QED BY <1>2, <1>5, <2>1 DEF Alone, Leading, Fetching
<1>7. OwnersKept(x, r) /\ PrebuffersSound'
  BY <1>2, <1>5 DEF OwnersKept, FilesInv, PrebuffersSound
<1>8. c'[x] = r /\ \A y \in Callers \ {x} : c'[y] = c[y]
  BY <1>2, <1>5, OneCaller
<1>9. FilesKnown'
  <2> SUFFICES ASSUME NEW j \in disk \cap Songs
               PROVE  j \in entries' \cup Leaving' \/ \E y \in Callers : c'[y].pc = "commit" /\ c'[y].song = j
    BY <1>2 DEF FilesKnown
  <2>1. j \in entries \cup Leaving \/ \E y \in Callers : c[y].pc = "commit" /\ c[y].song = j
    BY DEF FilesInv, FilesKnown
  <2>2. c[x].out = {}
    BY <1>2, <1>3 DEF Sound
  <2>3. Leaving \subseteq Leaving' /\ out \subseteq Leaving'
    BY <1>5, <1>8, <2>2 DEF Leaving
  <2>4. S \subseteq entries' \cup Leaving'
    BY <1>1, <2>3
  <2>5. \A y \in Callers : c[y].pc = "commit" => y = x \/ c'[y] = c[y]
    BY <1>8
  <2> QED BY <2>1, <2>3, <2>4, <2>5 DEF S
<1>10. entries' \subseteq Songs /\ before' \subseteq entries' \X entries'
  BY <1>1, <1>4 DEF Among
<1> QED BY <1>2, <1>5, <1>6, <1>7, <1>9, <1>10, Types, SoloKeeps

LEMMA RemoveEvictedKeeps ==
  ASSUME FilesInv, NEW x \in Callers, RemoveEvicted(x) PROVE FilesInv'
<1>1. PICK k \in c[x].out : disk' = disk \ {k} /\ c' = [c EXCEPT ![x].out = @ \ {k}]
  BY DEF RemoveEvicted
<1> DEFINE r == [c[x] EXCEPT !.out = @ \ {k}]
<1>2. /\ c[x].pc = "remove" /\ c' = [c EXCEPT ![x] = r]
      /\ UNCHANGED <<entries, before, call, hold, pre, errors>>
  BY <1>1 DEF RemoveEvicted, lru
<1>3. c[x] \in CallerRecord /\ Sound(x, c[x]) /\ NotPrepared(c[x])
  BY SoundCaller
<1>4. r \in CallerRecord /\ r.pc = "remove" /\ r.path = c[x].path /\ r.owned = c[x].owned
      /\ r.out = c[x].out \ {k} /\ r.song = c[x].song
  BY <1>2, <1>3 DEF CallerRecord
<1> HIDE DEF r
<1>5. Alone(x, r)
  <2>1. Sound(x, r) /\ (r.pc \in Preparing /\ r.owned => r.path \notin disk')
    BY <1>1, <1>2, <1>3, <1>4 DEF Sound, NotPrepared, Preparing, Leading
  <2> QED BY <1>1, <1>2, <1>4, <2>1 DEF Alone, Leading, Fetching
<1>6. OwnersKept(x, r) /\ PrebuffersSound'
  BY <1>1, <1>2, <1>4 DEF OwnersKept, FilesInv, PrebuffersSound
<1>7. c'[x] = r /\ \A y \in Callers \ {x} : c'[y] = c[y]
  BY <1>2, <1>4, OneCaller
<1>8. FilesKnown'
  <2> SUFFICES ASSUME NEW j \in disk' \cap Songs
               PROVE  j \in entries \cup Leaving' \/ \E y \in Callers : c'[y].pc = "commit" /\ c'[y].song = j
    BY <1>2 DEF FilesKnown
  <2>1. j \in entries \cup Leaving \/ \E y \in Callers : c[y].pc = "commit" /\ c[y].song = j
    BY <1>1 DEF FilesInv, FilesKnown
  <2>2. j \in Leaving => j \in Leaving'
    BY <1>1, <1>4, <1>7 DEF Leaving
  <2>3. \A y \in Callers : c[y].pc = "commit" => c'[y] = c[y]
    BY <1>2, <1>7
  <2> QED BY <2>1, <2>2, <2>3
<1>9. disk' \subseteq Paths /\ before' \subseteq entries \X entries
  BY <1>1, <1>2, Types DEF FilesInv, TypeOK
<1> QED BY <1>2, <1>4, <1>5, <1>6, <1>8, <1>9, Types, SoloKeeps

-----------------------------------------------------------------------------
(***************************************************************************)
(* Prebuffers and players.                                                 *)
(***************************************************************************)

LEMMA NoPrebufferIsSound ==
  NoPrebuffer \in PreRecord /\ ~NoPrebuffer.owned /\ NoPrebuffer.path = None /\ NoPrebuffer.path \notin Callers
BY DEF NoPrebuffer, PreRecord

LEMMA PublishKeeps ==
  ASSUME FilesInv, NEW w \in Workers, Publish(w) PROVE FilesInv'
<1> DEFINE p == Guild[w]
           b == [pre[p] EXCEPT !.worker = None, !.path = c[w].path, !.owned = c[w].owned]
<1>1. /\ c[w].pc = "publish" /\ pre[p].worker = w /\ c' = [c EXCEPT ![w] = Idle]
      /\ pre' = [pre EXCEPT ![p] = b]
      /\ UNCHANGED <<disk, entries, before, call, hold, errors>>
  <2>1. pre' = [pre EXCEPT ![p].worker = None, ![p].path = c[w].path, ![p].owned = c[w].owned]
    BY DEF Publish
  <2>2. pre' = [pre EXCEPT ![p] = b]
    BY <2>1, Types DEF PreRecord
  <2> QED BY <2>2 DEF Publish, lru
<1>2. w \in Callers /\ p \in Players
  BY DEF Callers
<1>3. c[w] \in CallerRecord /\ Sound(w, c[w])
  BY <1>2, SoundCaller
<1>4. pre[p].path = None /\ ~pre[p].owned
  BY <1>1, <1>2 DEF FilesInv, PrebuffersSound
<1> HIDE DEF p
<1>5. b \in PreRecord /\ b.worker = None /\ b.path = c[w].path /\ b.owned = c[w].owned
      /\ b.song = pre[p].song
  <2>1. pre[p] \in PreRecord
    BY <1>2, Types
  <2>2. c[w].path \in Paths \cup {None} /\ c[w].owned \in BOOLEAN
    BY <1>3 DEF CallerRecord
  <2> QED BY <2>1, <2>2 DEF PreRecord
<1> HIDE DEF b
<1>6. /\ pre' \in [Players -> PreRecord]
      /\ pre'[p] = b /\ \A q \in Players \ {p} : pre'[q] = pre[q]
  BY <1>1, <1>2, <1>5, Types
<1>7. PrebuffersSound'
  BY <1>1, <1>2, <1>3, <1>5, <1>6 DEF FilesInv, PrebuffersSound, Sound
<1>8. Alone(w, Idle)
  BY <1>1, <1>2, IdleIsSound DEF Alone, Preparing, Leading, Fetching
<1>9. OwnersKept(w, Idle)
  BY <1>2, <1>4, <1>5, <1>6 DEF OwnersKept
<1>10. c'[w] = Idle /\ \A y \in Callers \ {w} : c'[y] = c[y]
  BY <1>1, <1>2, IdleIsSound, OneCaller
<1>11. FilesKnown'
  BY <1>1, <1>3, <1>10, IdleIsSound, QuietKnown DEF Sound
<1>12. before \subseteq entries \X entries
  BY DEF FilesInv, TypeOK
<1> QED BY <1>1, <1>2, <1>6, <1>7, <1>8, <1>9, <1>11, <1>12, IdleIsSound, Types, SoloKeeps

\* A caller that has finished goes, with the scratch file it owns.
LEMMA LeavesKeeps ==
  ASSUME FilesInv, NEW x \in Callers, c[x].pc \in {"publish", "open", "play"},
         disk' = disk \ Mine(c[x]), c' = [c EXCEPT ![x] = Idle],
         hold' \in [Players -> Paths \cup {None}],
         UNCHANGED <<entries, before, call, pre, errors>>
  PROVE  FilesInv'
<1>1. c[x] \in CallerRecord /\ Sound(x, c[x])
  BY SoundCaller
<1>2. c[x].owned => c[x].path \notin disk'
  BY DEF Mine
<1>3. disk' \subseteq disk
  OBVIOUS
<1>4. Alone(x, Idle)
  BY <1>3, IdleIsSound DEF Alone, Preparing, Leading, Fetching
<1>5. OwnersKept(x, Idle) /\ PrebuffersSound'
  BY <1>2, <1>3 DEF OwnersKept, FilesInv, PrebuffersSound
<1>6. c'[x] = Idle /\ \A y \in Callers \ {x} : c'[y] = c[y]
  BY IdleIsSound, OneCaller
<1>7. FilesKnown'
  BY <1>1, <1>3, <1>6, IdleIsSound, QuietKnown DEF Sound
<1>8. before \subseteq entries \X entries /\ disk' \subseteq Paths
  BY <1>3, Types DEF FilesInv, TypeOK
<1> QED BY <1>4, <1>5, <1>7, <1>8, IdleIsSound, Types, SoloKeeps

LEMMA DiscardKeeps ==
  ASSUME FilesInv, NEW w \in Workers, Discard(w) PROVE FilesInv'
<1>1. w \in Callers
  BY DEF Callers
<1>2. hold' \in [Players -> Paths \cup {None}]
  BY Types DEF Discard
<1> QED BY <1>1, <1>2, LeavesKeeps DEF Discard, lru

LEMMA EndsKeeps ==
  ASSUME FilesInv, NEW p \in Players, GiveUp(p) \/ StreamEnds(p) PROVE FilesInv'
<1>1. p \in Callers
  BY DEF Callers
<1>2. hold' \in [Players -> Paths \cup {None}]
  BY Types DEF GiveUp, StreamEnds
<1> QED BY <1>1, <1>2, LeavesKeeps DEF GiveUp, StreamEnds, lru

LEMMA SelectKeeps ==
  ASSUME FilesInv, NEW p \in Players, NEW k \in Songs, Select(p, k) PROVE FilesInv'
<1> DEFINE r == [Idle EXCEPT !.pc = "get", !.song = k]
<1>1. /\ c[p].pc = "idle" /\ c' = [c EXCEPT ![p] = r]
      /\ UNCHANGED <<disk, entries, before, call, hold, pre, errors>>
  BY DEF Select, lru
<1>2. p \in Callers /\ p \notin Workers
  BY DEF Callers
<1>3. c[p] = Idle
  BY <1>1, <1>2, SoundCaller DEF Sound
<1>4. r \in CallerRecord /\ r.pc = "get" /\ r.song = k /\ r.path = None /\ ~r.owned /\ r.out = {}
  BY IdleIsSound DEF Idle, CallerRecord, PCs, Preparing
<1> HIDE DEF r
<1>5. Alone(p, r)
  <2>1. Sound(p, r)
    BY <1>2, <1>4 DEF Sound
  <2> QED BY <1>1, <1>4, <2>1 DEF Alone, Leading, Fetching
<1>6. r.path = c[p].path /\ r.owned = c[p].owned /\ c[p].out \subseteq r.out /\ c[p].pc # "commit"
  <2>1. r.owned \in BOOLEAN /\ c[p].owned \in BOOLEAN
    BY <1>2, <1>4, Types DEF CallerRecord
  <2>2. c[p].path = None /\ ~c[p].owned /\ c[p].out = {}
    BY <1>3, IdleIsSound
  <2> QED BY <1>1, <1>4, <2>1, <2>2
<1>7. errors' \in 0..MaxErrors
  BY <1>1, Types
<1> QED BY <1>1, <1>2, <1>4, <1>5, <1>6, <1>7, MoveKeeps

LEMMA TakePreparedKeeps ==
  ASSUME FilesInv, NEW p \in Players, TakePrepared(p) PROVE FilesInv'
<1> DEFINE b == pre[p]
           r == IF b.path \in disk
                THEN [Idle EXCEPT !.pc = "open", !.song = b.song, !.path = b.path, !.owned = b.owned]
                ELSE [Idle EXCEPT !.pc = "get", !.song = b.song]
<1>1. /\ c[p].pc = "idle" /\ b.path # None /\ c' = [c EXCEPT ![p] = r]
      /\ pre' = [pre EXCEPT ![p] = NoPrebuffer] /\ hold' = [hold EXCEPT ![p] = b.path]
      /\ UNCHANGED <<disk, entries, before, call, errors>>
  BY DEF TakePrepared, lru
<1>2. p \in Callers /\ p \notin Workers
  BY DEF Callers
<1>3. c[p] = Idle
  BY <1>1, <1>2, SoundCaller DEF Sound
<1>4. b \in PreRecord /\ (b.owned <=> b.path \in Callers) /\ b.song \in Songs
  BY <1>1, Types DEF FilesInv, PrebuffersSound
<1>5. /\ r \in CallerRecord /\ r.pc \in {"open", "get"} /\ r.out = {} /\ r.song = b.song
      /\ b.path \in disk => r.path = b.path /\ r.owned = b.owned
      /\ r.owned <=> r.path \in Callers
      /\ r.pc = "get" => ~r.owned
  <2>1. CASE b.path \in disk
    BY <1>4, <2>1, IdleIsSound DEF Idle, CallerRecord, PreRecord, PCs
  <2>2. CASE b.path \notin disk
    BY <1>4, <2>2, IdleIsSound DEF Idle, CallerRecord, PreRecord, PCs, Preparing
  <2> QED BY <2>1, <2>2
<1>6. hold' \in [Players -> Paths \cup {None}]
  BY <1>1, <1>4, Types DEF PreRecord
<1> HIDE DEF r
<1>7. Alone(p, r)
  <2>1. Sound(p, r)
    BY <1>2, <1>4, <1>5 DEF Sound
  <2> QED BY <1>1, <1>5, <2>1 DEF Alone, Preparing, Leading, Fetching
<1>8. /\ pre' \in [Players -> PreRecord] /\ pre'[p] = NoPrebuffer
      /\ \A q \in Players \ {p} : pre'[q] = pre[q]
  BY <1>1, Types, NoPrebufferIsSound
<1>9. OwnersKept(p, r)
  <2>1. ~c[p].owned
    BY <1>3, IdleIsSound
  <2> QED BY <1>1, <1>5, <1>8, <2>1 DEF OwnersKept
<1>10. PrebuffersSound'
  BY <1>8, NoPrebufferIsSound DEF FilesInv, PrebuffersSound, NoPrebuffer
<1>11. c'[p] = r /\ \A y \in Callers \ {p} : c'[y] = c[y]
  BY <1>1, <1>2, <1>5, OneCaller
<1>12. FilesKnown'
  <2>1. c[p].out = {}
    BY <1>3, IdleIsSound
  <2> QED BY <1>1, <1>11, <2>1, QuietKnown
<1>13. before \subseteq entries \X entries
  BY DEF FilesInv, TypeOK
<1> QED BY <1>1, <1>2, <1>5, <1>6, <1>7, <1>8, <1>9, <1>10, <1>12, <1>13, Types, SoloKeeps

LEMMA OpenKeeps ==
  ASSUME FilesInv, NEW p \in Players, Open(p) PROVE FilesInv'
<1> DEFINE r == [c[p] EXCEPT !.pc = "play", !.song = None, !.tries = 0]
<1>1. /\ c[p].pc = "open" /\ c' = [c EXCEPT ![p] = r]
      /\ UNCHANGED <<disk, entries, before, call, hold, pre, errors>>
  BY DEF Open, lru
<1>2. p \in Callers
  BY DEF Callers
<1>3. c[p] \in CallerRecord /\ Sound(p, c[p])
  BY <1>2, SoundCaller
<1>4. r \in CallerRecord /\ r.pc = "play" /\ r.path = c[p].path /\ r.owned = c[p].owned /\ r.out = c[p].out
  <2>1. 0 \in 0..MaxRetries /\ "play" \in PCs /\ None \in Songs \cup {None}
    BY DEF PCs
  <2> QED BY <1>3, <2>1 DEF CallerRecord
<1> HIDE DEF r
<1>5. Alone(p, r)
  <2>1. Sound(p, r)
    BY <1>1, <1>3, <1>4 DEF Sound, Preparing, Leading
  <2> QED BY <1>1, <1>4, <2>1 DEF Alone, Preparing, Leading, Fetching
<1> QED BY <1>1, <1>2, <1>4, <1>5, Types, MoveKeeps

LEMMA OpenFailsKeeps ==
  ASSUME FilesInv, NEW p \in Players, OpenFails(p) PROVE FilesInv'
<1> DEFINE r == IF c[p].path \in disk THEN [c[p] EXCEPT !.tries = @ + 1]
                ELSE [c[p] EXCEPT !.tries = @ + 1, !.pc = "get"]
<1>1. /\ c[p].pc = "open" /\ c[p].tries + 1 < MaxRetries /\ c' = [c EXCEPT ![p] = r]
      /\ errors' \in 0..MaxErrors
      /\ UNCHANGED <<disk, entries, before, call, hold, pre>>
  <2>1. errors \in 0..MaxErrors
    BY Types
  <2>2. errors' \in 0..MaxErrors
    <3>1. errors' = errors \/ (errors < MaxErrors /\ errors' = errors + 1)
      BY DEF OpenFails, Fails
    <3> QED BY <2>1, <3>1
  <2>3. c' = [c EXCEPT ![p] = r]
    BY DEF OpenFails
  <2> QED BY <2>2, <2>3 DEF OpenFails, lru
<1>2. p \in Callers /\ p \notin Workers
  BY DEF Callers
<1>3. c[p] \in CallerRecord /\ Sound(p, c[p])
  BY <1>2, SoundCaller
<1>4. c[p].tries + 1 \in 0..MaxRetries
  BY <1>1, <1>3 DEF CallerRecord
<1>5. /\ r \in CallerRecord /\ r.path = c[p].path /\ r.owned = c[p].owned /\ r.out = c[p].out
      /\ r.song = c[p].song
      /\ r.pc = "open" \/ (r.pc = "get" /\ c[p].path \notin disk)
  BY <1>1, <1>3, <1>4 DEF CallerRecord, PCs, Preparing
<1> HIDE DEF r
<1>6. Alone(p, r)
  <2>1. Sound(p, r) /\ (r.pc \in Preparing /\ r.owned => r.path \notin disk)
    BY <1>1, <1>2, <1>3, <1>5 DEF Sound, Preparing, Leading
  <2> QED BY <1>1, <1>5, <2>1 DEF Alone, Leading, Fetching
<1> QED BY <1>1, <1>2, <1>5, <1>6, Types, MoveKeeps

LEMMA StopStartKeeps ==
  ASSUME FilesInv, NEW p \in Players, StopStart(p) PROVE FilesInv'
<1> DEFINE r == [c[p] EXCEPT !.ended = TRUE]
<1>1. /\ c[p].pc \in {"wait", "download"} /\ c' = [c EXCEPT ![p] = r]
      /\ UNCHANGED <<disk, entries, before, call, hold, pre, errors>>
  BY DEF StopStart, lru
<1>2. p \in Callers
  BY DEF Callers
<1>3. c[p] \in CallerRecord /\ Sound(p, c[p]) /\ NotPrepared(c[p])
  BY <1>2, SoundCaller
<1>4. /\ r \in CallerRecord /\ r.pc = c[p].pc /\ r.path = c[p].path /\ r.owned = c[p].owned
      /\ r.out = c[p].out /\ r.song = c[p].song
  BY <1>3 DEF CallerRecord
<1> HIDE DEF r
<1>5. Alone(p, r)
  <2>1. Sound(p, r) /\ (r.pc \in Preparing /\ r.owned => r.path \notin disk)
    BY <1>1, <1>3, <1>4 DEF Sound, NotPrepared
  <2> QED BY <1>1, <1>4, <2>1 DEF Alone, Leading, Fetching
<1> QED BY <1>1, <1>2, <1>4, <1>5, Types, MoveKeeps

-----------------------------------------------------------------------------
(***************************************************************************)
(* Steps that many callers see: a prebuffer is cancelled, the directory of *)
(* scratch files is emptied.  Nobody moves.                                *)
(***************************************************************************)

LEMMA NobodyMoves ==
  ASSUME FilesInv, c' \in [Callers -> CallerRecord],
         \A y \in Callers : /\ c'[y].pc = c[y].pc /\ c'[y].song = c[y].song /\ c'[y].path = c[y].path
                            /\ c'[y].owned = c[y].owned /\ c'[y].out = c[y].out
                            /\ c[y].pc = "idle" => c'[y] = c[y],
         disk' \subseteq disk, disk \cap Songs \subseteq disk',
         \A p \in Players : pre[p].owned /\ pre[p].path \in disk' => pre'[p].path = pre[p].path /\ pre'[p].owned,
         pre' \in [Players -> PreRecord], PrebuffersSound', errors' \in 0..MaxErrors,
         UNCHANGED <<entries, before, call, hold>>
  PROVE  FilesInv'
<1>1. CallersSound'
  BY DEF FilesInv, CallersSound, Sound, NotPrepared
<1>2. CallsSound'
  <2>1. ASSUME NEW k \in Songs, call[k].by # None, ~call[k].done
        PROVE  c'[call[k].by].song = k /\ c'[call[k].by].pc \in Fetching
    <3>1. call[k].by \in Callers
      BY <2>1, Types DEF CallRecord
    <3> QED BY <2>1, <3>1 DEF FilesInv, CallsSound
  <2> QED BY <2>1 DEF FilesInv, CallsSound
<1>3. ScratchOwned'
  BY DEF FilesInv, ScratchOwned
<1>4. WaitersServed'
  BY DEF FilesInv, WaitersServed
<1>5. FilesKnown'
  BY QuietKnown
<1>6. before \subseteq entries \X entries /\ disk' \subseteq Paths
  BY Types DEF FilesInv, TypeOK
<1>7. TypeOK'
  BY <1>1, <1>6, Types, TypesAfter
<1> QED BY <1>1, <1>2, <1>3, <1>4, <1>5, <1>7 DEF FilesInv

LEMMA CancelledWhat ==
  ASSUME FilesInv, NEW p \in Players
  PROVE  /\ Cancelled(p) \in [Callers -> CallerRecord]
         /\ \A y \in Callers : LET r == Cancelled(p)[y] IN
              /\ r.pc = c[y].pc /\ r.song = c[y].song /\ r.path = c[y].path
              /\ r.owned = c[y].owned /\ r.out = c[y].out /\ (c[y].pc = "idle" => r = c[y])
<1> SUFFICES ASSUME NEW y \in Callers
             PROVE  LET r == Cancelled(p)[y] IN
                    /\ r \in CallerRecord /\ r.pc = c[y].pc /\ r.song = c[y].song /\ r.path = c[y].path
                    /\ r.owned = c[y].owned /\ r.out = c[y].out /\ (c[y].pc = "idle" => r = c[y])
  BY DEF Cancelled
<1>1. c[y] \in CallerRecord
  BY Types
<1>2. Cancelled(p)[y] = IF y = pre[p].worker /\ c[y].pc # "idle" THEN [c[y] EXCEPT !.ended = TRUE] ELSE c[y]
  BY DEF Cancelled
<1> HIDE DEF Cancelled
<1> QED BY <1>1, <1>2 DEF CallerRecord

\* What goes with a prebuffer is the file it owns.
LEMMA PreparedGoes ==
  ASSUME FilesInv, NEW p \in Players, disk' = disk \ Mine(pre[p]),
         NEW b \in PreRecord, ~b.owned, b.path = None, b.worker # None => b.song \in Songs,
         pre' = [pre EXCEPT ![p] = b]
  PROVE  /\ pre' \in [Players -> PreRecord] /\ PrebuffersSound'
         /\ disk' \subseteq disk /\ disk \cap Songs \subseteq disk'
         /\ \A q \in Players : pre[q].owned /\ pre[q].path \in disk' => pre'[q].path = pre[q].path /\ pre'[q].owned
<1>1. /\ pre' \in [Players -> PreRecord] /\ pre'[p] = b
      /\ \A q \in Players \ {p} : pre'[q] = pre[q]
  BY Types
<1>2. None \notin Callers
  OBVIOUS
<1>3. PrebuffersSound'
  BY <1>1, <1>2 DEF FilesInv, PrebuffersSound
<1>4. disk' \subseteq disk /\ disk \cap Songs \subseteq disk'
  BY DEF Mine, FilesInv, PrebuffersSound
<1>5. pre[p].owned => pre[p].path \notin disk'
  BY DEF Mine
<1> QED BY <1>1, <1>3, <1>4, <1>5

LEMMA CancelKeeps ==
  ASSUME FilesInv, NEW p \in Players, PrebufferCancel(p) PROVE FilesInv'
<1>1. /\ c' = Cancelled(p) /\ disk' = disk \ Mine(pre[p]) /\ pre' = [pre EXCEPT ![p] = NoPrebuffer]
      /\ UNCHANGED <<entries, before, call, hold, errors>>
  BY DEF PrebufferCancel, lru
<1>2. /\ pre' \in [Players -> PreRecord] /\ PrebuffersSound'
      /\ disk' \subseteq disk /\ disk \cap Songs \subseteq disk'
      /\ \A q \in Players : pre[q].owned /\ pre[q].path \in disk' => pre'[q].path = pre[q].path /\ pre'[q].owned
  BY <1>1, NoPrebufferIsSound, PreparedGoes DEF NoPrebuffer
<1> QED BY <1>1, <1>2, CancelledWhat, Types, NobodyMoves

LEMMA CleanKeeps == ASSUME FilesInv, CleanBuffers PROVE FilesInv'
<1>1. /\ disk' = disk \cap Songs /\ c' = [x \in Callers |-> [c[x] EXCEPT !.tmp = FALSE]]
      /\ errors' \in 0..MaxErrors /\ UNCHANGED <<entries, before, call, hold, pre>>
  BY Types DEF CleanBuffers, Fails, lru
<1>2. ASSUME NEW y \in Callers
      PROVE  /\ c'[y] \in CallerRecord /\ c'[y].pc = c[y].pc /\ c'[y].song = c[y].song /\ c'[y].path = c[y].path
             /\ c'[y].owned = c[y].owned /\ c'[y].out = c[y].out
             /\ c[y].pc = "idle" => c'[y] = c[y]
  <2>1. c[y] \in CallerRecord /\ c'[y] = [c[y] EXCEPT !.tmp = FALSE]
    BY <1>1, Types
  <2>2. c[y].pc = "idle" => c[y] = Idle
    BY SoundCaller DEF Sound
  <2>3. c[y].pc = "idle" => c'[y] = c[y]
    <3>1. c[y] = Idle => ~c[y].tmp
      BY DEF Idle
    <3>2. c[y] = Idle => c[y].tmp = FALSE
      BY <2>1, <3>1 DEF CallerRecord
    <3>3. c[y].tmp = FALSE => [c[y] EXCEPT !.tmp = FALSE] = c[y]
      BY <2>1 DEF CallerRecord
    <3> QED BY <2>1, <2>2, <3>2, <3>3
  <2> QED BY <2>1, <2>3 DEF CallerRecord
<1>3. c' \in [Callers -> CallerRecord]
  BY <1>1, <1>2
<1>4. PrebuffersSound' /\ pre' \in [Players -> PreRecord]
  BY <1>1, Types DEF FilesInv, PrebuffersSound
<1> QED BY <1>1, <1>2, <1>3, <1>4, NobodyMoves

\* Like NobodyMoves, but callers that were idle may begin to prepare.
Begins(y) == c[y].pc = "idle" /\ c'[y].pc = "get" /\ Sound(y, c'[y]) /\ ~c'[y].owned
Same(y) ==
  /\ c'[y].pc = c[y].pc /\ c'[y].song = c[y].song /\ c'[y].path = c[y].path
  /\ c'[y].owned = c[y].owned /\ c'[y].out = c[y].out /\ (c[y].pc = "idle" => c'[y] = c[y])

LEMMA SomeBegin ==
  ASSUME FilesInv, c' \in [Callers -> CallerRecord], \A y \in Callers : Same(y) \/ Begins(y),
         disk' \subseteq disk, disk \cap Songs \subseteq disk',
         \A p \in Players : pre[p].owned /\ pre[p].path \in disk' => pre'[p].path = pre[p].path /\ pre'[p].owned,
         pre' \in [Players -> PreRecord], PrebuffersSound', errors' \in 0..MaxErrors,
         UNCHANGED <<entries, before, call, hold>>
  PROVE  FilesInv'
<1>1. ASSUME NEW y \in Callers
      PROVE  /\ c[y].pc \notin {"idle"} => Same(y)
             /\ c'[y].pc \notin {"idle", "get"} => Same(y)
             /\ c[y].owned => Same(y)
             /\ c[y].out \subseteq c'[y].out
  <2>1. c[y].pc = "idle" => ~c[y].owned /\ c[y].out = {}
    BY IdleIsSound, SoundCaller DEF Sound
  <2>2. Same(y) \/ Begins(y)
    OBVIOUS
  <2> QED BY <2>1, <2>2 DEF Same, Begins
<1>2. CallersSound'
  <2> SUFFICES ASSUME NEW y \in Callers
               PROVE  /\ Sound(y, c'[y]) /\ (c'[y].pc \in Preparing /\ c'[y].owned => c'[y].path \notin disk')
                      /\ c'[y].pc \in Leading => call[c'[y].song].by = y
    BY DEF CallersSound, NotPrepared, Sound
  <2>1. CASE Same(y)
    BY <2>1, SoundCaller DEF Same, Sound, NotPrepared
  <2>2. CASE Begins(y)
    BY <2>2 DEF Begins, Leading
  <2> QED BY <2>1, <2>2
<1>3. CallsSound'
  <2>1. ASSUME NEW k \in Songs, call[k].by # None, ~call[k].done
        PROVE  c'[call[k].by].song = k /\ c'[call[k].by].pc \in Fetching
    <3>1. call[k].by \in Callers /\ c[call[k].by].song = k /\ c[call[k].by].pc \in Fetching
      BY <2>1, Types DEF CallRecord, FilesInv, CallsSound
    <3> QED BY <1>1, <3>1 DEF Same, Fetching
  <2> QED BY <2>1 DEF FilesInv, CallsSound
<1>4. ScratchOwned'
  <2> SUFFICES ASSUME NEW f \in disk' \cap Callers
               PROVE  \/ \E y \in Callers : \/ c'[y].path = f /\ c'[y].owned
                                            \/ c'[y].pc = "forget" /\ call[c'[y].song].path = f
                      \/ \E p \in Players : pre'[p].path = f /\ pre'[p].owned
    BY DEF ScratchOwned
  <2>1. \/ \E y \in Callers : \/ c[y].path = f /\ c[y].owned
                              \/ c[y].pc = "forget" /\ call[c[y].song].path = f
        \/ \E p \in Players : pre[p].path = f /\ pre[p].owned
    BY DEF FilesInv, ScratchOwned
  <2>2. \A y \in Callers : c[y].owned \/ c[y].pc = "forget" => Same(y)
    BY <1>1
  <2> QED BY <2>1, <2>2 DEF Same
<1>5. WaitersServed'
  <2> SUFFICES ASSUME NEW y \in Callers, c'[y].pc = "wait"
               PROVE  \E z \in Callers : c'[z].song = c'[y].song /\ c'[z].pc \in Fetching
    BY DEF WaitersServed, Fetching
  <2>1. c[y].pc = "wait" /\ c[y].song = c'[y].song
    BY <1>1 DEF Same
  <2>2. PICK z \in Callers : c[z].song = c[y].song /\ c[z].pc \in Fetching
    BY <2>1 DEF FilesInv, WaitersServed, Fetching
  <2>3. Same(z)
    BY <1>1, <2>2 DEF Fetching
  <2> QED BY <2>1, <2>2, <2>3 DEF Same
<1>6. FilesKnown'
  <2>1. \A y \in Callers : c[y].pc = "commit" => Same(y)
    BY <1>1
  <2> QED BY <1>1, <2>1, QuietKnown DEF Same
<1>7. before \subseteq entries \X entries /\ disk' \subseteq Paths
  BY Types DEF FilesInv, TypeOK
<1>8. TypeOK'
  BY <1>2, <1>7, Types, TypesAfter
<1> QED BY <1>2, <1>3, <1>4, <1>5, <1>6, <1>8 DEF FilesInv

LEMMA StartKeeps ==
  ASSUME FilesInv, NEW p \in Players, NEW w \in Workers, NEW k \in Songs, PrebufferStart(p, w, k)
  PROVE  FilesInv'
<1> DEFINE r == [Idle EXCEPT !.pc = "get", !.song = k]
           b == [NoPrebuffer EXCEPT !.worker = w, !.song = k]
<1>1. /\ c[w] = Idle /\ c' = [Cancelled(p) EXCEPT ![w] = r]
      /\ disk' = disk \ Mine(pre[p]) /\ pre' = [pre EXCEPT ![p] = b]
      /\ UNCHANGED <<entries, before, call, hold, errors>>
  BY DEF PrebufferStart, lru
<1>2. w \in Callers
  BY DEF Callers
<1>3. r \in CallerRecord /\ r.pc = "get" /\ r.song = k /\ r.path = None /\ ~r.owned /\ r.out = {}
  BY IdleIsSound DEF Idle, CallerRecord, PCs, Preparing
<1>4. b \in PreRecord /\ ~b.owned /\ b.path = None /\ b.song \in Songs
  BY DEF NoPrebuffer, PreRecord
<1> HIDE DEF r, b
<1>5. /\ pre' \in [Players -> PreRecord] /\ PrebuffersSound'
      /\ disk' \subseteq disk /\ disk \cap Songs \subseteq disk'
      /\ \A q \in Players : pre[q].owned /\ pre[q].path \in disk' => pre'[q].path = pre[q].path /\ pre'[q].owned
  BY <1>1, <1>4, PreparedGoes
<1>6. Cancelled(p) \in [Callers -> CallerRecord]
  BY CancelledWhat
<1>7. /\ c' \in [Callers -> CallerRecord] /\ c'[w] = r
      /\ \A y \in Callers \ {w} : c'[y] = Cancelled(p)[y]
  BY <1>1, <1>2, <1>3, <1>6
<1>8. Begins(w)
  <2>1. c[w].pc = "idle"
    BY <1>1, IdleIsSound
  <2>2. Sound(w, r)
    BY <1>3 DEF Sound
  <2> QED BY <1>3, <1>7, <2>1, <2>2 DEF Begins
<1>9. \A y \in Callers : Same(y) \/ Begins(y)
  BY <1>7, <1>8, CancelledWhat DEF Same
<1> QED BY <1>1, <1>5, <1>7, <1>9, Types, SomeBegin

-----------------------------------------------------------------------------
(***************************************************************************)
(* The calls: one is opened, its result is told, it is deleted.            *)
(***************************************************************************)

\* Nobody else is leading the download of a song that x leads, or that nobody does.
LEMMA OneLeader ==
  ASSUME FilesInv, NEW x \in Callers, NEW k \in Songs, call[k].by \in {x, None}
  PROVE  \A y \in Callers \ {x} : c[y].pc \in Leading => c[y].song # k
BY SoundCaller

LEMMA LeadKeeps ==
  ASSUME FilesInv, NEW x \in Callers, Lead(x) PROVE FilesInv'
<1> DEFINE k == c[x].song
           r == [c[x] EXCEPT !.pc = "download", !.tmp = TRUE]
           d == [NoCall EXCEPT !.by = x]
<1>1. /\ c[x].pc = "join" /\ call[k].by = None
      /\ c' = [c EXCEPT ![x] = r] /\ call' = [call EXCEPT ![k] = d]
      /\ UNCHANGED <<disk, entries, before, hold, pre, errors>>
  <2>1. c' = [c EXCEPT ![x] = r]
    BY Types DEF Lead, CallerRecord
  <2> QED BY <2>1 DEF Lead, lru
<1>2. c[x] \in CallerRecord /\ Sound(x, c[x]) /\ NotPrepared(c[x]) /\ k \in Songs
  BY <1>1, SoundCaller DEF Preparing
<1>3. /\ r \in CallerRecord /\ r.pc = "download" /\ r.path = c[x].path /\ r.owned = c[x].owned
      /\ r.out = c[x].out /\ r.song = k
  BY <1>2 DEF CallerRecord, PCs, Preparing, Leading
<1>4. d \in CallRecord /\ d.by = x /\ ~d.owned /\ d.path = None
  BY DEF NoCall, CallRecord
<1> HIDE DEF r, d
<1>5. /\ c' \in [Callers -> CallerRecord] /\ c'[x] = r /\ \A y \in Callers \ {x} : c'[y] = c[y]
      /\ call' \in [Songs -> CallRecord] /\ call'[k] = d /\ \A j \in Songs \ {k} : call'[j] = call[j]
  BY <1>1, <1>2, <1>3, <1>4, Types
<1>6. \A y \in Callers \ {x} : c[y].pc \in Leading => c[y].song \in Songs \ {k}
  BY <1>1, <1>2, OneLeader, SoundCaller DEF Preparing
<1>7. CallersSound'
  <2> SUFFICES ASSUME NEW y \in Callers
               PROVE  /\ Sound(y, c'[y]) /\ (c'[y].pc \in Preparing /\ c'[y].owned => c'[y].path \notin disk)
                      /\ c'[y].pc \in Leading => call'[c'[y].song].by = y
    BY <1>1 DEF CallersSound, NotPrepared, Sound
  <2>1. CASE y = x
    <3>1. Sound(x, r) /\ (r.pc \in Preparing /\ r.owned => r.path \notin disk)
      BY <1>1, <1>2, <1>3 DEF Sound, NotPrepared, Preparing, Leading
    <3> QED BY <1>3, <1>4, <1>5, <2>1, <3>1
  <2>2. CASE y # x
    BY <1>5, <1>6, <2>2, SoundCaller DEF NotPrepared
  <2> QED BY <2>1, <2>2
<1>8. CallsSound'
  <2> SUFFICES ASSUME NEW j \in Songs
               PROVE  /\ call'[j].owned <=> call'[j].path \in Callers
                      /\ call'[j].by # None /\ ~call'[j].done =>
                           c'[call'[j].by].song = j /\ c'[call'[j].by].pc \in Fetching
    BY DEF CallsSound
  <2>1. CASE j = k
    BY <1>3, <1>4, <1>5, <2>1 DEF Fetching
  <2>2. CASE j # k
    <3>1. /\ call[j].owned <=> call[j].path \in Callers
          /\ call[j].by # None /\ ~call[j].done => c[call[j].by].song = j /\ c[call[j].by].pc \in Fetching
      BY DEF FilesInv, CallsSound
    <3>2. call[j].by # None => call[j].by \in Callers
      BY Types DEF CallRecord
    <3> QED BY <1>1, <1>5, <2>2, <3>1, <3>2 DEF Fetching
  <2> QED BY <2>1, <2>2
<1>9. ScratchOwned'
  <2> SUFFICES ASSUME NEW f \in disk \cap Callers
               PROVE  \/ \E y \in Callers : \/ c'[y].path = f /\ c'[y].owned
                                            \/ c'[y].pc = "forget" /\ call'[c'[y].song].path = f
                      \/ \E p \in Players : pre[p].path = f /\ pre[p].owned
    BY <1>1 DEF ScratchOwned
  <2>1. \/ \E y \in Callers : \/ c[y].path = f /\ c[y].owned
                              \/ c[y].pc = "forget" /\ call[c[y].song].path = f
        \/ \E p \in Players : pre[p].path = f /\ pre[p].owned
    BY DEF FilesInv, ScratchOwned
  <2>2. \A y \in Callers : c[y].path = f /\ c[y].owned => c'[y].path = f /\ c'[y].owned
    BY <1>3, <1>5
  <2>3. \A y \in Callers : c[y].pc = "forget" => c'[y] = c[y] /\ call'[c[y].song] = call[c[y].song]
    BY <1>1, <1>5, <1>6 DEF Leading
  <2> QED BY <2>1, <2>2, <2>3
<1>10. WaitersServed'
  <2> SUFFICES ASSUME NEW y \in Callers, c'[y].pc = "wait"
               PROVE  \E z \in Callers : c'[z].song = c'[y].song /\ c'[z].pc \in Fetching
    BY DEF WaitersServed, Fetching
  <2>1. c'[y] = c[y]
    BY <1>3, <1>5
  <2>2. PICK z \in Callers : c[z].song = c[y].song /\ c[z].pc \in Fetching
    BY <2>1 DEF FilesInv, WaitersServed, Fetching
  <2>3. c'[z] = c[z]
    BY <1>1, <1>5, <2>2 DEF Fetching
  <2> QED BY <2>1, <2>2, <2>3
<1>11. FilesKnown'
  BY <1>1, <1>3, <1>5, QuietKnown
<1>12. before \subseteq entries \X entries
  BY DEF FilesInv, TypeOK
<1>13. TypeOK'
  BY <1>1, <1>5, <1>7, <1>12, Types, TypesAfter
<1>14. PrebuffersSound'
  BY <1>1 DEF FilesInv, PrebuffersSound
<1> QED BY <1>7, <1>8, <1>9, <1>10, <1>11, <1>13, <1>14 DEF FilesInv

LEMMA ForgetKeeps ==
  ASSUME FilesInv, NEW x \in Callers, Forget(x) PROVE FilesInv'
<1> DEFINE k == c[x].song
           path == call[k].path
           owned == call[k].owned
           r == Returned(x, path, owned)
<1>1. /\ c[x].pc = "forget" /\ c' = [c EXCEPT ![x] = r] /\ call' = [call EXCEPT ![k] = NoCall]
      /\ UNCHANGED <<disk, entries, before, pre, errors>>
  BY DEF Forget, Return, lru
<1>2. c[x] \in CallerRecord /\ Sound(x, c[x]) /\ NotPrepared(c[x]) /\ k \in Songs /\ call[k].by = x
  BY <1>1, SoundCaller DEF Preparing, Leading
<1>3. call[k] \in CallRecord /\ (owned <=> path \in Callers)
  BY <1>2, Types DEF FilesInv, CallsSound
<1>4. path \in Paths \cup {None} /\ owned \in BOOLEAN
  BY <1>3 DEF CallRecord
<1>5. c[x].pc \in Preparing
  BY <1>1 DEF Preparing, Leading
<1>6. /\ r \in CallerRecord /\ Sound(x, r)
      /\ r.pc \in {"idle", "publish", "open", "get"}
      /\ r.pc = "get" => ~r.owned
      /\ r.path = IF path = None THEN c[x].path ELSE path
      /\ r.out = {}
  BY <1>3, <1>4, <1>5, ReturnedWhat
<1>7. hold' \in [Players -> Paths \cup {None}]
  BY Types DEF Forget, Return
<1> HIDE DEF r
<1>8. NoCall \in CallRecord /\ NoCall.by = None /\ ~NoCall.owned /\ NoCall.path = None
  BY DEF NoCall, CallRecord
<1>9. /\ c' \in [Callers -> CallerRecord] /\ c'[x] = r /\ \A y \in Callers \ {x} : c'[y] = c[y]
      /\ call' \in [Songs -> CallRecord] /\ call'[k] = NoCall /\ \A j \in Songs \ {k} : call'[j] = call[j]
  BY <1>1, <1>2, <1>6, <1>8, Types
<1>10. \A y \in Callers \ {x} : c[y].pc \in Leading => c[y].song \in Songs \ {k}
  BY <1>2, OneLeader, SoundCaller DEF Preparing
<1>11. CallersSound'
  <2> SUFFICES ASSUME NEW y \in Callers
               PROVE  /\ Sound(y, c'[y]) /\ (c'[y].pc \in Preparing /\ c'[y].owned => c'[y].path \notin disk)
                      /\ c'[y].pc \in Leading => call'[c'[y].song].by = y
    BY <1>1 DEF CallersSound, NotPrepared, Sound
  <2>1. CASE y = x
    BY <1>6, <1>9, <2>1 DEF Preparing, Leading
  <2>2. CASE y # x
    BY <1>9, <1>10, <2>2, SoundCaller DEF NotPrepared
  <2> QED BY <2>1, <2>2
<1>12. CallsSound'
  <2> SUFFICES ASSUME NEW j \in Songs
               PROVE  /\ call'[j].owned <=> call'[j].path \in Callers
                      /\ call'[j].by # None /\ ~call'[j].done =>
                           c'[call'[j].by].song = j /\ c'[call'[j].by].pc \in Fetching
    BY DEF CallsSound
  <2>1. CASE j = k
    BY <1>8, <1>9, <2>1
  <2>2. CASE j # k
    <3>1. /\ call[j].owned <=> call[j].path \in Callers
          /\ call[j].by # None /\ ~call[j].done => c[call[j].by].song = j /\ c[call[j].by].pc \in Fetching
      BY DEF FilesInv, CallsSound
    <3>2. call[j].by # None => call[j].by \in Callers
      BY Types DEF CallRecord
    <3> QED BY <1>1, <1>9, <2>2, <3>1, <3>2 DEF Fetching
  <2> QED BY <2>1, <2>2
<1>13. ScratchOwned'
  <2> SUFFICES ASSUME NEW f \in disk \cap Callers
               PROVE  \/ \E y \in Callers : \/ c'[y].path = f /\ c'[y].owned
                                            \/ c'[y].pc = "forget" /\ call'[c'[y].song].path = f
                      \/ \E p \in Players : pre[p].path = f /\ pre[p].owned
    BY <1>1 DEF ScratchOwned
  <2>1. \/ \E y \in Callers : \/ c[y].path = f /\ c[y].owned
                              \/ c[y].pc = "forget" /\ call[c[y].song].path = f
        \/ \E p \in Players : pre[p].path = f /\ pre[p].owned
    BY DEF FilesInv, ScratchOwned
  <2>2. \A y \in Callers : c[y].path = f /\ c[y].owned => y # x
    BY <1>2, <1>5 DEF NotPrepared
  <2>3. path = f => c'[x].path = f /\ c'[x].owned
    BY <1>6, <1>9 DEF Sound
  <2>4. \A y \in Callers \ {x} : c[y].pc = "forget" => c'[y] = c[y] /\ call'[c[y].song] = call[c[y].song]
    BY <1>9, <1>10 DEF Leading
  <2> QED BY <1>9, <2>1, <2>2, <2>3, <2>4
<1>14. WaitersServed'
  <2> SUFFICES ASSUME NEW y \in Callers, c'[y].pc = "wait"
               PROVE  \E z \in Callers : c'[z].song = c'[y].song /\ c'[z].pc \in Fetching
    BY DEF WaitersServed, Fetching
  <2>1. c'[y] = c[y]
    BY <1>6, <1>9
  <2>2. PICK z \in Callers : c[z].song = c[y].song /\ c[z].pc \in Fetching
    BY <2>1 DEF FilesInv, WaitersServed, Fetching
  <2>3. c'[z] = c[z]
    BY <1>1, <1>9, <2>2 DEF Fetching
  <2> QED BY <2>1, <2>2, <2>3
<1>15. FilesKnown'
  <2>1. c[x].out = {}
    BY <1>1, <1>2 DEF Sound
  <2> QED BY <1>1, <1>9, <2>1, QuietKnown
<1>16. before \subseteq entries \X entries
  BY DEF FilesInv, TypeOK
<1>17. TypeOK'
  BY <1>1, <1>7, <1>9, <1>11, <1>16, Types, TypesAfter
<1>18. PrebuffersSound'
  BY <1>1 DEF FilesInv, PrebuffersSound
<1> QED BY <1>11, <1>12, <1>13, <1>14, <1>15, <1>17, <1>18 DEF FilesInv

\* What telling a result leaves: x is about to delete its call, those who waited
\* have returned, nobody else has moved.
Heard(x, path, owned) ==
  LET k == c[x].song IN
  /\ c'[x].pc = "forget" /\ c'[x].song = k /\ c'[x].path = c[x].path /\ c'[x].owned = c[x].owned
  /\ c'[x].out = {} /\ Sound(x, c'[x])
  /\ call'[k].by = x /\ call'[k].done /\ call'[k].path = path /\ call'[k].owned = owned
  /\ \A j \in Songs \ {k} : call'[j] = call[j]
  /\ \A y \in Waiting(x) : /\ Sound(y, c'[y]) /\ c'[y].out = {}
                           /\ c'[y].pc \in {"idle", "publish", "open", "get"}
                           /\ c'[y].pc = "get" => ~c'[y].owned
  /\ \A y \in Callers \ ({x} \cup Waiting(x)) : c'[y] = c[y]

LEMMA CloseTells ==
  ASSUME FilesInv, NEW x \in Callers, c[x].pc \in Fetching, c[x].out = {},
         NEW path \in Paths \cup {None}, NEW owned \in BOOLEAN, owned <=> path \in Callers,
         Close(x, path, owned)
  PROVE  /\ Heard(x, path, owned)
         /\ c' \in [Callers -> CallerRecord] /\ call' \in [Songs -> CallRecord]
         /\ hold' \in [Players -> Paths \cup {None}]
<1> DEFINE k == c[x].song
           r == [c[x] EXCEPT !.pc = "forget", !.tmp = FALSE]
           d == [by |-> x, done |-> TRUE, path |-> path, owned |-> owned]
<1>1. /\ call' = [call EXCEPT ![k] = d]
      /\ c' = [y \in Callers |-> IF y = x THEN r
                                 ELSE IF y \in Waiting(x) THEN Returned(y, path, owned) ELSE c[y]]
      /\ hold' = [p \in Players |-> IF c'[p] = Idle THEN None ELSE hold[p]]
  BY DEF Close, Tell
<1>2. c[x] \in CallerRecord /\ Sound(x, c[x]) /\ k \in Songs
  BY SoundCaller DEF Fetching, Preparing, Leading
<1>3. /\ r \in CallerRecord /\ r.pc = "forget" /\ r.path = c[x].path /\ r.owned = c[x].owned
      /\ r.out = {} /\ r.song = k
  BY <1>2 DEF CallerRecord, PCs, Preparing, Leading
<1>4. Sound(x, r)
  BY <1>2, <1>3 DEF Sound, Fetching, Preparing, Leading
<1>5. d \in CallRecord /\ d.by = x /\ d.done /\ d.path = path /\ d.owned = owned
  BY DEF CallRecord
<1>6. ASSUME NEW y \in Waiting(x)
      PROVE  /\ y \in Callers \ {x} /\ Returned(y, path, owned) \in CallerRecord
             /\ Sound(y, Returned(y, path, owned)) /\ Returned(y, path, owned).out = {}
             /\ Returned(y, path, owned).pc \in {"idle", "publish", "open", "get"}
             /\ Returned(y, path, owned).pc = "get" => ~Returned(y, path, owned).owned
  <2>1. y \in Callers \ {x} /\ c[y].pc \in Preparing
    BY DEF Waiting, Fetching, Preparing
  <2> QED BY <2>1, ReturnedWhat
<1> HIDE DEF r, d
<1>7. c'[x] = r
  BY <1>1
<1>8. \A y \in Waiting(x) : c'[y] = Returned(y, path, owned)
  BY <1>1, <1>6
<1>9. \A y \in Callers \ ({x} \cup Waiting(x)) : c'[y] = c[y]
  BY <1>1
<1>10. call' \in [Songs -> CallRecord] /\ call'[k] = d /\ \A j \in Songs \ {k} : call'[j] = call[j]
  BY <1>1, <1>2, <1>5, Types
<1>11. c' \in [Callers -> CallerRecord]
  <2>1. \A y \in Callers : c[y] \in CallerRecord
    BY Types
  <2> QED BY <1>1, <1>3, <1>6, <2>1
<1>12. hold' \in [Players -> Paths \cup {None}]
  BY <1>1, Types
<1>13. Heard(x, path, owned)
  BY <1>3, <1>4, <1>5, <1>6, <1>7, <1>8, <1>9, <1>10 DEF Heard
<1> QED BY <1>10, <1>11, <1>12, <1>13

LEMMA CloseKeeps ==
  ASSUME FilesInv, NEW x \in Callers, c[x].pc \in Fetching, c[x].out = {},
         NEW path \in Paths \cup {None}, NEW owned \in BOOLEAN, owned <=> path \in Callers,
         Close(x, path, owned),
         disk' \subseteq Paths, disk' \cap Songs \subseteq disk,
         c[x].pc = "commit" => c[x].song \notin disk',
         disk' \cap Callers \subseteq disk \cup {path},
         path \in Callers => \A y \in Callers : c[y].path # path,
         disk \cap Callers \subseteq disk',
         errors' \in 0..MaxErrors, UNCHANGED <<entries, before, pre>>
  PROVE  FilesInv'
<1> DEFINE k == c[x].song
<1>1. /\ Heard(x, path, owned)
      /\ c' \in [Callers -> CallerRecord] /\ call' \in [Songs -> CallRecord]
      /\ hold' \in [Players -> Paths \cup {None}]
  BY CloseTells
<1>2. k \in Songs /\ call[k].by = x /\ c[x].pc \in Leading
  BY SoundCaller DEF Fetching, Preparing, Leading
<1>3. \A y \in Callers \ {x} : c[y].pc \in Leading => c[y].song \in Songs \ {k} /\ y \notin Waiting(x) /\ c'[y] = c[y]
  <2>1. \A y \in Callers \ {x} : c[y].pc \in Leading => c[y].song \in Songs \ {k} /\ y \notin Waiting(x)
    BY <1>2, OneLeader, SoundCaller DEF Preparing, Leading, Waiting
  <2> QED BY <1>1, <2>1 DEF Heard
<1>4. CallersSound'
  <2> SUFFICES ASSUME NEW y \in Callers
               PROVE  /\ Sound(y, c'[y]) /\ (c'[y].pc \in Preparing /\ c'[y].owned => c'[y].path \notin disk')
                      /\ c'[y].pc \in Leading => call'[c'[y].song].by = y
    BY DEF CallersSound, NotPrepared, Sound
  <2>0. ASSUME c[y].pc \in Preparing, c[y].owned
        PROVE  c[y].path \notin disk'
    <3>1. c[y].path \in Callers /\ c[y].path \notin disk
      BY <2>0, SoundCaller DEF Sound, NotPrepared
    <3> QED BY <3>1
  <2>1. CASE y = x
    BY <1>1, <1>2, <2>0, <2>1 DEF Heard, Preparing, Leading
  <2>2. CASE y \in Waiting(x)
    BY <1>1, <2>2 DEF Heard, Preparing, Leading
  <2>3. CASE y \notin {x} \cup Waiting(x)
    BY <1>1, <1>3, <2>0, <2>3, SoundCaller DEF Heard
  <2> QED BY <2>1, <2>2, <2>3
<1>5. CallsSound'
  <2> SUFFICES ASSUME NEW j \in Songs
               PROVE  /\ call'[j].owned <=> call'[j].path \in Callers
                      /\ call'[j].by # None /\ ~call'[j].done =>
                           c'[call'[j].by].song = j /\ c'[call'[j].by].pc \in Fetching
    BY DEF CallsSound
  <2>1. CASE j = k
    BY <1>1, <2>1 DEF Heard
  <2>2. CASE j # k
    <3>1. /\ call[j].owned <=> call[j].path \in Callers
          /\ call[j].by # None /\ ~call[j].done => c[call[j].by].song = j /\ c[call[j].by].pc \in Fetching
      BY DEF FilesInv, CallsSound
    <3>2. call[j].by # None => call[j].by \in Callers
      BY Types DEF CallRecord
    <3>3. call'[j] = call[j]
      BY <1>1, <2>2 DEF Heard
    <3> QED BY <1>3, <2>2, <3>1, <3>2, <3>3 DEF Fetching, Leading
  <2> QED BY <2>1, <2>2
<1>6. ScratchOwned'
  <2> SUFFICES ASSUME NEW f \in disk' \cap Callers
               PROVE  \/ \E y \in Callers : \/ c'[y].path = f /\ c'[y].owned
                                            \/ c'[y].pc = "forget" /\ call'[c'[y].song].path = f
                      \/ \E p \in Players : pre[p].path = f /\ pre[p].owned
    BY DEF ScratchOwned
  <2>1. CASE f = path
    BY <1>1, <2>1 DEF Heard
  <2>2. CASE f # path
    <3>1. \/ \E y \in Callers : \/ c[y].path = f /\ c[y].owned
                                \/ c[y].pc = "forget" /\ call[c[y].song].path = f
          \/ \E p \in Players : pre[p].path = f /\ pre[p].owned
      BY <2>2 DEF FilesInv, ScratchOwned
    <3>2. f \in disk
      BY <2>2
    <3>3. \A y \in Callers : c[y].path = f /\ c[y].owned => c'[y] = c[y]
      <4>1. \A y \in Callers : c[y].path = f /\ c[y].owned => c[y].pc \notin Preparing
        BY <3>2, SoundCaller DEF NotPrepared
      <4>2. x \in Callers /\ c[x].pc \in Preparing /\ \A y \in Waiting(x) : c[y].pc \in Preparing
        BY <1>2 DEF Preparing, Waiting
      <4> QED BY <1>1, <4>1, <4>2 DEF Heard
    <3>4. \A y \in Callers : c[y].pc = "forget" => c'[y] = c[y] /\ call'[c[y].song] = call[c[y].song]
      <4>1. c[x].pc # "forget"
        BY DEF Fetching
      <4> QED BY <1>1, <1>3, <4>1 DEF Heard, Leading
    <3> QED BY <3>1, <3>3, <3>4
  <2> QED BY <2>1, <2>2
<1>7. WaitersServed'
  <2> SUFFICES ASSUME NEW y \in Callers, c'[y].pc = "wait"
               PROVE  \E z \in Callers : c'[z].song = c'[y].song /\ c'[z].pc \in Fetching
    BY DEF WaitersServed, Fetching
  <2>1. y \notin {x} \cup Waiting(x) /\ c'[y] = c[y]
    BY <1>1 DEF Heard
  <2>2. PICK z \in Callers : c[z].song = c[y].song /\ c[z].pc \in Fetching
    BY <2>1 DEF FilesInv, WaitersServed, Fetching
  <2>3. z # x
    BY <2>1, <2>2 DEF Waiting
  <2>4. c'[z] = c[z]
    BY <1>3, <2>2, <2>3 DEF Fetching, Leading
  <2> QED BY <2>1, <2>2, <2>4
<1>8. FilesKnown'
  <2> SUFFICES ASSUME NEW j \in disk' \cap Songs
               PROVE  j \in entries \cup Leaving' \/ \E y \in Callers : c'[y].pc = "commit" /\ c'[y].song = j
    BY DEF FilesKnown
  <2>1. j \in entries \cup Leaving \/ \E y \in Callers : c[y].pc = "commit" /\ c[y].song = j
    BY DEF FilesInv, FilesKnown
  <2>2. Leaving \subseteq Leaving'
    <3>1. \A y \in Waiting(x) : c[y].out = {}
      BY SoundCaller DEF Waiting, Sound
    <3>2. \A y \in Callers : c[y].out \subseteq c'[y].out
      BY <1>1, <3>1 DEF Heard
    <3> QED BY <3>2 DEF Leaving
  <2>3. \A y \in Callers : c[y].pc = "commit" /\ c[y].song = j => c'[y] = c[y]
    BY <1>3 DEF Leading
  <2> QED BY <2>1, <2>2, <2>3
<1>9. before \subseteq entries \X entries
  BY DEF FilesInv, TypeOK
<1>10. TypeOK'
  BY <1>1, <1>4, <1>9, Types, TypesAfter
<1>11. PrebuffersSound'
  BY DEF FilesInv, PrebuffersSound
<1> QED BY <1>4, <1>5, <1>6, <1>7, <1>8, <1>10, <1>11 DEF FilesInv

LEMMA FailsType == ASSUME FilesInv, Fails \/ errors' = errors PROVE errors' \in 0..MaxErrors
<1>1. errors \in 0..MaxErrors
  BY Types
<1>2. errors' = errors \/ (errors < MaxErrors /\ errors' = errors + 1)
  BY DEF Fails
<1> QED BY <1>1, <1>2

\* The ways a download ends without a scratch file.
LEMMA EndKeeps ==
  ASSUME FilesInv, NEW x \in Callers,
         DownloadFails(x) \/ JobLost(x) \/ MetaFails(x) \/ PutReturns(x)
  PROVE  FilesInv'
<1> DEFINE k == c[x].song
<1>1. c[x].pc \in Fetching /\ UNCHANGED <<entries, before, pre>> /\ disk' \in {disk, disk \ {k}}
  BY DEF DownloadFails, JobLost, MetaFails, PutReturns, Fetching, lru
<1>2. c[x].out = {}
  BY SoundCaller DEF DownloadFails, JobLost, MetaFails, PutReturns, Sound
<1>3. c[x].pc = "commit" => k \notin disk'
  BY DEF DownloadFails, JobLost, MetaFails, PutReturns
<1>4. k \in Songs /\ k \notin Callers /\ None \notin Callers
  BY <1>1, SoundCaller DEF Fetching, Preparing, Leading
<1>5. Fails \/ errors' = errors
  BY DEF DownloadFails, JobLost, MetaFails, PutReturns
<1>6. Close(x, None, FALSE) \/ Close(x, k, FALSE)
  BY DEF DownloadFails, JobLost, MetaFails, PutReturns
<1>7. PICK path \in {None, k} : Close(x, path, FALSE)
  BY <1>6
<1>8. path \in Paths \cup {None} /\ path \notin Callers
  BY <1>4, <1>7 DEF Paths
<1>9. /\ disk' \subseteq Paths /\ disk' \cap Songs \subseteq disk
      /\ disk' \cap Callers \subseteq disk /\ disk \cap Callers \subseteq disk'
  BY <1>1, <1>4, Types
<1>10. errors' \in 0..MaxErrors
  BY <1>5, FailsType
<1> QED BY <1>1, <1>2, <1>3, <1>7, <1>8, <1>9, <1>10, CloseKeeps

LEMMA PutFailsKeeps ==
  ASSUME FilesInv, NEW x \in Callers, PutFails(x) PROVE FilesInv'
<1>1. /\ c[x].pc = "download" /\ Fails /\ \A y \in Callers : c[y].path # x
      /\ disk' = disk \cup {x} /\ Close(x, x, TRUE) /\ UNCHANGED <<entries, before, pre>>
  BY DEF PutFails, lru
<1>2. c[x].out = {} /\ c[x].pc \in Fetching
  BY <1>1, SoundCaller DEF Sound, Fetching
<1>3. errors' \in 0..MaxErrors
  BY <1>1, FailsType
<1>4. x \in Paths /\ x \notin Songs
  BY DEF Paths
<1>5. disk' \subseteq Paths
  BY <1>1, <1>4, Types
<1> QED BY <1>1, <1>2, <1>3, <1>4, <1>5, CloseKeeps

-----------------------------------------------------------------------------
(***************************************************************************)
(* The theorems.                                                           *)
(***************************************************************************)

LEMMA PrepareKeeps ==
  ASSUME FilesInv, NEW x \in Callers, Prepare(x) PROVE FilesInv'
BY GetHitsKeeps, GetMissesKeeps, LeadKeeps, JoinDoneKeeps, JoinKeeps, JoinEndedKeeps, EndKeeps,
   PutFileKeeps, PutFailsKeeps, CommitKeeps, RemoveEvictedKeeps, ForgetKeeps DEF Prepare

LEMMA StepKeeps == ASSUME FilesInv, [Next]_vars PROVE FilesInv'
<1>1. ASSUME NEW w \in Workers, WorkerStep(w) PROVE FilesInv'
  BY <1>1, PrepareKeeps, PublishKeeps, DiscardKeeps DEF WorkerStep, Callers
<1>2. ASSUME NEW p \in Players,
             \/ PlayerStep(p) \/ TakePrepared(p) \/ StreamEnds(p) \/ StopStart(p) \/ PrebufferCancel(p)
      PROVE  FilesInv'
  <2>1. CASE Prepare(p)
    BY <2>1, PrepareKeeps DEF Callers
  <2> QED BY <1>2, <2>1, OpenKeeps, OpenFailsKeeps, EndsKeeps, TakePreparedKeeps, StopStartKeeps, CancelKeeps
          DEF PlayerStep
<1>3. ASSUME NEW p \in Players, NEW k \in Songs,
             Select(p, k) \/ \E w \in Workers : PrebufferStart(p, w, k)
      PROVE  FilesInv'
  BY <1>3, SelectKeeps, StartKeeps
<1>4. CASE CleanBuffers
  BY <1>4, CleanKeeps
<1>5. CASE UNCHANGED vars
  BY <1>5, NobodyMoves, Types DEF vars, lru, FilesInv, PrebuffersSound
<1> QED BY <1>1, <1>2, <1>3, <1>4, <1>5 DEF Next

LEMMA InitFilesInv == ASSUME Init PROVE FilesInv
<1>1. \A x \in Callers : c[x] = Idle
  BY DEF Init
<1>2. NoCall \in CallRecord /\ NoCall.by = None /\ ~NoCall.owned /\ NoCall.path = None /\ None \notin Callers
  BY DEF NoCall, CallRecord
<1>3. CallersSound
  BY <1>1, IdleIsSound DEF CallersSound, Leading
<1>4. CallsSound /\ ScratchOwned /\ FilesKnown
  BY <1>2 DEF Init, CallsSound, ScratchOwned, FilesKnown
<1>5. PrebuffersSound
  BY NoPrebufferIsSound DEF Init, PrebuffersSound, NoPrebuffer
<1>6. WaitersServed
  BY <1>1, IdleIsSound DEF WaitersServed
<1>7. TypeOK
  <2>1. c \in [Callers -> CallerRecord] /\ call \in [Songs -> CallRecord] /\ pre \in [Players -> PreRecord]
    BY <1>2, IdleIsSound, NoPrebufferIsSound DEF Init
  <2>2. \A x \in Callers : c[x].owned => c[x].path \in Callers
    BY <1>1, IdleIsSound
  <2> QED BY <2>1, <2>2 DEF TypeOK, CallerRecord, CallRecord, PreRecord, Init
<1> QED BY <1>3, <1>4, <1>5, <1>6, <1>7 DEF FilesInv

THEOREM FilesInvAlways == Spec => []FilesInv
<1>1. Init => FilesInv
  BY InitFilesInv
<1>2. FilesInv /\ [Next]_vars => FilesInv'
  BY StepKeeps
<1> QED BY <1>1, <1>2, PTL DEF Spec

\* The types of the cache, its callers, its calls and the prebuffers (cache.go,
\* prebuffer.go).
THEOREM TypeCorrect == Spec => []TypeOK
<1>1. FilesInv => TypeOK
  BY DEF FilesInv
<1> QED BY <1>1, FilesInvAlways, PTL

\* Every song on disk is known to the index or about to go, every scratch file has
\* an owner who will remove it, and whoever waits for the download of another is
\* waited for by one who leads it (cache.go:310-605, prebuffer.go:115).
THEOREM FilesLookedAfterAlways == Spec => []FilesLookedAfter
<1>1. FilesInv => FilesLookedAfter
  BY DEF FilesInv, FilesLookedAfter
<1> QED BY <1>1, FilesInvAlways, PTL

\* What a step takes out of the cache: its eviction chooses no song in use, and a
\* file goes because an eviction chose it or because its Put fails.
Spares ==
  /\ \A y \in Callers : \A k \in c'[y].out : k \in c[y].out \/ ~InUse(k)
  /\ \A k \in disk \cap Songs :
       \/ k \in disk' \/ k \in Leaving
       \/ \E x \in Callers : c[x].pc = "commit" /\ c[x].song = k

LEMMA OneSpares ==
  ASSUME FilesInv, NEW x \in Callers, NEW r, c' = [c EXCEPT ![x] = r],
         \A k \in r.out : k \in c[x].out \/ ~InUse(k), disk \cap Songs \subseteq disk'
  PROVE  Spares
<1>1. \A y \in Callers : c'[y] = IF y = x THEN r ELSE c[y]
  BY Types
<1> QED BY <1>1 DEF Spares

LEMMA ReturnSpares ==
  ASSUME FilesInv, NEW x \in Callers, c[x].pc \in Preparing,
         NEW path \in Paths \cup {None}, NEW owned \in BOOLEAN, owned <=> path \in Callers,
         Return(x, path, owned), disk' = disk
  PROVE  Spares
<1>1. Returned(x, path, owned).out = {}
  BY ReturnedWhat
<1>2. c' = [c EXCEPT ![x] = Returned(x, path, owned)]
  BY DEF Return
<1> QED BY <1>1, <1>2, OneSpares

LEMMA CloseSpares ==
  ASSUME FilesInv, NEW x \in Callers, c[x].pc \in Fetching, c[x].out = {},
         NEW path \in Paths \cup {None}, NEW owned \in BOOLEAN, owned <=> path \in Callers,
         Close(x, path, owned), disk \cap Songs \subseteq disk' \cup {c[x].song},
         c[x].pc = "commit" \/ disk \cap Songs \subseteq disk'
  PROVE  Spares
<1>1. Heard(x, path, owned)
  BY CloseTells
<1> QED BY <1>1 DEF Spares, Heard

LEMMA PrepareSpares ==
  ASSUME FilesInv, NEW x \in Callers, Prepare(x) PROVE Spares
<1> DEFINE k == c[x].song
<1>1. c[x] \in CallerRecord /\ Sound(x, c[x]) /\ (c[x].pc \in Preparing => k \in Songs)
  BY SoundCaller
<1>2. None \notin Callers /\ (k \in Songs => k \notin Callers /\ k \in Paths)
  BY DEF Paths
<1>3. k \in Songs => /\ call[k].path \in Paths \cup {None} /\ call[k].owned \in BOOLEAN
                     /\ call[k].owned <=> call[k].path \in Callers
  BY Types DEF CallRecord, FilesInv, CallsSound
<1>4. CASE GetHits(x)
  BY <1>1, <1>2, <1>4, ReturnSpares DEF GetHits, Preparing
<1>5. CASE JoinDone(x)
  BY <1>1, <1>3, <1>5, ReturnSpares DEF JoinDone, Preparing
<1>6. CASE JoinEnded(x)
  BY <1>1, <1>2, <1>6, ReturnSpares DEF JoinEnded, Preparing
<1>7. CASE Forget(x)
  BY <1>1, <1>3, <1>7, ReturnSpares DEF Forget, Preparing, Leading
<1>8. CASE GetMisses(x)
  <2> DEFINE r == [c[x] EXCEPT !.pc = "join"]
  <2>1. c' = [c EXCEPT ![x] = r] /\ disk \subseteq disk'
    BY <1>8, Types, <1>1 DEF GetMisses, Goto, CallerRecord
  <2>2. r.out = c[x].out
    BY <1>1 DEF CallerRecord
  <2> HIDE DEF r
  <2> QED BY <2>1, <2>2, OneSpares
<1>9. CASE Join(x)
  <2> DEFINE r == [c[x] EXCEPT !.pc = "wait"]
  <2>1. c' = [c EXCEPT ![x] = r] /\ disk \subseteq disk'
    BY <1>9, Types, <1>1 DEF Join, Goto, CallerRecord
  <2>2. r.out = c[x].out
    BY <1>1 DEF CallerRecord
  <2> HIDE DEF r
  <2> QED BY <2>1, <2>2, OneSpares
<1>10. CASE Lead(x)
  <2> DEFINE r == [c[x] EXCEPT !.pc = "download", !.tmp = TRUE]
  <2>1. c' = [c EXCEPT ![x] = r] /\ disk \subseteq disk'
    BY <1>10, Types, <1>1 DEF Lead, CallerRecord
  <2>2. r.out = c[x].out
    BY <1>1 DEF CallerRecord
  <2> HIDE DEF r
  <2> QED BY <2>1, <2>2, OneSpares
<1>11. CASE PutFile(x)
  <2> DEFINE r == [c[x] EXCEPT !.pc = "commit", !.tmp = FALSE]
  <2>1. c' = [c EXCEPT ![x] = r] /\ disk \subseteq disk'
    BY <1>11, Types, <1>1 DEF PutFile, CallerRecord
  <2>2. r.out = c[x].out
    BY <1>1 DEF CallerRecord
  <2> HIDE DEF r
  <2> QED BY <2>1, <2>2, OneSpares
<1>12. CASE DownloadFails(x) \/ JobLost(x) \/ MetaFails(x) \/ PutReturns(x) \/ PutFails(x)
  <2>1. c[x].pc \in Fetching /\ c[x].out = {}
    BY <1>1, <1>12 DEF DownloadFails, JobLost, MetaFails, PutReturns, PutFails, Fetching, Sound
  <2>2. \/ Close(x, None, FALSE) \/ Close(x, k, FALSE) \/ Close(x, x, TRUE)
    BY <1>12 DEF DownloadFails, JobLost, MetaFails, PutReturns, PutFails
  <2>3. /\ disk \cap Songs \subseteq disk' \cup {k}
        /\ c[x].pc = "commit" \/ disk \cap Songs \subseteq disk'
    BY <1>12 DEF DownloadFails, JobLost, MetaFails, PutReturns, PutFails
  <2>4. k \in Songs /\ x \in Paths
    BY <1>1, <2>1 DEF Fetching, Preparing, Leading, Paths
  <2>5. CASE Close(x, None, FALSE)
    BY <1>2, <2>1, <2>3, <2>5, CloseSpares
  <2>6. CASE Close(x, k, FALSE)
    BY <1>2, <2>1, <2>3, <2>4, <2>6, CloseSpares
  <2>7. CASE Close(x, x, TRUE)
    BY <2>1, <2>3, <2>4, <2>7, CloseSpares
  <2> QED BY <2>2, <2>5, <2>6, <2>7
<1>13. CASE Commit(x)
  <2> DEFINE S == entries \cup {k}
  <2>1. PICK out \in SUBSET S :
          /\ Evicts(S, Touched(S, k), out)
          /\ c' = [c EXCEPT ![x].pc = "remove", ![x].out = out]
    BY <1>13 DEF Commit
  <2>2. c' = [c EXCEPT ![x] = [c[x] EXCEPT !.pc = "remove", !.out = out]]
    BY <2>1, Types DEF CallerRecord
  <2>3. [c[x] EXCEPT !.pc = "remove", !.out = out].out = out
    BY <1>1 DEF CallerRecord
  <2>4. \A j \in out : ~InUse(j)
    BY <2>1 DEF Evicts, Sparable
  <2>5. disk' = disk
    BY <1>13 DEF Commit
  <2> QED BY <2>2, <2>3, <2>4, <2>5, OneSpares
<1>14. CASE RemoveEvicted(x)
  <2>1. PICK j \in c[x].out : disk' = disk \ {j} /\ c' = [c EXCEPT ![x].out = @ \ {j}]
    BY <1>14 DEF RemoveEvicted
  <2>2. \A y \in Callers : c'[y].out \subseteq c[y].out
    <3>1. \A y \in Callers : c'[y] = IF y = x THEN [c[x] EXCEPT !.out = @ \ {j}] ELSE c[y]
      BY <2>1, Types
    <3> QED BY <1>1, <3>1 DEF CallerRecord
  <2> QED BY <2>1, <2>2 DEF Spares, Leaving
<1> QED BY <1>4, <1>5, <1>6, <1>7, <1>8, <1>9, <1>10, <1>11, <1>12, <1>13, <1>14 DEF Prepare

LEMMA MineIsScratch ==
  ASSUME FilesInv
  PROVE  /\ \A x \in Callers : Mine(c[x]) \cap Songs = {}
         /\ \A p \in Players : Mine(pre[p]) \cap Songs = {}
BY SoundCaller DEF Mine, Sound, FilesInv, PrebuffersSound

LEMMA StepSpares == ASSUME FilesInv, [Next]_vars PROVE Spares
<1>i. Idle.out = {}
  BY IdleIsSound
<1>p. Players \subseteq Callers /\ Workers \subseteq Callers
  BY DEF Callers
<1>1. ASSUME NEW w \in Workers, WorkerStep(w) PROVE Spares
  <2>1. CASE Prepare(w)
    BY <1>p, <2>1, PrepareSpares
  <2>2. CASE Publish(w)
    BY <1>i, <1>p, <2>2, OneSpares DEF Publish
  <2>3. CASE Discard(w)
    BY <1>i, <1>p, <2>3, MineIsScratch, OneSpares DEF Discard
  <2> QED BY <1>1, <2>1, <2>2, <2>3 DEF WorkerStep
<1>2. ASSUME NEW p \in Players, PlayerStep(p) PROVE Spares
  <2>0. c[p] \in CallerRecord
    BY <1>p, SoundCaller
  <2>1. CASE Prepare(p)
    BY <1>p, <2>1, PrepareSpares
  <2>2. CASE Open(p)
    <3> DEFINE r == [c[p] EXCEPT !.pc = "play", !.song = None, !.tries = 0]
    <3>1. c' = [c EXCEPT ![p] = r] /\ disk \subseteq disk'
      BY <2>2 DEF Open
    <3>2. r.out = c[p].out
      BY <2>0 DEF CallerRecord
    <3> HIDE DEF r
    <3> QED BY <1>p, <3>1, <3>2, OneSpares
  <2>3. CASE OpenFails(p)
    <3> DEFINE r == IF c[p].path \in disk THEN [c[p] EXCEPT !.tries = @ + 1]
                    ELSE [c[p] EXCEPT !.tries = @ + 1, !.pc = "get"]
    <3>1. c' = [c EXCEPT ![p] = r] /\ disk \subseteq disk'
      BY <2>3 DEF OpenFails
    <3>2. r.out = c[p].out
      BY <2>0 DEF CallerRecord
    <3> HIDE DEF r
    <3> QED BY <1>p, <3>1, <3>2, OneSpares
  <2>4. CASE GiveUp(p)
    BY <1>i, <1>p, <2>4, MineIsScratch, OneSpares DEF GiveUp
  <2> QED BY <1>2, <2>1, <2>2, <2>3, <2>4 DEF PlayerStep
<1>3. ASSUME NEW p \in Players, TakePrepared(p) PROVE Spares
  <2> DEFINE r == IF pre[p].path \in disk
                  THEN [Idle EXCEPT !.pc = "open", !.song = pre[p].song,
                                    !.path = pre[p].path, !.owned = pre[p].owned]
                  ELSE [Idle EXCEPT !.pc = "get", !.song = pre[p].song]
  <2>1. c' = [c EXCEPT ![p] = r] /\ disk' = disk
    BY <1>3 DEF TakePrepared
  <2>2. r.out = {}
    BY DEF Idle
  <2> HIDE DEF r
  <2> QED BY <1>p, <2>1, <2>2, OneSpares
<1>4. ASSUME NEW p \in Players, StreamEnds(p) PROVE Spares
  BY <1>4, <1>i, <1>p, MineIsScratch, OneSpares DEF StreamEnds
<1>5. ASSUME NEW p \in Players, StopStart(p) PROVE Spares
  <2>0. c[p] \in CallerRecord
    BY <1>p, SoundCaller
  <2> DEFINE r == [c[p] EXCEPT !.ended = TRUE]
  <2>1. c' = [c EXCEPT ![p] = r] /\ disk \subseteq disk'
    BY <1>5, Types, <2>0 DEF StopStart, CallerRecord
  <2>2. r.out = c[p].out
    BY <2>0 DEF CallerRecord
  <2> HIDE DEF r
  <2> QED BY <1>p, <2>1, <2>2, OneSpares
<1>6. ASSUME NEW p \in Players, PrebufferCancel(p) PROVE Spares
  BY <1>6, CancelledWhat, MineIsScratch DEF PrebufferCancel, Spares
<1>7. ASSUME NEW p \in Players, NEW k \in Songs, Select(p, k) PROVE Spares
  <2> DEFINE r == [Idle EXCEPT !.pc = "get", !.song = k]
  <2>1. c' = [c EXCEPT ![p] = r] /\ disk' = disk
    BY <1>7 DEF Select
  <2>2. r.out = {}
    BY DEF Idle
  <2> HIDE DEF r
  <2> QED BY <1>p, <2>1, <2>2, OneSpares
<1>8. ASSUME NEW p \in Players, NEW k \in Songs, NEW w \in Workers, PrebufferStart(p, w, k) PROVE Spares
  <2> DEFINE r == [Idle EXCEPT !.pc = "get", !.song = k]
  <2>1. c' = [Cancelled(p) EXCEPT ![w] = r] /\ disk' = disk \ Mine(pre[p])
    BY <1>8 DEF PrebufferStart
  <2>2. r.out = {}
    BY DEF Idle
  <2> HIDE DEF r
  <2>3. \A y \in Callers : c'[y] = IF y = w THEN r ELSE Cancelled(p)[y]
    BY <2>1, CancelledWhat
  <2>4. \A y \in Callers : c'[y].out \subseteq c[y].out
    BY <2>2, <2>3, CancelledWhat
  <2>5. disk \cap Songs \subseteq disk'
    BY <2>1, MineIsScratch
  <2> QED BY <2>4, <2>5 DEF Spares
<1>9. CASE CleanBuffers
  <2>1. \A y \in Callers : c'[y].out = c[y].out
    BY <1>9, Types DEF CleanBuffers, CallerRecord
  <2> QED BY <1>9, <2>1 DEF CleanBuffers, Spares
<1>10. CASE UNCHANGED vars
  BY <1>10 DEF vars, Spares
<1> QED BY <1>1, <1>2, <1>3, <1>4, <1>5, <1>6, <1>7, <1>8, <1>9, <1>10 DEF Next

\* A song that is leased, prepared or played is not evicted: an eviction decided
\* before it came into use, or a Put of it that fails, is all that takes its file
\* (cache.go:413).
THEOREM HeldFileStaysAlways == Spec => HeldFileStays
<1>1. ASSUME FilesInv, [Next]_vars, NEW k \in Songs, InUse(k), k \in disk, k \notin Leaving
      PROVE  /\ k \notin Leaving'
             /\ k \in disk' \/ \E x \in Callers : c[x].pc = "commit" /\ c[x].song = k
  <2>1. Spares
    BY <1>1, StepSpares
  <2>2. k \notin Leaving'
    BY <1>1, <2>1 DEF Spares, Leaving
  <2> QED BY <1>1, <2>1, <2>2 DEF Spares
<1>2. FilesInv /\ [Next]_vars =>
        [\A k \in Songs : (InUse(k) /\ k \in disk /\ k \notin Leaving)
           => /\ k \notin Leaving'
              /\ k \in disk' \/ \E x \in Callers : c[x].pc = "commit" /\ c[x].song = k]_vars
  BY <1>1
<1> QED BY <1>2, FilesInvAlways, PTL DEF Spec, HeldFileStays
=============================================================================
