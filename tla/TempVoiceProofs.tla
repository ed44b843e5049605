--------------------------- MODULE TempVoiceProofs ---------------------------
(***************************************************************************)
(* Proofs about TempVoice, for any users, rooms and goroutines: memory and *)
(* Discord agree on which rooms there are, whose they are and who will     *)
(* delete them (RoomsAreKept).                                             *)
(*                                                                         *)
(* A room that exists is around somebody, who is in it or yet to be seen   *)
(* leaving it, or a goroutine deals with it; a goroutine lets go of a room *)
(* only if somebody is seen in it, another one is about to track it, or it *)
(* is gone.  A room that is about to be tracked is in no other goroutine's *)
(* hands, so nothing that a goroutine decided about a room is overwritten. *)
(***************************************************************************)
EXTENDS TempVoice, FiniteSetTheorems, TLAPS

USE VoiceAssumption

(***************************************************************************)
(* The inductive invariant.                                                *)
(***************************************************************************)

Rooming == Creation \ {"create"}
Deleting == {"delete", "remove"}
Leaving == Deleting \cup {"leave"}
Handing == {"transfer", "persist"}

\* What a goroutine holds, by where it is; what it deleted is gone, or given up.
Sound(j) ==
  LET w == jobs[j] IN
  /\ w.pc \notin Handing \cup {"idle"} => w.user \in Users
  /\ w.room \in made \cup {None}
  /\ w.pc \in Rooming \cup Handing => w.room \in made
  /\ w.pc \in {"join", "create"} => w.room = None
  /\ w.pc \in Leaving => w.from \in Rooms
  /\ w.pc \in Deleting => w.from \in made
  /\ w.pc \in Handing => w.to \in Users
  /\ w.pc = "persist" => w.old \in Users
  /\ w.pc = "remove" => w.from \notin rooms \ lost
  /\ w.pc = "untrack" => w.room \notin rooms \ lost

JobsSound == \A j \in Jobs : Sound(j)

ActiveWasMade == \A c \in Rooms : active[c] # None => c \in made

\* Nobody else has to do with a room before it is tracked.
NewIsNobodys ==
  \A j \in Jobs : At(j, "track") =>
    /\ active[jobs[j].room] = None
    /\ \A i \in Jobs :
         /\ i # j => jobs[i].room # jobs[j].room
         /\ jobs[i].pc \in Deleting => jobs[i].from # jobs[j].room

\* creationLocks: a user has one room in the making.
OneCreator ==
  \A j \in Jobs : jobs[j].pc \in Creation =>
    /\ jobs[j].user \in creating
    /\ \A i \in Jobs : jobs[i].pc \in Creation /\ jobs[i].user = jobs[j].user => i = j

\* Until it is tracked, and unless a room came from elsewhere, it is the only one.
NoneBefore ==
  \A j \in Jobs :
    jobs[j].pc \in {"create", "track"} /\ jobs[j].user \notin received => owned[jobs[j].user] = None

ActiveIsOwned == \A u \in Users \ received, c \in Rooms : active[c] = u => owned[u] = c

DownIsQuiet == ~up => rooms \subseteq lost /\ \A j \in Jobs : jobs[j] = Idle

\* u is in c, or was where the bot has yet to see it leave.
Around(u, c) == seen[u] = c \/ \E i \in 1..Len(wire[u]) : wire[u][i] = c

Handles(j, c) ==
  \/ jobs[j].pc \notin Handing \cup {"idle"} /\ jobs[j].from = c
  \/ jobs[j].pc \in Creation /\ jobs[j].room = c

KnownOrNew == \A c \in rooms \ lost : active[c] # None \/ \E j \in Jobs : At(j, "track") /\ jobs[j].room = c

LookedAfter == \A c \in rooms \ lost : (\E u \in Users : Around(u, c)) \/ \E j \in Jobs : Handles(j, c)

VoiceInv ==
  /\ TypeOK
  /\ JobsSound /\ ActiveWasMade /\ NewIsNobodys
  /\ OneCreator /\ NoneBefore /\ OwnersAgree /\ ActiveIsOwned
  /\ DownIsQuiet /\ KnownOrNew /\ LookedAfter

-----------------------------------------------------------------------------
(***************************************************************************)
(* What the property says of a state.                                      *)
(***************************************************************************)

LEMMA PathFacts ==
  ASSUME TypeOK, NEW u \in Users
  PROVE  /\ Len(wire[u]) \in Nat /\ Len(Path(u)) = Len(wire[u]) + 1
         /\ Path(u)[1] = seen[u]
         /\ \A i \in 1..Len(wire[u]) : Path(u)[i + 1] = wire[u][i]
<1>1. wire[u] \in Seq(Channels) /\ seen[u] \in Channels
  BY DEF TypeOK
<1> QED
  BY <1>1 DEF Path

\* Who is around a room is in it, or was there and is yet to be seen elsewhere.
LEMMA AroundIs ==
  ASSUME TypeOK, NEW u \in Users, NEW c
  PROVE  Around(u, c) <=> Where(u) = c \/ \E i \in 1..Len(wire[u]) : Path(u)[i] = c
<1> DEFINE n == Len(wire[u])
<1>1. /\ n \in Nat /\ Len(Path(u)) = n + 1 /\ Path(u)[1] = seen[u]
      /\ \A i \in 1..n : Path(u)[i + 1] = wire[u][i]
  BY PathFacts
<1> HIDE DEF n
<1>2. Where(u) = Path(u)[n + 1]
  BY <1>1 DEF Where
<1>3. Around(u, c) <=> Path(u)[1] = c \/ \E i \in 1..n : Path(u)[i + 1] = c
  BY <1>1 DEF Around, n
<1>4. ASSUME Path(u)[1] = c \/ \E i \in 1..n : Path(u)[i + 1] = c
      PROVE  Path(u)[n + 1] = c \/ \E i \in 1..n : Path(u)[i] = c
  <2>1. PICK k \in 1..(n + 1) : Path(u)[k] = c
    BY <1>1, <1>4
  <2>2. CASE k = n + 1
    BY <2>1, <2>2
  <2>3. CASE k # n + 1
    <3>1. k \in 1..n
      BY <1>1, <2>3
    <3> QED
      BY <2>1, <3>1
  <2> QED
    BY <2>2, <2>3
<1>5. ASSUME Path(u)[n + 1] = c \/ \E i \in 1..n : Path(u)[i] = c
      PROVE  Path(u)[1] = c \/ \E i \in 1..n : Path(u)[i + 1] = c
  <2>1. PICK k \in 1..(n + 1) : Path(u)[k] = c
    BY <1>1, <1>5
  <2>2. CASE k = 1
    BY <2>1, <2>2
  <2>3. CASE k # 1
    <3>1. k - 1 \in 1..n /\ (k - 1) + 1 = k
      BY <1>1, <2>3
    <3> QED
      BY <2>1, <3>1
  <2> QED
    BY <2>2, <2>3
<1> QED
  BY <1>2, <1>3, <1>4, <1>5 DEF n

LEMMA SafeState == VoiceInv => RoomsAreKept
<1> SUFFICES ASSUME VoiceInv PROVE RoomsAreKept
  OBVIOUS
<1>1. TypeOK
  BY DEF VoiceInv
<1>2. ASSUME NEW c \in rooms \ lost
      PROVE  Inside(c) # {} \/ Watched(c)
  <2>1. CASE \E u \in Users : Around(u, c)
    <3>1. PICK u \in Users : Around(u, c)
      BY <2>1
    <3>2. Where(u) = c \/ \E i \in 1..Len(wire[u]) : Path(u)[i] = c
      BY <1>1, <3>1, AroundIs
    <3> QED
      BY <3>2 DEF Inside, Watched
  <2>2. CASE \E j \in Jobs : Handles(j, c)
    <3>1. PICK j \in Jobs : Handles(j, c)
      BY <2>2
    <3>2. jobs[j].pc \notin Handing \cup {"idle"} /\ c \in {jobs[j].from, jobs[j].room}
      BY <3>1 DEF Handles, Creation, Handing
    <3>3. jobs[j] # Idle /\ ~At(j, "transfer") /\ ~At(j, "persist")
      BY <3>2 DEF Handing, At, Idle
    <3> QED
      BY <3>2, <3>3 DEF Watched
  <2> QED
    BY <2>1, <2>2 DEF VoiceInv, LookedAfter
<1>3. RoomsAreLookedAfter
  BY <1>2 DEF VoiceInv, KnownOrNew, RoomsAreLookedAfter
<1>4. ASSUME NEW u \in Users \ received
      PROVE  Cardinality({c \in Rooms : active[c] = u}) <= 1
  <2> DEFINE S == {c \in Rooms : active[c] = u}
  <2>1. S \subseteq {owned[u]}
    BY DEF VoiceInv, ActiveIsOwned
  <2>2. IsFiniteSet({owned[u]}) /\ Cardinality({owned[u]}) = 1
    BY FS_Singleton
  <2> HIDE DEF S
  <2>3. Cardinality(S) <= Cardinality({owned[u]})
    BY <2>1, <2>2, FS_Subset
  <2> QED
    BY <2>2, <2>3 DEF S
<1> QED
  BY <1>3, <1>4 DEF VoiceInv, RoomsAreKept, OneRoomEach

(***************************************************************************)
(* The state without its goroutines, and steps of one goroutine.           *)
(***************************************************************************)

Job == [pc : PCs, user : Users \cup {None}, from : Channels \cup {None},
        room : Rooms \cup {None}, to : Users \cup {None}, old : Users \cup {None}]

World ==
  /\ up \in BOOLEAN /\ rooms \subseteq made /\ made \subseteq Rooms
  /\ seen \in [Users -> Channels] /\ wire \in [Users -> Seq(Channels)]
  /\ active \in [Rooms -> Users \cup {None}] /\ owned \in [Users -> Rooms \cup {None}]
  /\ creating \subseteq Users /\ cooling \subseteq Users
  /\ record \in BOOLEAN /\ verifying \in BOOLEAN
  /\ moves \in 0..MaxMoves /\ errors \in 0..MaxErrors
  /\ lost \subseteq Rooms /\ received \subseteq Users

LEMMA TypeParts == TypeOK <=> World /\ jobs \in [Jobs -> Job]
BY DEF TypeOK, World, Job

LEMMA TypePartsNext == TypeOK' <=> World' /\ jobs' \in [Jobs -> Job]
BY DEF TypeOK, World, Job

LEMMA IdleFacts == Idle \in Job /\ Idle.pc = "idle" /\ Idle.room = None /\ Idle.from = None
BY DEF Idle, Job, PCs

LEMMA FailsFacts == ASSUME World, Fails PROVE errors' \in 0..MaxErrors
BY DEF World, Fails

Others(j) == \A i \in Jobs : i # j => jobs'[i] = jobs[i]

LEMMA ToFacts ==
  ASSUME jobs \in [Jobs -> Job], NEW j \in Jobs, NEW pc \in PCs, To(j, pc)
  PROVE  /\ jobs' \in [Jobs -> Job] /\ Others(j)
         /\ jobs'[j].pc = pc /\ jobs'[j].user = jobs[j].user /\ jobs'[j].from = jobs[j].from
         /\ jobs'[j].room = jobs[j].room /\ jobs'[j].to = jobs[j].to /\ jobs'[j].old = jobs[j].old
<1> DEFINE n == [jobs[j] EXCEPT !.pc = pc]
<1>1. jobs[j] \in Job
  OBVIOUS
<1>2. /\ n \in Job /\ n.pc = pc /\ n.user = jobs[j].user /\ n.from = jobs[j].from
      /\ n.room = jobs[j].room /\ n.to = jobs[j].to /\ n.old = jobs[j].old
  BY <1>1 DEF Job
<1>3. jobs' = [jobs EXCEPT ![j] = n]
  BY DEF To
<1> HIDE DEF n
<1>4. jobs'[j] = n /\ jobs' \in [Jobs -> Job] /\ Others(j)
  BY <1>2, <1>3 DEF Others
<1> QED
  BY <1>2, <1>4

LEMMA EndFacts ==
  ASSUME jobs \in [Jobs -> Job], NEW j \in Jobs, End(j)
  PROVE  jobs' \in [Jobs -> Job] /\ Others(j) /\ jobs'[j] = Idle
BY IdleFacts DEF End, Others

LEMMA ThenLeaveFacts ==
  ASSUME jobs \in [Jobs -> Job], NEW j \in Jobs, ThenLeave(j)
  PROVE  /\ jobs' \in [Jobs -> Job] /\ Others(j)
         /\ \/ /\ jobs'[j].pc = "leave" /\ jobs'[j].user = jobs[j].user
               /\ jobs'[j].from = jobs[j].from /\ jobs[j].from \in Rooms
               /\ jobs'[j].room = jobs[j].room
            \/ jobs[j].from \notin Rooms /\ jobs'[j] = Idle
<1>1. "leave" \in PCs
  BY DEF PCs
<1> QED
  BY <1>1, ToFacts, EndFacts DEF ThenLeave

\* A goroutine at work knows that the process runs.
LEMMA Working ==
  ASSUME VoiceInv, NEW j \in Jobs, jobs[j].pc # "idle"
  PROVE  up /\ World /\ jobs \in [Jobs -> Job] /\ jobs[j] \in Job /\ Sound(j)
<1>1. up
  BY IdleFacts DEF VoiceInv, DownIsQuiet
<1> QED
  BY <1>1, TypeParts DEF VoiceInv, JobsSound

\* A step of j that makes no room and leaves the books of the Manager alone.
Unbooked(j) ==
  /\ jobs' \in [Jobs -> Job] /\ Others(j) /\ Sound(j)'
  /\ UNCHANGED <<up, made, active, owned, received>>
  /\ rooms' \ lost' \subseteq rooms \ lost
  /\ jobs[j].pc # "track" /\ jobs'[j].pc # "track"
  /\ jobs'[j].room \in {jobs[j].room, None} \/ active[jobs'[j].room] # None
  /\ \/ jobs'[j].pc \notin Deleting
     \/ active[jobs'[j].from] # None
     \/ jobs[j].pc \in Deleting /\ jobs'[j].from = jobs[j].from

\* Who was seen to by nobody but j still is by somebody.
StillSeenTo(j, c) ==
  /\ \A u \in Users : Around(u, c) => Handles(j, c)' \/ \E v \in Users : Around(v, c)'
  /\ Handles(j, c) =>
       \/ Handles(j, c)' \/ \E v \in Users : Around(v, c)'
       \/ \E i \in Jobs : i # j /\ Handles(i, c)

\* A creation goes on, or it ends and gives its lock back.
Creates(j) ==
  /\ jobs'[j].pc \in Creation => jobs[j].pc \in Creation /\ jobs'[j].user = jobs[j].user
  /\ \/ creating' = creating
     \/ jobs[j].pc \in Creation /\ jobs'[j].pc \notin Creation /\ creating' = creating \ {jobs[j].user}

LEMMA CreatorStep ==
  ASSUME VoiceInv, NEW j \in Jobs, jobs' \in [Jobs -> Job], Others(j), Creates(j)
  PROVE  OneCreator'
<1> SUFFICES ASSUME NEW k \in Jobs, jobs'[k].pc \in Creation
             PROVE  /\ jobs'[k].user \in creating'
                    /\ \A i \in Jobs : jobs'[i].pc \in Creation /\ jobs'[i].user = jobs'[k].user => i = k
  BY DEF OneCreator
<1>1. \A i \in Jobs : jobs'[i].pc \in Creation => jobs[i].pc \in Creation /\ jobs'[i].user = jobs[i].user
  BY DEF Creates, Others
<1>2. /\ jobs[k].pc \in Creation /\ jobs'[k].user = jobs[k].user /\ jobs[k].user \in creating
      /\ \A i \in Jobs : jobs[i].pc \in Creation /\ jobs[i].user = jobs[k].user => i = k
  BY <1>1 DEF VoiceInv, OneCreator
<1>3. jobs[k].user \in creating'
  <2>1. CASE creating' = creating
    BY <1>2, <2>1
  <2>2. CASE creating' # creating
    <3>1. jobs[j].pc \in Creation /\ jobs'[j].pc \notin Creation /\ creating' = creating \ {jobs[j].user}
      BY <2>2 DEF Creates
    <3>2. jobs[j].user # jobs[k].user
      BY <1>2, <3>1
    <3> QED
      BY <1>2, <3>1, <3>2
  <2> QED
    BY <2>1, <2>2
<1> QED
  BY <1>1, <1>2, <1>3

LEMMA UnbookedStep ==
  ASSUME VoiceInv, NEW j \in Jobs, up, World', Unbooked(j), OneCreator', NoneBefore',
         \A c \in rooms' \ lost' : StillSeenTo(j, c)
  PROVE  VoiceInv'
<1>1. TypeOK /\ TypeOK' /\ World /\ jobs \in [Jobs -> Job]
  BY TypeParts, TypePartsNext DEF VoiceInv, Unbooked
<1>2. JobsSound'
  <2> SUFFICES ASSUME NEW i \in Jobs PROVE Sound(i)'
    BY DEF JobsSound
  <2>1. CASE i = j
    BY <2>1 DEF Unbooked
  <2>2. CASE i # j
    <3>1. jobs'[i] = jobs[i] /\ made' = made /\ rooms' \ lost' \subseteq rooms \ lost /\ Sound(i)
      BY <2>2 DEF Unbooked, Others, VoiceInv, JobsSound
    <3> QED
      BY <3>1 DEF Sound
  <2> QED
    BY <2>1, <2>2
<1>3. ActiveWasMade' /\ OwnersAgree' /\ ActiveIsOwned' /\ DownIsQuiet'
  BY DEF VoiceInv, Unbooked, ActiveWasMade, OwnersAgree, ActiveIsOwned, DownIsQuiet
<1>4. NewIsNobodys'
  <2> SUFFICES ASSUME NEW k \in Jobs, jobs'[k].pc = "track"
               PROVE  /\ active'[jobs'[k].room] = None
                      /\ \A i \in Jobs :
                           /\ i # k => jobs'[i].room # jobs'[k].room
                           /\ jobs'[i].pc \in Deleting => jobs'[i].from # jobs'[k].room
    BY DEF NewIsNobodys, At
  <2>1. k # j /\ jobs'[k] = jobs[k] /\ active' = active
    BY DEF Unbooked, Others
  <2>2. /\ active[jobs[k].room] = None /\ jobs[k].room \in made
        /\ \A i \in Jobs :
             /\ i # k => jobs[i].room # jobs[k].room
             /\ jobs[i].pc \in Deleting => jobs[i].from # jobs[k].room
    BY <2>1 DEF VoiceInv, NewIsNobodys, At, JobsSound, Sound, Rooming, Creation
  <2>3. jobs[k].room # None
    BY <1>1, <2>2 DEF World
  <2>4. jobs'[j].room # jobs[k].room
    BY <2>1, <2>2, <2>3 DEF Unbooked
  <2>5. jobs'[j].pc \in Deleting => jobs'[j].from # jobs[k].room
    BY <2>2 DEF Unbooked
  <2> QED
    BY <2>1, <2>2, <2>4, <2>5 DEF Unbooked, Others
<1>5. KnownOrNew'
  <2> SUFFICES ASSUME NEW c \in rooms' \ lost', active[c] = None
               PROVE  \E k \in Jobs : jobs'[k].pc = "track" /\ jobs'[k].room = c
    BY DEF KnownOrNew, At, Unbooked
  <2>1. PICK k \in Jobs : jobs[k].pc = "track" /\ jobs[k].room = c
    BY DEF VoiceInv, KnownOrNew, At, Unbooked
  <2>2. jobs'[k] = jobs[k]
    BY <2>1 DEF Unbooked, Others
  <2> QED
    BY <2>1, <2>2
<1>6. LookedAfter'
  <2> SUFFICES ASSUME NEW c \in rooms' \ lost'
               PROVE  (\E u \in Users : Around(u, c)') \/ \E k \in Jobs : Handles(k, c)'
    BY DEF LookedAfter
  <2>1. StillSeenTo(j, c) /\ c \in rooms \ lost
    BY DEF Unbooked
  <2>2. \A i \in Jobs : i # j /\ Handles(i, c) => Handles(i, c)'
    BY DEF Unbooked, Others, Handles
  <2>3. CASE \E u \in Users : Around(u, c)
    BY <2>1, <2>3 DEF StillSeenTo
  <2>4. CASE \E k \in Jobs : Handles(k, c)
    <3>1. PICK k \in Jobs : Handles(k, c)
      BY <2>4
    <3>2. CASE k = j
      BY <2>1, <2>2, <3>1, <3>2 DEF StillSeenTo
    <3>3. CASE k # j
      BY <2>2, <3>1, <3>3
    <3> QED
      BY <3>2, <3>3
  <2> QED
    BY <2>1, <2>3, <2>4 DEF VoiceInv, LookedAfter
<1> QED
  BY <1>1, <1>2, <1>3, <1>4, <1>5, <1>6 DEF VoiceInv

\* When it is none of the step's business which rooms are being made.
LEMMA OrdinaryStep ==
  ASSUME VoiceInv, NEW j \in Jobs, up, World', Unbooked(j), Creates(j), jobs'[j].pc # "create",
         \A c \in rooms' \ lost' : StillSeenTo(j, c)
  PROVE  VoiceInv'
<1>1. OneCreator'
  BY CreatorStep DEF Unbooked
<1>2. NoneBefore'
  BY DEF VoiceInv, NoneBefore, Unbooked, Others
<1> QED
  BY <1>1, <1>2, UnbookedStep

\* A step of no goroutine.
LEMMA QuietStep ==
  ASSUME VoiceInv, World', up => up',
         UNCHANGED <<jobs, made, rooms, lost, active, owned, received, creating>>,
         \A u \in Users, c \in rooms \ lost : Around(u, c) => Around(u, c)'
  PROVE  VoiceInv'
<1>1. TypeOK'
  BY TypeParts, TypePartsNext DEF VoiceInv
<1>2. JobsSound'
  BY DEF VoiceInv, JobsSound, Sound
<1>3. ActiveWasMade' /\ OwnersAgree' /\ ActiveIsOwned' /\ DownIsQuiet'
  BY DEF VoiceInv, ActiveWasMade, OwnersAgree, ActiveIsOwned, DownIsQuiet
<1>4. NewIsNobodys' /\ OneCreator' /\ NoneBefore' /\ KnownOrNew'
  BY DEF VoiceInv, NewIsNobodys, OneCreator, NoneBefore, KnownOrNew, At
<1>5. LookedAfter'
  <2> SUFFICES ASSUME NEW c \in rooms \ lost
               PROVE  (\E u \in Users : Around(u, c)') \/ \E k \in Jobs : Handles(k, c)'
    BY DEF LookedAfter
  <2>1. \A k \in Jobs : Handles(k, c) => Handles(k, c)'
    BY DEF Handles
  <2> QED
    BY <2>1 DEF VoiceInv, LookedAfter
<1> QED
  BY <1>1, <1>2, <1>3, <1>4, <1>5 DEF VoiceInv

-----------------------------------------------------------------------------
(***************************************************************************)
(* Discord.                                                                *)
(***************************************************************************)

\* An event on its way takes nobody away from where they were.
LEMMA StillAround ==
  ASSUME World, NEW u \in Users, NEW x \in Channels, seen'[u] = seen[u],
         wire'[u] = wire[u] \/ wire'[u] = Append(wire[u], x)
  PROVE  /\ wire'[u] \in Seq(Channels)
         /\ \A c : Around(u, c) => Around(u, c)'
         /\ wire'[u] = Append(wire[u], x) => Around(u, x)'
<1>1. wire[u] \in Seq(Channels)
  BY DEF World
<1>2. CASE wire'[u] = wire[u] /\ wire'[u] # Append(wire[u], x)
  BY <1>1, <1>2 DEF Around
<1>3. CASE wire'[u] = Append(wire[u], x)
  <2>1. /\ Len(wire[u]) \in Nat /\ wire'[u] \in Seq(Channels) /\ Len(wire'[u]) = Len(wire[u]) + 1
        /\ wire'[u][Len(wire[u]) + 1] = x
        /\ \A i \in 1..Len(wire[u]) : wire'[u][i] = wire[u][i]
    BY <1>1, <1>3
  <2>2. ASSUME NEW c, Around(u, c) PROVE Around(u, c)'
    <3>1. CASE seen[u] = c
      BY <3>1 DEF Around
    <3>2. CASE \E i \in 1..Len(wire[u]) : wire[u][i] = c
      <4>1. PICK i \in 1..Len(wire[u]) : wire[u][i] = c
        BY <3>2
      <4>2. i \in 1..Len(wire'[u]) /\ wire'[u][i] = c
        BY <2>1, <4>1
      <4> QED
        BY <4>2 DEF Around
    <3> QED
      BY <2>2, <3>1, <3>2 DEF Around
  <2>3. Around(u, x)'
    <3>1. Len(wire[u]) + 1 \in 1..Len(wire'[u])
      BY <2>1
    <3> QED
      BY <2>1, <3>1 DEF Around
  <2> QED
    BY <2>1, <2>2, <2>3
<1> QED
  BY <1>2, <1>3

AllStillAround == \A u \in Users, c \in Rooms : Around(u, c) => Around(u, c)'

LEMMA SentFacts ==
  ASSUME World, NEW u \in Users, NEW x \in Channels, seen' = seen,
         wire' = [wire EXCEPT ![u] = Append(@, x)]
  PROVE  wire' \in [Users -> Seq(Channels)] /\ AllStillAround /\ Around(u, x)'
<1>1. wire \in [Users -> Seq(Channels)]
  BY DEF World
<1>2. wire'[u] = Append(wire[u], x) /\ \A v \in Users : v # u => wire'[v] = wire[v]
  BY <1>1
<1>3. ASSUME NEW v \in Users
      PROVE  wire'[v] \in Seq(Channels) /\ \A c : Around(v, c) => Around(v, c)'
  <2>1. wire'[v] = wire[v] \/ wire'[v] = Append(wire[v], x)
    BY <1>2
  <2> QED
    BY <2>1, StillAround
<1>4. Around(u, x)'
  BY <1>2, StillAround
<1>5. wire' \in [Users -> Seq(Channels)]
  BY <1>1, <1>3
<1> QED
  BY <1>3, <1>4, <1>5 DEF AllStillAround

LEMMA SameWire == seen' = seen /\ wire' = wire => AllStillAround
BY DEF AllStillAround, Around

LEMMA MoveToFacts ==
  ASSUME VoiceInv, NEW u \in Users, NEW c \in Rooms, MoveTo(u, c)
  PROVE  /\ UNCHANGED <<rooms, made, seen, errors>>
         /\ wire' \in [Users -> Seq(Channels)] /\ AllStillAround /\ Around(u, c)'
<1>1. TypeOK /\ World /\ c \in Channels
  BY TypeParts DEF VoiceInv, Channels
<1>2. CASE Where(u) = c
  <2>1. wire' = wire /\ seen' = seen
    BY <1>2 DEF MoveTo
  <2>2. Around(u, c)
    BY <1>1, <1>2, AroundIs
  <2> QED
    BY <1>1, <2>1, <2>2, SameWire DEF AllStillAround, World, MoveTo
<1>3. CASE Where(u) # c
  <2>1. wire' = [wire EXCEPT ![u] = Append(@, c)] /\ seen' = seen
    BY <1>3 DEF MoveTo
  <2> QED
    BY <1>1, <2>1, SentFacts DEF MoveTo
<1> QED
  BY <1>2, <1>3

LEMMA MoveFailsFacts ==
  ASSUME World, NEW u, NEW c, MoveFails(u, c)
  PROVE  UNCHANGED discord /\ errors' \in 0..MaxErrors /\ AllStillAround
<1>1. errors' \in 0..MaxErrors
  BY FailsFacts DEF MoveFails, World
<1> QED
  BY <1>1, SameWire DEF MoveFails, discord

LEMMA ChannelDeleteFacts ==
  ASSUME World, NEW c \in Rooms, ChannelDelete(c)
  PROVE  /\ UNCHANGED <<made, seen>> /\ rooms' \subseteq rooms /\ lost \subseteq lost' /\ lost' \subseteq Rooms
         /\ c \notin rooms' \ lost' /\ errors' \in 0..MaxErrors
         /\ wire' \in [Users -> Seq(Channels)] /\ AllStillAround
<1>1. CASE Fails /\ lost' = lost \cup {c} /\ UNCHANGED discord
  <2>1. errors' \in 0..MaxErrors
    BY <1>1, FailsFacts
  <2> QED
    BY <1>1, <2>1, SameWire DEF discord, World
<1>2. CASE /\ rooms' = rooms \ {c}
           /\ wire' = [u \in Users |-> IF c \in rooms /\ u \in Inside(c) THEN Append(wire[u], Out) ELSE wire[u]]
           /\ UNCHANGED <<made, seen, lost, errors>>
  <2>1. Out \in Channels
    BY DEF Channels
  <2>2. ASSUME NEW u \in Users
        PROVE  wire'[u] \in Seq(Channels) /\ \A d : Around(u, d) => Around(u, d)'
    <3>1. wire'[u] = wire[u] \/ wire'[u] = Append(wire[u], Out)
      BY <1>2
    <3> QED
      BY <1>2, <2>1, <3>1, StillAround
  <2>3. wire' \in [Users -> Seq(Channels)]
    BY <1>2, <2>2
  <2> QED
    BY <1>2, <2>2, <2>3 DEF AllStillAround, World
<1> QED
  BY <1>1, <1>2 DEF ChannelDelete

(***************************************************************************)
(* Users and the gateway.                                                  *)
(***************************************************************************)

LEMMA MoveKeeps ==
  ASSUME VoiceInv, NEW u \in Users, NEW x \in rooms \cup {Trigger, Out}, Move(u, x)
  PROVE  VoiceInv'
<1>1. World /\ x \in Channels
  BY TypeParts DEF VoiceInv, World, Channels
<1>2. moves' \in 0..MaxMoves
  BY <1>1 DEF Move, World
<1>3. CASE up
  <2>1. wire' = [wire EXCEPT ![u] = Append(@, x)] /\ seen' = seen
    BY <1>3 DEF Move
  <2>2. wire' \in [Users -> Seq(Channels)] /\ AllStillAround
    BY <1>1, <2>1, SentFacts
  <2>3. World'
    BY <1>1, <1>2, <2>1, <2>2 DEF Move, manager, ghosts, World
  <2> QED
    BY <1>1, <2>2, <2>3, QuietStep DEF Move, manager, ghosts, AllStillAround, World
<1>4. CASE ~up
  <2>1. rooms \ lost = {}
    BY <1>4 DEF VoiceInv, DownIsQuiet
  <2>2. wire' = wire /\ seen' = [seen EXCEPT ![u] = x]
    BY <1>4 DEF Move
  <2>3. World'
    BY <1>1, <1>2, <2>2 DEF Move, manager, ghosts, World
  <2> QED
    BY <2>1, <2>3, QuietStep DEF Move, manager, ghosts
<1> QED
  BY <1>3, <1>4

LEMMA CooldownEndsKeeps ==
  ASSUME VoiceInv, NEW u \in Users, CooldownEnds(u)
  PROVE  VoiceInv'
<1>1. World
  BY TypeParts DEF VoiceInv
<1>2. World' /\ UNCHANGED <<up, jobs, discord, active, owned, ghosts, creating>>
  BY <1>1 DEF CooldownEnds, World, discord, bounds, ghosts
<1> QED
  BY <1>1, <1>2, QuietStep, SameWire DEF discord, ghosts, AllStillAround, World

LEMMA RestartKeeps ==
  ASSUME VoiceInv, Start \/ Verify
  PROVE  VoiceInv'
<1>1. World
  BY TypeParts DEF VoiceInv
<1>2. errors' \in 0..MaxErrors
  BY <1>1, FailsFacts DEF Start, Verify, World
<1>3. World' /\ (up => up') /\ UNCHANGED <<jobs, discord, manager, ghosts>>
  BY <1>1, <1>2 DEF Start, Verify, World, discord, manager, ghosts
<1> QED
  BY <1>1, <1>3, QuietStep, SameWire DEF discord, manager, ghosts, AllStillAround, World

\* An idle goroutine takes up work.
LEMMA TakeFacts ==
  ASSUME jobs \in [Jobs -> Job], NEW j \in Jobs, NEW n \in Job, jobs' = [jobs EXCEPT ![j] = n]
  PROVE  jobs' \in [Jobs -> Job] /\ Others(j) /\ jobs'[j] = n
BY DEF Others

\* An event is followed by a goroutine if somebody left a room by it.
LEMMA DeliverKeeps ==
  ASSUME VoiceInv, NEW u \in Users, NEW j \in Jobs, Deliver(u, j)
  PROVE  VoiceInv'
<1> DEFINE from == seen[u]
           work(pc) == [Idle EXCEPT !.pc = pc, !.user = u, !.from = from]
<1>1. World /\ jobs \in [Jobs -> Job] /\ jobs[j] = Idle /\ up
  BY TypeParts DEF VoiceInv, Deliver, Free
<1>2. wire[u] \in Seq(Channels) /\ wire[u] # <<>> /\ from \in Channels
  BY <1>1 DEF World, Deliver
<1>3. /\ Head(wire[u]) \in Channels /\ Tail(wire[u]) \in Seq(Channels)
      /\ Len(wire[u]) \in Nat /\ Len(Tail(wire[u])) = Len(wire[u]) - 1 /\ Head(wire[u]) = wire[u][1]
      /\ \A i \in 1..Len(Tail(wire[u])) : Tail(wire[u])[i] = wire[u][i + 1]
  BY <1>2
<1>4. /\ seen' = [seen EXCEPT ![u] = Head(wire[u])] /\ wire' = [wire EXCEPT ![u] = Tail(@)]
      /\ seen \in [Users -> Channels] /\ wire \in [Users -> Seq(Channels)]
  BY <1>1 DEF Deliver, World
<1>5. /\ seen'[u] = Head(wire[u]) /\ wire'[u] = Tail(wire[u])
      /\ \A v \in Users : v # u => seen'[v] = seen[v] /\ wire'[v] = wire[v]
      /\ seen' \in [Users -> Channels] /\ wire' \in [Users -> Seq(Channels)]
  BY <1>3, <1>4
<1>6. World' /\ UNCHANGED <<up, rooms, made, active, owned, creating, lost, received>>
  BY <1>1, <1>5 DEF Deliver, World, manager, bounds, ghosts
<1>7. \A pc \in {"join", "leave"} :
        /\ work(pc) \in Job /\ work(pc).pc = pc /\ work(pc).user = u /\ work(pc).from = from
        /\ work(pc).room = None
  BY <1>2 DEF Idle, Job, PCs
<1>8. /\ jobs' \in [Jobs -> Job] /\ Others(j)
      /\ \/ jobs'[j] = work("join")
         \/ from \in Rooms /\ jobs'[j] = work("leave")
         \/ from \notin Rooms /\ jobs'[j] = Idle
  <2>1. CASE Head(wire[u]) = Trigger
    <3>1. jobs' = [jobs EXCEPT ![j] = work("join")]
      BY <2>1 DEF Deliver
    <3> QED
      BY <1>1, <1>7, <3>1, TakeFacts
  <2>2. CASE Head(wire[u]) # Trigger /\ from \in Rooms
    <3>1. jobs' = [jobs EXCEPT ![j] = work("leave")]
      BY <2>2 DEF Deliver
    <3> QED
      BY <1>1, <1>7, <2>2, <3>1, TakeFacts
  <2>3. CASE Head(wire[u]) # Trigger /\ from \notin Rooms
    <3>1. jobs' = jobs
      BY <2>3 DEF Deliver
    <3> QED
      BY <1>1, <2>3, <3>1 DEF Others
  <2> QED
    BY <2>1, <2>2, <2>3
<1>9. /\ jobs'[j].pc \in {"join", "leave", "idle"} /\ jobs'[j].room = None
      /\ jobs'[j].pc # "idle" => jobs'[j].user = u /\ jobs'[j].from = from
      /\ jobs'[j].pc = "leave" => from \in Rooms
      /\ jobs'[j].pc = "idle" => from \notin Rooms
  BY <1>7, <1>8, IdleFacts
<1> HIDE DEF work
<1>10. Sound(j)'
  BY <1>9 DEF Sound, Handing, Rooming, Creation, Leaving, Deleting
<1>11. Unbooked(j) /\ Creates(j) /\ jobs'[j].pc # "create"
  BY <1>1, <1>6, <1>8, <1>9, <1>10, IdleFacts DEF Unbooked, Creates, Deleting, Creation
<1>12. ASSUME NEW c \in rooms' \ lost' PROVE StillSeenTo(j, c)
  <2>1. c \in Rooms
    BY <1>6 DEF World
  <2>2. ~Handles(j, c)
    BY <1>1, IdleFacts DEF Handles, Creation
  <2>3. ASSUME NEW v \in Users, Around(v, c) PROVE Handles(j, c)' \/ Around(v, c)'
    <3>1. CASE v # u
      BY <1>5, <2>3, <3>1 DEF Around
    <3>2. CASE v = u /\ from = c
      BY <1>9, <2>1, <3>2 DEF Handles, Handing
    <3>3. CASE v = u /\ \E i \in 1..Len(wire[u]) : wire[u][i] = c
      <4>1. PICK i \in 1..Len(wire[u]) : wire[u][i] = c
        BY <3>3
      <4>2. CASE i = 1
        BY <1>3, <1>5, <3>3, <4>1, <4>2 DEF Around
      <4>3. CASE i # 1
        <5>1. i - 1 \in 1..Len(Tail(wire[u])) /\ (i - 1) + 1 = i
          BY <1>3, <4>1, <4>3
        <5>2. Tail(wire[u])[i - 1] = c
          BY <1>3, <4>1, <5>1
        <5>3. i - 1 \in 1..Len(wire'[u]) /\ wire'[u][i - 1] = c
          BY <1>5, <5>1, <5>2
        <5> QED
          BY <3>3, <5>3 DEF Around
      <4> QED
        BY <4>2, <4>3
    <3> QED
      BY <2>3, <3>1, <3>2, <3>3 DEF Around
  <2> QED
    BY <2>2, <2>3 DEF StillSeenTo
<1> QED
  BY <1>1, <1>6, <1>11, <1>12, OrdinaryStep

\* A command names a room that is active.
LEMMA CommandKeeps ==
  ASSUME VoiceInv, NEW j \in Jobs, NEW c \in Rooms, NEW u \in Users, active[c] # None, Command(j, c, u)
  PROVE  VoiceInv'
<1> DEFINE n == [Idle EXCEPT !.pc = "transfer", !.room = c, !.to = u]
<1>1. World /\ jobs \in [Jobs -> Job] /\ jobs[j] = Idle /\ up /\ c \in made
  BY TypeParts DEF VoiceInv, Command, Free, ActiveWasMade
<1>2. /\ World' /\ AllStillAround
      /\ UNCHANGED <<up, rooms, made, active, owned, creating, lost, received>>
  <2>1. moves' \in 0..MaxMoves
    BY <1>1 DEF Command, World
  <2> QED
    BY <1>1, <2>1, SameWire DEF Command, World, discord, manager, ghosts
<1>3. n \in Job /\ n.pc = "transfer" /\ n.room = c /\ n.to = u
  BY DEF Idle, Job, PCs
<1>4. jobs' = [jobs EXCEPT ![j] = n]
  BY DEF Command
<1> HIDE DEF n
<1>5. jobs' \in [Jobs -> Job] /\ Others(j) /\ jobs'[j] = n
  BY <1>1, <1>3, <1>4, TakeFacts
<1>6. Sound(j)'
  BY <1>1, <1>2, <1>3, <1>5 DEF Sound, Handing, Rooming, Creation, Leaving, Deleting
<1>7. Unbooked(j) /\ Creates(j) /\ jobs'[j].pc # "create"
  BY <1>1, <1>2, <1>3, <1>5, <1>6, IdleFacts DEF Unbooked, Creates, Deleting, Creation
<1>8. \A d \in rooms' \ lost' : StillSeenTo(j, d)
  BY <1>1, <1>2, IdleFacts DEF StillSeenTo, AllStillAround, Handles, Creation, World
<1> QED
  BY <1>1, <1>2, <1>7, <1>8, OrdinaryStep

LEMMA HandOverKeeps ==
  ASSUME VoiceInv, NEW u \in Users, NEW v \in Users, NEW j \in Jobs, HandOver(u, v, j)
  PROVE  VoiceInv'
<1>1. owned[u] \in Rooms /\ active[owned[u]] # None /\ Command(j, owned[u], v)
  BY TypeParts DEF VoiceInv, World, HandOver, OwnersAgree
<1> QED
  BY <1>1, CommandKeeps

LEMMA ClaimKeeps ==
  ASSUME VoiceInv, NEW u \in Users, NEW j \in Jobs, Claim(u, j)
  PROVE  VoiceInv'
<1>1. seen[u] \in Rooms /\ active[seen[u]] # None /\ Command(j, seen[u], u)
  BY DEF Claim
<1> QED
  BY <1>1, CommandKeeps

\* After a crash every room is given up.
LEMMA CrashKeeps ==
  ASSUME VoiceInv, Crash
  PROVE  VoiceInv'
<1>1. TypeOK /\ World /\ jobs \in [Jobs -> Job]
  BY TypeParts DEF VoiceInv
<1>2. ASSUME NEW u \in Users PROVE Where(u) \in Channels
  <2>1. wire[u] \in Seq(Channels) /\ seen[u] \in Channels
    BY <1>1 DEF World
  <2>2. Path(u) \in Seq(Channels) /\ Len(Path(u)) \in 1..Len(Path(u))
    BY <2>1 DEF Path
  <2> QED
    BY <2>2 DEF Where
<1>3. /\ rooms' \subseteq lost' /\ up' = FALSE /\ \A j \in Jobs : jobs'[j] = Idle
      /\ \A c \in Rooms : active'[c] = None
      /\ \A u \in Users : owned'[u] = None
  BY DEF Crash
<1>4. World'
  <2>1. errors' \in 0..MaxErrors
    BY <1>1, FailsFacts DEF Crash
  <2>2. seen' \in [Users -> Channels] /\ wire' \in [Users -> Seq(Channels)]
    BY <1>2 DEF Crash
  <2>3. active' \in [Rooms -> Users \cup {None}] /\ owned' \in [Users -> Rooms \cup {None}]
    BY DEF Crash
  <2> QED
    BY <1>1, <2>1, <2>2, <2>3 DEF Crash, World
<1>5. TypeOK'
  <2>1. jobs' \in [Jobs -> Job]
    BY IdleFacts DEF Crash
  <2> QED
    BY <1>4, <2>1, TypePartsNext
<1>6. JobsSound' /\ OneCreator' /\ NoneBefore' /\ NewIsNobodys'
  BY <1>3, IdleFacts
     DEF JobsSound, Sound, OneCreator, NoneBefore, NewIsNobodys, At, Handing, Rooming, Leaving, Deleting, Creation
<1>7. ActiveWasMade' /\ OwnersAgree' /\ ActiveIsOwned'
  BY <1>3 DEF ActiveWasMade, OwnersAgree, ActiveIsOwned
<1>8. DownIsQuiet' /\ KnownOrNew' /\ LookedAfter'
  BY <1>3 DEF DownIsQuiet, KnownOrNew, LookedAfter
<1> QED
  BY <1>5, <1>6, <1>7, <1>8 DEF VoiceInv

(***************************************************************************)
(* Joins and creations.                                                    *)
(***************************************************************************)

\* The handler of a join goes on with the channel left; a room it made has somebody in it.
LEMMA ThenLeaveStep ==
  ASSUME VoiceInv, NEW j \in Jobs, jobs[j].pc \in {"join", "existing"} \cup (Creation \ {"track"}),
         NEW r, r = jobs[j].room, ThenLeave(j), World', AllStillAround,
         UNCHANGED <<up, made, active, owned, received, rooms, lost>>,
         creating' = creating \/ (jobs[j].pc \in Creation /\ creating' = creating \ {jobs[j].user}),
         \/ jobs[j].pc \in {"join", "existing", "create"}
         \/ \E v \in Users : Around(v, r)'
  PROVE  VoiceInv'
<1>1. up /\ World /\ jobs \in [Jobs -> Job] /\ Sound(j)
  <2>1. jobs[j].pc # "idle"
    BY DEF Creation
  <2> QED
    BY <2>1, Working
<1>2. /\ jobs' \in [Jobs -> Job] /\ Others(j)
      /\ \/ /\ jobs'[j].pc = "leave" /\ jobs'[j].user = jobs[j].user
            /\ jobs'[j].from = jobs[j].from /\ jobs[j].from \in Rooms
            /\ jobs'[j].room = jobs[j].room
         \/ /\ jobs[j].from \notin Rooms
            /\ jobs'[j].pc = "idle" /\ jobs'[j].room = None
  BY <1>1, ThenLeaveFacts, IdleFacts
<1>3. Sound(j)'
  BY <1>1, <1>2 DEF Sound, Handing, Rooming, Creation, Leaving, Deleting
<1>4. Unbooked(j) /\ Creates(j) /\ jobs'[j].pc # "create"
  BY <1>1, <1>2, <1>3 DEF Unbooked, Creates, Deleting, Creation, ReleaseCreationLock
<1>5. ASSUME NEW c \in rooms' \ lost' PROVE StillSeenTo(j, c)
  <2>1. c \in Rooms
    BY <1>1 DEF World
  <2>2. jobs[j].from = c => Handles(j, c)'
    BY <1>2, <2>1 DEF Handles, Handing
  <2>3. jobs[j].pc \in Creation /\ jobs[j].room = c => \E v \in Users : Around(v, c)'
    <3>1. CASE jobs[j].pc \in {"join", "existing", "create"}
      BY <1>1, <2>1, <3>1 DEF Sound, Creation
    <3>2. CASE \E v \in Users : Around(v, r)'
      BY <3>2
    <3> QED
      BY <3>1, <3>2
  <2> QED
    BY <2>1, <2>2, <2>3 DEF StillSeenTo, AllStillAround, Handles
<1> QED
  BY <1>1, <1>4, <1>5, OrdinaryStep

\* The step of a creation, or of a deletion, to the next.
LEMMA OnwardStep ==
  ASSUME VoiceInv, NEW j \in Jobs, NEW pc \in PCs \ {"create", "track"}, To(j, pc), World', AllStillAround,
         jobs[j].pc \notin {"idle", "track"} \cup Handing, pc \notin Handing \cup {"idle"},
         jobs[j].pc \in Creation <=> pc \in Creation, Sound(j)', creating' = creating,
         UNCHANGED <<up, made, active, owned, received>>, rooms' \ lost' \subseteq rooms \ lost,
         pc \in Deleting => jobs[j].pc \in Deleting \/ active[jobs[j].from] # None
  PROVE  VoiceInv'
<1>1. up /\ World /\ jobs \in [Jobs -> Job] /\ Sound(j)
  BY Working
<1>2. /\ jobs' \in [Jobs -> Job] /\ Others(j)
      /\ jobs'[j].pc = pc /\ jobs'[j].user = jobs[j].user /\ jobs'[j].from = jobs[j].from
      /\ jobs'[j].room = jobs[j].room
  BY <1>1, ToFacts
<1>3. Unbooked(j) /\ Creates(j) /\ jobs'[j].pc # "create"
  BY <1>2 DEF Unbooked, Creates
<1>4. \A c \in rooms' \ lost' : StillSeenTo(j, c)
  BY <1>1, <1>2 DEF StillSeenTo, AllStillAround, Handles, World
<1> QED
  BY <1>1, <1>3, <1>4, OrdinaryStep

LEMMA JoinKeeps ==
  ASSUME VoiceInv, NEW j \in Jobs, Join(j)
  PROVE  VoiceInv'
<1> DEFINE u == jobs[j].user
<1>1. /\ up /\ World /\ jobs \in [Jobs -> Job] /\ Sound(j) /\ jobs[j].pc = "join"
      /\ u \in Users /\ jobs[j].room = None
  BY Working DEF Join, At, Sound, Handing
<1>2. /\ World' /\ AllStillAround
      /\ UNCHANGED <<up, made, active, owned, received, rooms, lost>>
  <2>1. errors' \in 0..MaxErrors
    BY <1>1, FailsFacts DEF Join, World
  <2>2. creating' \subseteq Users
    BY <1>1 DEF Join, World
  <2> QED
    BY <1>1, <2>1, <2>2, SameWire DEF Join, World, discord, ghosts
<1>3. CASE ThenLeave(j) /\ UNCHANGED creating
  <2>1. PICK r : r = jobs[j].room
    OBVIOUS
  <2> QED
    BY <1>1, <1>2, <1>3, <2>1, ThenLeaveStep
<1>4. CASE To(j, "existing") /\ UNCHANGED creating
  <2>1. "existing" \in PCs \ {"create", "track"}
    BY DEF PCs
  <2>2. Sound(j)'
    <3>1. jobs'[j].pc = "existing" /\ jobs'[j].user = u /\ jobs'[j].room = None
      BY <1>1, <1>4, <2>1, ToFacts
    <3> QED
      BY <1>1, <3>1 DEF Sound, Handing, Rooming, Creation, Leaving, Deleting
  <2> QED
    BY <1>1, <1>2, <1>4, <2>1, <2>2, OnwardStep DEF Creation, Handing, Deleting
<1>5. CASE To(j, "create") /\ u \notin creating /\ owned[u] = None /\ creating' = creating \cup {u}
  <2>1. "create" \in PCs
    BY DEF PCs, Creation
  <2>2. /\ jobs' \in [Jobs -> Job] /\ Others(j)
        /\ jobs'[j].pc = "create" /\ jobs'[j].user = u /\ jobs'[j].from = jobs[j].from
        /\ jobs'[j].room = None
    BY <1>1, <1>5, <2>1, ToFacts
  <2>3. Sound(j)'
    BY <1>1, <2>2 DEF Sound, Handing, Rooming, Creation, Leaving, Deleting
  <2>4. Unbooked(j)
    BY <1>1, <1>2, <2>2, <2>3 DEF Unbooked, Deleting
  <2>5. \A i \in Jobs : i # j /\ jobs[i].pc \in Creation => jobs[i].user \in creating /\ jobs[i].user # u
    BY <1>5 DEF VoiceInv, OneCreator
  <2>6. OneCreator'
    <3> SUFFICES ASSUME NEW k \in Jobs, jobs'[k].pc \in Creation
                 PROVE  /\ jobs'[k].user \in creating'
                        /\ \A i \in Jobs : jobs'[i].pc \in Creation /\ jobs'[i].user = jobs'[k].user => i = k
      BY DEF OneCreator
    <3>1. CASE k = j
      BY <1>5, <2>2, <2>5, <3>1 DEF Others
    <3>2. CASE k # j
      BY <1>5, <2>2, <2>5, <3>2 DEF Others, VoiceInv, OneCreator
    <3> QED
      BY <3>1, <3>2
  <2>7. NoneBefore'
    BY <1>2, <1>5, <2>2 DEF VoiceInv, NoneBefore, Others
  <2>8. \A c \in rooms' \ lost' : StillSeenTo(j, c)
    BY <1>1, <1>2, <2>2 DEF StillSeenTo, AllStillAround, Handles, World, Creation, Handing
  <2> QED
    BY <1>1, <1>2, <2>4, <2>6, <2>7, <2>8, UnbookedStep
<1> QED
  BY <1>3, <1>4, <1>5 DEF Join

LEMMA ExistingKeeps ==
  ASSUME VoiceInv, NEW j \in Jobs, Existing(j)
  PROVE  VoiceInv'
<1> DEFINE u == jobs[j].user
<1>1. /\ up /\ World /\ jobs \in [Jobs -> Job] /\ jobs[j].pc = "existing" /\ u \in Users
  BY Working DEF Existing, At, Sound, Handing
<1>2. /\ rooms' = rooms /\ made' = made /\ seen' = seen /\ errors' \in 0..MaxErrors
      /\ wire' \in [Users -> Seq(Channels)] /\ AllStillAround
  <2>1. CASE owned[u] = None
    BY <1>1, <2>1, SameWire DEF Existing, discord, World
  <2>2. CASE owned[u] # None
    <3>1. owned[u] \in Rooms
      BY <1>1, <2>2 DEF World
    <3>2. CASE MoveTo(u, owned[u])
      BY <1>1, <3>1, <3>2, MoveToFacts DEF World
    <3>3. CASE MoveFails(u, owned[u])
      BY <1>1, <3>3, MoveFailsFacts DEF World, discord
    <3> QED
      BY <2>2, <3>2, <3>3 DEF Existing
  <2> QED
    BY <2>1, <2>2
<1>3. World' /\ UNCHANGED <<up, active, owned, received, lost, creating>>
  BY <1>1, <1>2 DEF Existing, World, manager, ghosts
<1> QED
  <2>1. PICK r : r = jobs[j].room
    OBVIOUS
  <2>2. ThenLeave(j)
    BY DEF Existing
  <2> QED
    BY <1>1, <1>2, <1>3, <2>1, <2>2, ThenLeaveStep

LEMMA SaveKeeps ==
  ASSUME VoiceInv, NEW j \in Jobs, Save(j)
  PROVE  VoiceInv'
<1>1. /\ up /\ World /\ jobs \in [Jobs -> Job] /\ Sound(j) /\ jobs[j].pc = "save"
      /\ jobs[j].user \in Users /\ "moveIn" \in PCs
  BY Working DEF Save, At, Sound, Handing, PCs, Creation
<1>2. errors' \in 0..MaxErrors
  BY <1>1, FailsFacts DEF Save, World
<1>3. World' /\ AllStillAround /\ UNCHANGED <<up, made, active, owned, received, rooms, lost, creating>>
  BY <1>1, <1>2, SameWire DEF Save, World, discord, ghosts
<1>4. To(j, "moveIn")
  BY DEF Save
<1>5. Sound(j)'
  <2>1. /\ jobs'[j].pc = "moveIn" /\ jobs'[j].user = jobs[j].user /\ jobs'[j].from = jobs[j].from
        /\ jobs'[j].room = jobs[j].room
    BY <1>1, <1>4, ToFacts
  <2> QED
    BY <1>1, <1>3, <2>1 DEF Sound, Handing, Rooming, Creation, Leaving, Deleting
<1> QED
  BY <1>1, <1>3, <1>4, <1>5, OnwardStep DEF Creation, Handing, Deleting

LEMMA MoveInKeeps ==
  ASSUME VoiceInv, NEW j \in Jobs, MoveIn(j)
  PROVE  VoiceInv'
<1>0. PICK u, c : u = jobs[j].user /\ c = jobs[j].room
  OBVIOUS
<1>1. /\ up /\ World /\ jobs \in [Jobs -> Job] /\ Sound(j) /\ jobs[j].pc = "moveIn"
      /\ u \in Users /\ c \in made /\ c \in Rooms /\ "discard" \in PCs
  BY <1>0, Working DEF MoveIn, At, Sound, Handing, Rooming, PCs, Creation, World
<1>2. UNCHANGED <<up, active, owned, received, lost>>
  BY DEF MoveIn, ghosts
<1>3. CASE MoveTo(u, c) /\ ThenLeave(j) /\ ReleaseCreationLock(j)
  <2>1. /\ UNCHANGED <<rooms, made, seen, errors>>
        /\ wire' \in [Users -> Seq(Channels)] /\ AllStillAround /\ Around(u, c)'
    BY <1>1, <1>3, MoveToFacts
  <2>2. creating' \subseteq Users
    BY <1>1, <1>3 DEF ReleaseCreationLock, World
  <2>3. World'
    BY <1>1, <2>1, <2>2 DEF MoveIn, World, ghosts
  <2>4. \E v \in Users : Around(v, c)'
    BY <1>1, <2>1
  <2> QED
    BY <1>0, <1>1, <1>2, <1>3, <2>1, <2>3, <2>4, ThenLeaveStep DEF Creation, ReleaseCreationLock
<1>4. CASE MoveFails(u, c) /\ To(j, "discard") /\ UNCHANGED creating
  <2>1. UNCHANGED discord /\ errors' \in 0..MaxErrors /\ AllStillAround
    BY <1>1, <1>4, MoveFailsFacts
  <2>2. World'
    BY <1>1, <1>4, <2>1 DEF MoveIn, World, ghosts, discord
  <2>3. Sound(j)'
    <3>1. /\ jobs'[j].pc = "discard" /\ jobs'[j].user = jobs[j].user /\ jobs'[j].from = jobs[j].from
          /\ jobs'[j].room = jobs[j].room
      BY <1>1, <1>4, ToFacts
    <3> QED
      BY <1>1, <2>1, <3>1 DEF Sound, Handing, Rooming, Creation, Leaving, Deleting, discord
  <2> QED
    BY <1>1, <1>2, <1>4, <2>1, <2>2, <2>3, OnwardStep DEF Creation, Handing, Deleting, discord
<1> QED
  BY <1>0, <1>3, <1>4 DEF MoveIn

\* The room is the creator's goroutine's, and no other has heard of it.
LEMMA CreateKeeps ==
  ASSUME VoiceInv, NEW j \in Jobs, Create(j)
  PROVE  VoiceInv'
<1>1. /\ up /\ World /\ jobs \in [Jobs -> Job] /\ Sound(j) /\ jobs[j].pc = "create"
      /\ jobs[j].user \in Users /\ jobs[j].room = None /\ jobs[j] \in Job
  BY Working DEF Create, At, Sound, Handing
<1>2. AllStillAround /\ UNCHANGED <<up, seen, wire, active, owned, cooling, received, lost>>
  BY SameWire DEF Create, ghosts
<1>3. ASSUME NEW c \in Rooms \ made, rooms' = rooms \cup {c}, made' = made \cup {c},
             jobs' = [jobs EXCEPT ![j].pc = "track", ![j].room = c], UNCHANGED <<creating, errors>>
      PROVE  VoiceInv'
  <2> DEFINE n == [jobs[j] EXCEPT !.pc = "track", !.room = c]
  <2>1. /\ n \in Job /\ n.pc = "track" /\ n.room = c /\ n.user = jobs[j].user /\ n.from = jobs[j].from
        /\ jobs' = [jobs EXCEPT ![j] = n]
    BY <1>1, <1>3 DEF Job, PCs, Creation
  <2> HIDE DEF n
  <2>2. jobs' \in [Jobs -> Job] /\ Others(j) /\ jobs'[j] = n
    BY <1>1, <2>1, TakeFacts
  <2>3. World' /\ TypeOK'
    <3>1. World'
      BY <1>1, <1>3 DEF Create, World, ghosts
    <3> QED
      BY <2>2, <3>1, TypePartsNext
  <2>4. \A i \in Jobs : i # j => jobs'[i] = jobs[i] /\ Sound(i)
    BY <2>2 DEF Others, VoiceInv, JobsSound
  <2>5. JobsSound'
    <3> SUFFICES ASSUME NEW i \in Jobs PROVE Sound(i)'
      BY DEF JobsSound
    <3>1. CASE i = j
      BY <1>1, <1>3, <2>1, <2>2, <3>1 DEF Sound, Handing, Rooming, Creation, Leaving, Deleting
    <3>2. CASE i # j
      <4>1. made \subseteq made' /\ \A d \in made : d \notin rooms \ lost => d \notin rooms' \ lost'
        BY <1>2, <1>3
      <4>2. jobs'[i] = jobs[i] /\ Sound(i)
        BY <2>4, <3>2
      <4>3. jobs[i].pc = "remove" => jobs[i].from \in made
        BY <4>2 DEF Sound, Deleting
      <4>4. jobs[i].pc = "untrack" => jobs[i].room \in made
        BY <4>2 DEF Sound, Rooming, Creation
      <4> QED
        BY <4>1, <4>2, <4>3, <4>4 DEF Sound
    <3> QED
      BY <3>1, <3>2
  <2>6. active[c] = None
    BY <1>3 DEF VoiceInv, ActiveWasMade
  <2>7. ActiveWasMade' /\ OwnersAgree' /\ ActiveIsOwned' /\ DownIsQuiet'
    BY <1>1, <1>2, <1>3 DEF VoiceInv, ActiveWasMade, OwnersAgree, ActiveIsOwned, DownIsQuiet
  <2>8. NewIsNobodys'
    <3> SUFFICES ASSUME NEW k \in Jobs, jobs'[k].pc = "track"
                 PROVE  /\ active'[jobs'[k].room] = None
                        /\ \A i \in Jobs :
                             /\ i # k => jobs'[i].room # jobs'[k].room
                             /\ jobs'[i].pc \in Deleting => jobs'[i].from # jobs'[k].room
      BY DEF NewIsNobodys, At
    <3>1. \A i \in Jobs : i # j =>
            jobs'[i].room # c /\ (jobs'[i].pc \in Deleting => jobs'[i].from # c)
      BY <1>3, <2>4 DEF Sound
    <3>2. CASE k = j
      BY <1>2, <2>1, <2>2, <2>6, <3>1, <3>2 DEF Deleting
    <3>3. CASE k # j
      BY <1>2, <2>1, <2>2, <2>4, <3>1, <3>3 DEF VoiceInv, NewIsNobodys, At, Deleting
    <3> QED
      BY <3>2, <3>3
  <2>9. OneCreator'
    BY <1>1, <1>3, <2>1, <2>2, CreatorStep DEF Creates, Creation
  <2>10. NoneBefore'
    BY <1>1, <1>2, <2>1, <2>2, <2>4 DEF VoiceInv, NoneBefore
  <2>11. KnownOrNew' /\ LookedAfter'
    <3> SUFFICES ASSUME NEW d \in rooms' \ lost'
                 PROVE  /\ active'[d] # None \/ \E k \in Jobs : jobs'[k].pc = "track" /\ jobs'[k].room = d
                        /\ (\E u \in Users : Around(u, d)') \/ \E k \in Jobs : Handles(k, d)'
      BY DEF KnownOrNew, LookedAfter, At
    <3>1. CASE d = c
      BY <2>1, <2>2, <3>1 DEF Handles, Creation
    <3>2. CASE d # c
      <4>1. d \in rooms \ lost /\ d \in Rooms
        BY <1>1, <1>2, <1>3, <3>2 DEF World
      <4>2. active[d] # None \/ \E k \in Jobs : jobs[k].pc = "track" /\ jobs[k].room = d
        BY <4>1 DEF VoiceInv, KnownOrNew, At
      <4>3. \A k \in Jobs : Handles(k, d) => Handles(k, d)'
        BY <1>1, <2>1, <2>2, <2>4, <4>1 DEF Handles, Creation, Handing
      <4>4. (\E u \in Users : Around(u, d)') \/ \E k \in Jobs : Handles(k, d)'
        BY <1>2, <4>1, <4>3 DEF VoiceInv, LookedAfter, AllStillAround
      <4>5. active'[d] # None \/ \E k \in Jobs : jobs'[k].pc = "track" /\ jobs'[k].room = d
        BY <1>1, <1>2, <2>4, <4>2
      <4> QED
        BY <4>4, <4>5
    <3> QED
      BY <3>1, <3>2
  <2> QED
    BY <2>3, <2>5, <2>7, <2>8, <2>9, <2>10, <2>11 DEF VoiceInv
<1>4. ASSUME ThenLeave(j), ReleaseCreationLock(j), UNCHANGED <<rooms, made>>,
             (made = Rooms /\ UNCHANGED errors) \/ Fails
      PROVE  VoiceInv'
  <2>1. errors' \in 0..MaxErrors
    BY <1>1, <1>4, FailsFacts DEF World
  <2>2. creating' = creating \ {jobs[j].user}
    BY <1>4 DEF ReleaseCreationLock
  <2>3. World'
    BY <1>1, <1>2, <1>4, <2>1, <2>2 DEF Create, World
  <2>4. PICK r : r = jobs[j].room
    OBVIOUS
  <2> QED
    BY <1>1, <1>2, <1>4, <2>2, <2>3, <2>4, ThenLeaveStep DEF Creation
<1> QED
  BY <1>3, <1>4 DEF Create

LEMMA DiscardKeeps ==
  ASSUME VoiceInv, NEW j \in Jobs, Discard(j)
  PROVE  VoiceInv'
<1>0. PICK c : c = jobs[j].room
  OBVIOUS
<1>1. /\ up /\ World /\ jobs \in [Jobs -> Job] /\ Sound(j) /\ jobs[j].pc = "discard"
      /\ c \in made /\ c \in Rooms /\ "untrack" \in PCs
  BY <1>0, Working DEF Discard, At, Sound, Rooming, PCs, Creation, World
<1>2. /\ UNCHANGED <<made, seen>> /\ rooms' \subseteq rooms /\ lost \subseteq lost' /\ lost' \subseteq Rooms
      /\ c \notin rooms' \ lost' /\ errors' \in 0..MaxErrors
      /\ wire' \in [Users -> Seq(Channels)] /\ AllStillAround
  BY <1>0, <1>1, ChannelDeleteFacts DEF Discard
<1>3. World' /\ UNCHANGED <<up, active, owned, creating, received>> /\ To(j, "untrack")
  BY <1>1, <1>2 DEF Discard, World, manager
<1>4. Sound(j)'
  <2>1. /\ jobs'[j].pc = "untrack" /\ jobs'[j].user = jobs[j].user /\ jobs'[j].from = jobs[j].from
        /\ jobs'[j].room = c
    BY <1>0, <1>1, <1>3, ToFacts
  <2> QED
    BY <1>1, <1>2, <2>1 DEF Sound, Handing, Rooming, Creation, Leaving, Deleting
<1> QED
  BY <1>1, <1>2, <1>3, <1>4, OnwardStep DEF Creation, Handing, Deleting

(***************************************************************************)
(* Rooms that empty.                                                       *)
(***************************************************************************)

\* A goroutine lets go of a room in which somebody is seen, or that is not tracked yet.
LEMMA LeaveKeeps ==
  ASSUME VoiceInv, NEW j \in Jobs, Leave(j)
  PROVE  VoiceInv'
<1>0. PICK c : c = jobs[j].from
  OBVIOUS
<1>1. /\ up /\ World /\ jobs \in [Jobs -> Job] /\ Sound(j) /\ jobs[j].pc = "leave"
      /\ c \in Rooms /\ "delete" \in PCs
  BY <1>0, Working DEF Leave, At, Sound, Leaving, PCs
<1>2. World' /\ AllStillAround
      /\ UNCHANGED <<up, rooms, made, active, owned, creating, lost, received>>
  BY <1>1, SameWire DEF Leave, World, discord, manager, bounds, ghosts
<1>3. CASE active[c] # None /\ To(j, "delete")
  <2>1. Sound(j)'
    <3>1. /\ jobs'[j].pc = "delete" /\ jobs'[j].user = jobs[j].user /\ jobs'[j].from = c
          /\ jobs'[j].room = jobs[j].room
      BY <1>0, <1>1, <1>3, ToFacts
    <3>2. c \in made
      BY <1>1, <1>3 DEF VoiceInv, ActiveWasMade
    <3> QED
      BY <1>1, <1>2, <3>1, <3>2 DEF Sound, Handing, Rooming, Creation, Leaving, Deleting
  <2> QED
    BY <1>0, <1>1, <1>2, <1>3, <2>1, OnwardStep DEF Creation, Handing, Deleting
<1>4. CASE (active[c] = None \/ \E u \in Users : seen[u] = c) /\ End(j)
  <2>1. jobs' \in [Jobs -> Job] /\ Others(j) /\ jobs'[j].pc = "idle" /\ jobs'[j].room = None
    BY <1>1, <1>4, EndFacts, IdleFacts
  <2>2. Sound(j)'
    BY <2>1 DEF Sound, Handing, Rooming, Creation, Leaving, Deleting
  <2>3. Unbooked(j) /\ Creates(j) /\ jobs'[j].pc # "create"
    BY <1>1, <1>2, <2>1, <2>2 DEF Unbooked, Creates, Deleting, Creation
  <2>4. ASSUME NEW d \in rooms' \ lost' PROVE StillSeenTo(j, d)
    <3>1. d \in Rooms /\ d \in rooms \ lost
      BY <1>1, <1>2 DEF World
    <3>2. ASSUME Handles(j, d)
          PROVE  (\E v \in Users : Around(v, d)') \/ \E i \in Jobs : i # j /\ Handles(i, d)
      <4>1. d = c
        BY <1>0, <1>1, <3>2 DEF Handles, Creation
      <4>2. CASE active[c] = None
        <5>1. PICK k \in Jobs : jobs[k].pc = "track" /\ jobs[k].room = c
          BY <3>1, <4>1, <4>2 DEF VoiceInv, KnownOrNew, At
        <5> QED
          BY <1>1, <4>1, <5>1 DEF Handles, Creation
      <4>3. CASE \E u \in Users : seen[u] = c
        <5>1. PICK u \in Users : Around(u, c)
          BY <4>3 DEF Around
        <5> QED
          BY <1>1, <1>2, <4>1, <5>1 DEF AllStillAround
      <4> QED
        BY <1>4, <4>2, <4>3
    <3> QED
      BY <1>2, <3>1, <3>2 DEF StillSeenTo, AllStillAround
  <2> QED
    BY <1>1, <1>2, <2>3, <2>4, OrdinaryStep
<1> QED
  BY <1>0, <1>3, <1>4 DEF Leave

LEMMA DeleteKeeps ==
  ASSUME VoiceInv, NEW j \in Jobs, Delete(j)
  PROVE  VoiceInv'
<1>0. PICK c : c = jobs[j].from
  OBVIOUS
<1>1. /\ up /\ World /\ jobs \in [Jobs -> Job] /\ Sound(j) /\ jobs[j].pc = "delete"
      /\ c \in made /\ c \in Rooms /\ "remove" \in PCs
  BY <1>0, Working DEF Delete, At, Sound, Leaving, Deleting, PCs
<1>2. /\ UNCHANGED <<made, seen>> /\ rooms' \subseteq rooms /\ lost \subseteq lost' /\ lost' \subseteq Rooms
      /\ c \notin rooms' \ lost' /\ errors' \in 0..MaxErrors
      /\ wire' \in [Users -> Seq(Channels)] /\ AllStillAround
  BY <1>0, <1>1, ChannelDeleteFacts DEF Delete
<1>3. World' /\ UNCHANGED <<up, active, owned, creating, received>> /\ To(j, "remove")
  BY <1>1, <1>2 DEF Delete, World, manager
<1>4. Sound(j)'
  <2>1. /\ jobs'[j].pc = "remove" /\ jobs'[j].user = jobs[j].user /\ jobs'[j].from = c
        /\ jobs'[j].room = jobs[j].room
    BY <1>0, <1>1, <1>3, ToFacts
  <2> QED
    BY <1>1, <1>2, <2>1 DEF Sound, Handing, Rooming, Creation, Leaving, Deleting
<1> QED
  BY <1>1, <1>2, <1>3, <1>4, OnwardStep DEF Creation, Handing, Deleting

(***************************************************************************)
(* The books of the Manager.                                               *)
(***************************************************************************)

\* A step of j that changes the books, of rooms nobody is about to track.
Booked(j) ==
  /\ jobs' \in [Jobs -> Job] /\ Others(j) /\ Sound(j)' /\ Creates(j)
  /\ UNCHANGED <<up, made, rooms, lost, seen, wire>>
  /\ jobs'[j].pc \notin {"create", "track"} \cup Deleting
  /\ jobs'[j].room \in {jobs[j].room, None}
  /\ ActiveWasMade' /\ OwnersAgree' /\ ActiveIsOwned'

LEMMA BookedStep ==
  ASSUME VoiceInv, NEW j \in Jobs, up, World', Booked(j),
         \A k \in Jobs : k # j /\ jobs[k].pc = "track" => active'[jobs[k].room] = None,
         \A k \in Jobs : k # j /\ jobs[k].pc \in Creation /\ jobs[k].user \notin received' =>
                           jobs[k].user \notin received /\ owned'[jobs[k].user] \in {owned[jobs[k].user], None},
         \A c \in rooms \ lost :
           /\ active[c] # None \/ (jobs[j].pc = "track" /\ jobs[j].room = c) => active'[c] # None
           /\ Handles(j, c) => Handles(j, c)'
  PROVE  VoiceInv'
<1>1. TypeOK /\ TypeOK' /\ World /\ jobs \in [Jobs -> Job]
  BY TypeParts, TypePartsNext DEF VoiceInv, Booked
<1>2. JobsSound'
  <2> SUFFICES ASSUME NEW i \in Jobs PROVE Sound(i)'
    BY DEF JobsSound
  <2>1. CASE i = j
    BY <2>1 DEF Booked
  <2>2. CASE i # j
    <3>1. jobs'[i] = jobs[i] /\ made' = made /\ rooms' = rooms /\ lost' = lost /\ Sound(i)
      BY <2>2 DEF Booked, Others, VoiceInv, JobsSound
    <3> QED
      BY <3>1 DEF Sound
  <2> QED
    BY <2>1, <2>2
<1>3. NewIsNobodys'
  <2> SUFFICES ASSUME NEW k \in Jobs, jobs'[k].pc = "track"
               PROVE  /\ active'[jobs'[k].room] = None
                      /\ \A i \in Jobs :
                           /\ i # k => jobs'[i].room # jobs'[k].room
                           /\ jobs'[i].pc \in Deleting => jobs'[i].from # jobs'[k].room
    BY DEF NewIsNobodys, At
  <2>1. k # j /\ jobs'[k] = jobs[k]
    BY DEF Booked, Others
  <2>2. /\ active'[jobs[k].room] = None /\ jobs[k].room \in made
        /\ \A i \in Jobs :
             /\ i # k => jobs[i].room # jobs[k].room
             /\ jobs[i].pc \in Deleting => jobs[i].from # jobs[k].room
    BY <2>1 DEF VoiceInv, NewIsNobodys, At, JobsSound, Sound, Rooming, Creation
  <2>3. jobs[k].room # None
    BY <1>1, <2>2 DEF World
  <2>4. jobs'[j].room # jobs[k].room /\ jobs'[j].pc \notin Deleting
    BY <2>1, <2>2, <2>3 DEF Booked
  <2> QED
    BY <2>1, <2>2, <2>4 DEF Booked, Others
<1>4. OneCreator'
  BY CreatorStep DEF Booked
<1>5. NoneBefore'
  <2> SUFFICES ASSUME NEW k \in Jobs, jobs'[k].pc \in {"create", "track"}, jobs'[k].user \notin received'
               PROVE  owned'[jobs'[k].user] = None
    BY DEF NoneBefore
  <2>1. k # j /\ jobs'[k] = jobs[k] /\ jobs[k].pc \in Creation
    BY DEF Booked, Others, Creation
  <2>2. jobs[k].user \notin received /\ owned'[jobs[k].user] \in {owned[jobs[k].user], None}
    BY <2>1
  <2> QED
    BY <2>1, <2>2 DEF VoiceInv, NoneBefore
<1>6. KnownOrNew'
  <2> SUFFICES ASSUME NEW c \in rooms \ lost, active'[c] = None
               PROVE  \E k \in Jobs : jobs'[k].pc = "track" /\ jobs'[k].room = c
    BY DEF KnownOrNew, At, Booked
  <2>1. PICK k \in Jobs : jobs[k].pc = "track" /\ jobs[k].room = c
    BY DEF VoiceInv, KnownOrNew, At
  <2>2. k # j
    BY <2>1
  <2> QED
    BY <2>1, <2>2 DEF Booked, Others
<1>7. LookedAfter'
  <2> SUFFICES ASSUME NEW c \in rooms \ lost
               PROVE  (\E u \in Users : Around(u, c)') \/ \E k \in Jobs : Handles(k, c)'
    BY DEF LookedAfter, Booked
  <2>1. \A k \in Jobs : k # j /\ Handles(k, c) => Handles(k, c)'
    BY DEF Booked, Others, Handles
  <2>2. \A u \in Users : Around(u, c) => Around(u, c)'
    BY DEF Booked, Around
  <2> QED
    BY <2>1, <2>2 DEF VoiceInv, LookedAfter
<1>8. DownIsQuiet'
  BY DEF Booked, DownIsQuiet
<1> QED
  BY <1>1, <1>2, <1>3, <1>4, <1>5, <1>6, <1>7, <1>8 DEF VoiceInv, Booked

\* What is about to be tracked is none of the rooms a goroutine works on.
LEMMA NewIsElsewhere ==
  ASSUME VoiceInv, NEW j \in Jobs, NEW c,
         c = jobs[j].room \/ (jobs[j].pc \in Deleting /\ c = jobs[j].from)
  PROVE  \A k \in Jobs : k # j /\ jobs[k].pc = "track" => jobs[k].room # c /\ active[jobs[k].room] = None
BY DEF VoiceInv, NewIsNobodys, At

LEMMA TrackChannelKeeps ==
  ASSUME VoiceInv, NEW j \in Jobs, TrackChannel(j)
  PROVE  VoiceInv'
<1>0. PICK u, c : u = jobs[j].user /\ c = jobs[j].room
  OBVIOUS
<1>1. /\ up /\ World /\ jobs \in [Jobs -> Job] /\ Sound(j) /\ jobs[j].pc = "track"
      /\ u \in Users /\ c \in made /\ c \in Rooms /\ "save" \in PCs
  BY <1>0, Working DEF TrackChannel, At, Sound, Handing, Rooming, PCs, Creation, World
<1>2. /\ active' = [active EXCEPT ![c] = u] /\ owned' = [owned EXCEPT ![u] = c]
      /\ active \in [Rooms -> Users \cup {None}] /\ owned \in [Users -> Rooms \cup {None}]
  BY <1>0, <1>1 DEF TrackChannel, World
<1>3. World' /\ UNCHANGED <<up, discord, creating, lost, received>>
  BY <1>1, <1>2 DEF TrackChannel, World, discord, bounds, ghosts
<1>4. /\ jobs' \in [Jobs -> Job] /\ Others(j)
      /\ jobs'[j].pc = "save" /\ jobs'[j].user = u /\ jobs'[j].from = jobs[j].from /\ jobs'[j].room = c
  BY <1>0, <1>1, ToFacts DEF TrackChannel
<1>5. active[c] = None /\ (u \notin received => owned[u] = None)
  BY <1>0, <1>1 DEF VoiceInv, NewIsNobodys, NoneBefore, At
<1>6. ActiveWasMade' /\ OwnersAgree' /\ ActiveIsOwned'
  BY <1>1, <1>2, <1>3, <1>5 DEF VoiceInv, ActiveWasMade, OwnersAgree, ActiveIsOwned, discord
<1>7. Sound(j)'
  BY <1>1, <1>3, <1>4 DEF Sound, Handing, Rooming, Creation, Leaving, Deleting, discord
<1>8. Booked(j)
  BY <1>0, <1>1, <1>3, <1>4, <1>6, <1>7 DEF Booked, Creates, Creation, Deleting, discord
<1>9. \A k \in Jobs : k # j /\ jobs[k].pc = "track" => active'[jobs[k].room] = None
  <2> SUFFICES ASSUME NEW k \in Jobs, k # j, jobs[k].pc = "track" PROVE active'[jobs[k].room] = None
    OBVIOUS
  <2>1. jobs[k].room # c /\ active[jobs[k].room] = None
    BY <1>0, <1>1, NewIsElsewhere
  <2>2. jobs[k].room \in Rooms
    BY <1>1 DEF VoiceInv, JobsSound, Sound, Rooming, Creation, World
  <2> QED
    BY <1>2, <2>1, <2>2
<1>10. \A k \in Jobs : k # j /\ jobs[k].pc \in Creation => jobs[k].user # u /\ jobs[k].user \in Users
  BY <1>0, <1>1 DEF VoiceInv, OneCreator, Creation, JobsSound, Sound, Handing
<1>11. \A k \in Jobs : k # j /\ jobs[k].pc \in Creation /\ jobs[k].user \notin received' =>
         jobs[k].user \notin received /\ owned'[jobs[k].user] \in {owned[jobs[k].user], None}
  BY <1>2, <1>3, <1>10
<1>12. \A d \in rooms \ lost :
         /\ active[d] # None \/ (jobs[j].pc = "track" /\ jobs[j].room = d) => active'[d] # None
         /\ Handles(j, d) => Handles(j, d)'
  BY <1>0, <1>1, <1>2, <1>4 DEF Handles, Creation, Handing, World
<1> QED
  BY <1>1, <1>3, <1>8, <1>9, <1>11, <1>12, BookedStep

LEMMA RemoveChannelFacts ==
  ASSUME VoiceInv, NEW c \in Rooms, RemoveChannel(c), UNCHANGED <<made, received>>
  PROVE  /\ active' \in [Rooms -> Users \cup {None}] /\ owned' \in [Users -> Rooms \cup {None}]
         /\ active'[c] = None /\ \A d \in Rooms : d # c => active'[d] = active[d]
         /\ \A u \in Users : owned'[u] \in {owned[u], None}
         /\ ActiveWasMade' /\ OwnersAgree' /\ ActiveIsOwned'
<1>1. active \in [Rooms -> Users \cup {None}] /\ owned \in [Users -> Rooms \cup {None}]
  BY TypeParts DEF VoiceInv, World
<1>2. /\ active' \in [Rooms -> Users \cup {None}] /\ owned' \in [Users -> Rooms \cup {None}]
      /\ active'[c] = None /\ \A d \in Rooms : d # c => active'[d] = active[d]
      /\ \A u \in Users : owned'[u] = IF active[c] = u THEN None ELSE owned[u]
  BY <1>1 DEF RemoveChannel
<1>3. ActiveWasMade'
  BY <1>2 DEF VoiceInv, ActiveWasMade
<1>4. OwnersAgree'
  <2> SUFFICES ASSUME NEW u \in Users, owned'[u] # None PROVE active'[owned'[u]] = u
    BY DEF OwnersAgree
  <2>1. owned'[u] = owned[u] /\ active[c] # u /\ owned[u] \in Rooms /\ active[owned[u]] = u
    BY <1>1, <1>2 DEF VoiceInv, OwnersAgree
  <2> QED
    BY <1>2, <2>1
<1>5. ActiveIsOwned'
  <2> SUFFICES ASSUME NEW u \in Users \ received, NEW d \in Rooms, active'[d] = u PROVE owned'[u] = d
    BY DEF ActiveIsOwned
  <2>1. d # c /\ active[d] = u /\ owned[u] = d
    BY <1>2 DEF VoiceInv, ActiveIsOwned
  <2>2. active[c] # u
    BY <2>1 DEF VoiceInv, ActiveIsOwned
  <2> QED
    BY <1>2, <2>1, <2>2
<1> QED
  BY <1>2, <1>3, <1>4, <1>5

\* A goroutine takes off the books what it has deleted.
LEMMA TakeOffKeeps ==
  ASSUME VoiceInv, NEW j \in Jobs, NEW c,
         \/ jobs[j].pc = "untrack" /\ c = jobs[j].room /\ ThenLeave(j) /\ ReleaseCreationLock(j)
         \/ jobs[j].pc = "remove" /\ c = jobs[j].from /\ End(j) /\ UNCHANGED creating,
         RemoveChannel(c), UNCHANGED <<up, discord, cooling, record, verifying, bounds, ghosts>>
  PROVE  VoiceInv'
<1>1. /\ up /\ World /\ jobs \in [Jobs -> Job] /\ Sound(j) /\ c \in made /\ c \in Rooms
      /\ c \notin rooms \ lost
  <2>1. jobs[j].pc # "idle"
    OBVIOUS
  <2> QED
    BY <2>1, Working DEF Sound, Rooming, Creation, Leaving, Deleting, World
<1>2. UNCHANGED <<rooms, made, seen, wire, lost, received>>
  BY DEF discord, ghosts
<1>3. /\ active' \in [Rooms -> Users \cup {None}] /\ owned' \in [Users -> Rooms \cup {None}]
      /\ active'[c] = None /\ \A d \in Rooms : d # c => active'[d] = active[d]
      /\ \A u \in Users : owned'[u] \in {owned[u], None}
      /\ ActiveWasMade' /\ OwnersAgree' /\ ActiveIsOwned'
  BY <1>1, <1>2, RemoveChannelFacts
<1>4. creating' \subseteq creating
  BY DEF ReleaseCreationLock
<1>5. World'
  BY <1>1, <1>2, <1>3, <1>4 DEF World, bounds
<1>6. /\ jobs' \in [Jobs -> Job] /\ Others(j)
      /\ \/ /\ jobs'[j].pc = "leave" /\ jobs'[j].user = jobs[j].user
            /\ jobs'[j].from = jobs[j].from /\ jobs[j].from \in Rooms
            /\ jobs'[j].room = jobs[j].room /\ jobs[j].pc = "untrack"
         \/ /\ jobs[j].pc = "untrack" => jobs[j].from \notin Rooms
            /\ jobs'[j].pc = "idle" /\ jobs'[j].room = None
  BY <1>1, ThenLeaveFacts, EndFacts, IdleFacts
<1>7. Sound(j)'
  BY <1>1, <1>2, <1>6 DEF Sound, Handing, Rooming, Creation, Leaving, Deleting
<1>8. Creates(j)
  BY <1>6 DEF Creates, Creation, ReleaseCreationLock
<1>9. Booked(j)
  BY <1>2, <1>3, <1>6, <1>7, <1>8 DEF Booked, Deleting
<1>10. \A k \in Jobs : k # j /\ jobs[k].pc = "track" => active'[jobs[k].room] = None
  <2> SUFFICES ASSUME NEW k \in Jobs, k # j, jobs[k].pc = "track" PROVE active'[jobs[k].room] = None
    OBVIOUS
  <2>1. jobs[k].room # c /\ active[jobs[k].room] = None
    BY <1>1, NewIsElsewhere DEF Deleting
  <2>2. jobs[k].room \in Rooms
    BY <1>1 DEF VoiceInv, JobsSound, Sound, Rooming, Creation, World
  <2> QED
    BY <1>3, <2>1, <2>2
<1>11. \A k \in Jobs : k # j /\ jobs[k].pc \in Creation /\ jobs[k].user \notin received' =>
         jobs[k].user \notin received /\ owned'[jobs[k].user] \in {owned[jobs[k].user], None}
  BY <1>2, <1>3 DEF VoiceInv, JobsSound, Sound, Creation, Handing
<1>12. \A d \in rooms \ lost :
         /\ active[d] # None \/ (jobs[j].pc = "track" /\ jobs[j].room = d) => active'[d] # None
         /\ Handles(j, d) => Handles(j, d)'
  <2> SUFFICES ASSUME NEW d \in rooms \ lost
               PROVE  /\ active[d] # None => active'[d] # None
                      /\ Handles(j, d) => Handles(j, d)'
    OBVIOUS
  <2>1. d # c /\ d \in Rooms
    BY <1>1 DEF World
  <2>2. Handles(j, d) => jobs[j].pc = "untrack" /\ jobs[j].from = d
    BY <2>1 DEF Handles, Creation
  <2> QED
    BY <1>3, <1>6, <2>1, <2>2 DEF Handles, Handing
<1> QED
  BY <1>1, <1>5, <1>9, <1>10, <1>11, <1>12, BookedStep

LEMMA UntrackKeeps ==
  ASSUME VoiceInv, NEW j \in Jobs, Untrack(j)
  PROVE  VoiceInv'
<1>1. PICK c : c = jobs[j].room
  OBVIOUS
<1> QED
  BY <1>1, TakeOffKeeps DEF Untrack, At

LEMMA RemoveKeeps ==
  ASSUME VoiceInv, NEW j \in Jobs, Remove(j)
  PROVE  VoiceInv'
<1>1. PICK c : c = jobs[j].from
  OBVIOUS
<1> QED
  BY <1>1, TakeOffKeeps DEF Remove, At

\* A room passes from one owner to another, and takes the other's place.
LEMMA HandedFacts ==
  ASSUME VoiceInv, NEW c \in Rooms, NEW x \in Users, NEW y \in Users, active[c] = x,
         active' = [active EXCEPT ![c] = y], owned' = [owned EXCEPT ![x] = None, ![y] = c],
         received' = received \cup {y}, made' = made
  PROVE  /\ active' \in [Rooms -> Users \cup {None}] /\ owned' \in [Users -> Rooms \cup {None}]
         /\ active'[c] = y /\ \A d \in Rooms : d # c => active'[d] = active[d]
         /\ \A u \in Users : u # y => owned'[u] \in {owned[u], None}
         /\ ActiveWasMade' /\ OwnersAgree' /\ ActiveIsOwned'
<1>1. active \in [Rooms -> Users \cup {None}] /\ owned \in [Users -> Rooms \cup {None}]
  BY TypeParts DEF VoiceInv, World
<1>2. /\ active' \in [Rooms -> Users \cup {None}] /\ owned' \in [Users -> Rooms \cup {None}]
      /\ active'[c] = y /\ \A d \in Rooms : d # c => active'[d] = active[d]
      /\ owned'[y] = c /\ (x # y => owned'[x] = None)
      /\ \A u \in Users \ {x, y} : owned'[u] = owned[u]
  BY <1>1
<1>3. ActiveWasMade'
  BY <1>2 DEF VoiceInv, ActiveWasMade
<1>4. OwnersAgree'
  <2> SUFFICES ASSUME NEW u \in Users, owned'[u] # None PROVE active'[owned'[u]] = u
    BY DEF OwnersAgree
  <2>1. CASE u = y
    BY <1>2, <2>1
  <2>2. CASE u # y
    <3>1. u # x /\ owned'[u] = owned[u] /\ owned[u] \in Rooms /\ active[owned[u]] = u
      BY <1>1, <1>2, <2>2 DEF VoiceInv, OwnersAgree
    <3> QED
      BY <1>2, <3>1
  <2> QED
    BY <2>1, <2>2
<1>5. ActiveIsOwned'
  <2> SUFFICES ASSUME NEW u \in Users, u \notin received, u # y, NEW d \in Rooms, active'[d] = u
               PROVE  owned'[u] = d
    BY DEF ActiveIsOwned
  <2>1. d # c /\ active[d] = u /\ owned[u] = d
    BY <1>2 DEF VoiceInv, ActiveIsOwned
  <2>2. u # x
    BY <2>1 DEF VoiceInv, ActiveIsOwned
  <2> QED
    BY <1>2, <2>1, <2>2
<1> QED
  BY <1>2, <1>3, <1>4, <1>5

\* The step of a transfer that hands the room on.
LEMMA HandingStep ==
  ASSUME VoiceInv, NEW j \in Jobs, jobs[j].pc \in Handing, jobs' \in [Jobs -> Job], Others(j), Sound(j)',
         jobs'[j].pc \in {"persist", "idle"}, jobs'[j].room \in {jobs[j].room, None},
         NEW c, c = jobs[j].room, NEW x \in Users, NEW y \in Users, active[c] = x,
         active' = [active EXCEPT ![c] = y], owned' = [owned EXCEPT ![x] = None, ![y] = c],
         received' = received \cup {y}, errors' \in 0..MaxErrors,
         UNCHANGED <<up, discord, creating, cooling, record, verifying, moves, lost>>
  PROVE  VoiceInv'
<1>1. up /\ World /\ jobs \in [Jobs -> Job] /\ Sound(j) /\ c \in made /\ c \in Rooms
  <2>1. jobs[j].pc # "idle"
    BY DEF Handing
  <2> QED
    BY <2>1, Working DEF Sound, World
<1>2. UNCHANGED <<rooms, made, seen, wire>>
  BY DEF discord
<1>3. /\ active' \in [Rooms -> Users \cup {None}] /\ owned' \in [Users -> Rooms \cup {None}]
      /\ active'[c] = y /\ \A d \in Rooms : d # c => active'[d] = active[d]
      /\ \A u \in Users : u # y => owned'[u] \in {owned[u], None}
      /\ ActiveWasMade' /\ OwnersAgree' /\ ActiveIsOwned'
  BY <1>1, <1>2, HandedFacts
<1>4. World'
  BY <1>1, <1>2, <1>3 DEF World
<1>5. Booked(j)
  BY <1>2, <1>3 DEF Booked, Creates, Creation, Deleting
<1>6. \A k \in Jobs : k # j /\ jobs[k].pc = "track" => active'[jobs[k].room] = None
  <2> SUFFICES ASSUME NEW k \in Jobs, k # j, jobs[k].pc = "track" PROVE active'[jobs[k].room] = None
    OBVIOUS
  <2>1. jobs[k].room # c /\ active[jobs[k].room] = None
    BY NewIsElsewhere
  <2>2. jobs[k].room \in Rooms
    BY <1>1 DEF VoiceInv, JobsSound, Sound, Rooming, Creation, World
  <2> QED
    BY <1>3, <2>1, <2>2
<1>7. \A k \in Jobs : k # j /\ jobs[k].pc \in Creation /\ jobs[k].user \notin received' =>
         jobs[k].user \notin received /\ owned'[jobs[k].user] \in {owned[jobs[k].user], None}
  BY <1>3 DEF VoiceInv, JobsSound, Sound, Creation, Handing
<1>8. \A d \in rooms \ lost :
         /\ active[d] # None \/ (jobs[j].pc = "track" /\ jobs[j].room = d) => active'[d] # None
         /\ Handles(j, d) => Handles(j, d)'
  BY <1>1, <1>3 DEF Handles, Creation, Handing, World
<1> QED
  BY <1>1, <1>4, <1>5, <1>6, <1>7, <1>8, BookedStep

\* The step of a transfer that hands nothing on ends it.
LEMMA HandingEnds ==
  ASSUME VoiceInv, NEW j \in Jobs, jobs[j].pc \in Handing, End(j), errors' \in 0..MaxErrors,
         UNCHANGED <<up, discord, manager, record, verifying, moves, ghosts>>
  PROVE  VoiceInv'
<1>1. up /\ World /\ jobs \in [Jobs -> Job] /\ Sound(j)
  <2>1. jobs[j].pc # "idle"
    BY DEF Handing
  <2> QED
    BY <2>1, Working
<1>2. jobs' \in [Jobs -> Job] /\ Others(j) /\ jobs'[j].pc = "idle" /\ jobs'[j].room = None
  BY <1>1, EndFacts, IdleFacts
<1>3. World' /\ AllStillAround
      /\ UNCHANGED <<up, rooms, made, active, owned, creating, lost, received>>
  BY <1>1, SameWire DEF World, discord, manager, ghosts
<1>4. Sound(j)'
  BY <1>2 DEF Sound, Handing, Rooming, Creation, Leaving, Deleting
<1>5. Unbooked(j) /\ Creates(j) /\ jobs'[j].pc # "create"
  BY <1>2, <1>3, <1>4 DEF Unbooked, Creates, Deleting, Creation, Handing
<1>6. \A c \in rooms' \ lost' : StillSeenTo(j, c)
  BY <1>1, <1>3 DEF StillSeenTo, AllStillAround, Handles, World, Creation, Handing
<1> QED
  BY <1>1, <1>3, <1>5, <1>6, OrdinaryStep

LEMMA TransferKeeps ==
  ASSUME VoiceInv, NEW j \in Jobs, Transfer(j)
  PROVE  VoiceInv'
<1>0. PICK c, u, x : c = jobs[j].room /\ u = jobs[j].to /\ x = active[c]
  OBVIOUS
<1>1. /\ up /\ World /\ jobs \in [Jobs -> Job] /\ jobs[j] \in Job /\ Sound(j) /\ jobs[j].pc = "transfer"
      /\ u \in Users /\ c \in made /\ c \in Rooms
  BY <1>0, Working DEF Transfer, At, Sound, Handing, World
<1>2. x \in Users \cup {None} /\ errors' \in 0..MaxErrors
  BY <1>0, <1>1 DEF World, Transfer, bounds
<1>3. CASE x = None
  BY <1>0, <1>1, <1>2, <1>3, HandingEnds DEF Transfer, Handing, manager, bounds, ghosts
<1>4. CASE x # None
  <2> DEFINE n == [jobs[j] EXCEPT !.pc = "persist", !.old = x]
  <2>1. n \in Job /\ n.pc = "persist" /\ n.room = c /\ n.to = u /\ n.old = x
    BY <1>0, <1>1, <1>2 DEF Job, PCs
  <2>2. jobs' = [jobs EXCEPT ![j] = n]
    BY <1>0, <1>4 DEF Transfer
  <2> HIDE DEF n
  <2>3. jobs' \in [Jobs -> Job] /\ Others(j) /\ jobs'[j] = n
    BY <1>1, <2>1, <2>2, TakeFacts
  <2>4. /\ active' = [active EXCEPT ![c] = u] /\ owned' = [owned EXCEPT ![x] = None, ![u] = c]
        /\ received' = received \cup {u}
        /\ UNCHANGED <<up, discord, creating, cooling, record, verifying, moves, lost>>
    BY <1>0, <1>4 DEF Transfer, bounds
  <2>5. Sound(j)'
    BY <1>1, <1>2, <1>4, <2>1, <2>3, <2>4 DEF Sound, Handing, Rooming, Creation, Leaving, Deleting, discord
  <2>6. jobs[j].pc \in Handing /\ jobs'[j].pc \in {"persist", "idle"} /\ jobs'[j].room \in {jobs[j].room, None}
    BY <1>0, <1>1, <2>1, <2>3 DEF Handing
  <2> QED
    BY <1>0, <1>1, <1>2, <1>4, <2>3, <2>4, <2>5, <2>6, HandingStep
<1> QED
  BY <1>3, <1>4

LEMMA PersistKeeps ==
  ASSUME VoiceInv, NEW j \in Jobs, Persist(j)
  PROVE  VoiceInv'
<1>0. PICK c, u, x : c = jobs[j].room /\ u = jobs[j].to /\ x = jobs[j].old
  OBVIOUS
<1>1. /\ up /\ World /\ jobs \in [Jobs -> Job] /\ Sound(j) /\ jobs[j].pc = "persist"
      /\ u \in Users /\ x \in Users /\ jobs[j].pc \in Handing
  BY <1>0, Working DEF Persist, At, Sound, Handing
<1>2. errors' \in 0..MaxErrors /\ End(j)
  BY <1>1, FailsFacts DEF Persist, World
<1>3. CASE UNCHANGED <<active, owned, received>>
  BY <1>1, <1>2, <1>3, HandingEnds DEF Persist, manager, ghosts
<1>4. CASE ~UNCHANGED <<active, owned, received>>
  <2>1. /\ active[c] = u /\ active' = [active EXCEPT ![c] = x]
        /\ owned' = [owned EXCEPT ![u] = None, ![x] = c] /\ received' = received \cup {x}
        /\ UNCHANGED <<up, discord, creating, cooling, record, verifying, moves, lost>>
    BY <1>0, <1>4 DEF Persist
  <2>2. jobs' \in [Jobs -> Job] /\ Others(j) /\ jobs'[j].pc = "idle" /\ jobs'[j].room = None
    BY <1>1, <1>2, EndFacts, IdleFacts
  <2>3. Sound(j)'
    BY <2>2 DEF Sound, Handing, Rooming, Creation, Leaving, Deleting
  <2>4. jobs'[j].pc \in {"persist", "idle"} /\ jobs'[j].room \in {jobs[j].room, None}
    BY <2>2
  <2> QED
    BY <1>0, <1>1, <1>2, <2>1, <2>2, <2>3, <2>4, HandingStep
<1> QED
  BY <1>3, <1>4

-----------------------------------------------------------------------------
(***************************************************************************)
(* The invariant, and the property.                                        *)
(***************************************************************************)

LEMMA InitHolds == Init => VoiceInv
<1> SUFFICES ASSUME Init PROVE VoiceInv
  OBVIOUS
<1>1. TypeOK
  <2>1. jobs \in [Jobs -> Job]
    BY IdleFacts DEF Init
  <2>2. 0 \in 0..MaxMoves /\ 0 \in 0..MaxErrors /\ Out \in Channels
    BY DEF Channels
  <2>3. <<>> \in Seq(Channels)
    OBVIOUS
  <2>4. seen \in [Users -> Channels] /\ wire \in [Users -> Seq(Channels)]
    BY <2>2, <2>3 DEF Init
  <2>5. World
    BY <2>2, <2>4 DEF Init, World
  <2> QED
    BY <2>1, <2>5, TypeParts
<1>2. \A j \in Jobs : jobs[j].pc = "idle" /\ jobs[j].room = None
  BY IdleFacts DEF Init
<1>3. JobsSound /\ NewIsNobodys /\ OneCreator /\ NoneBefore
  BY <1>2 DEF JobsSound, Sound, NewIsNobodys, OneCreator, NoneBefore, At, Handing, Rooming, Leaving,
              Deleting, Creation
<1>4. ActiveWasMade /\ OwnersAgree /\ ActiveIsOwned
  BY DEF Init, ActiveWasMade, OwnersAgree, ActiveIsOwned
<1>5. DownIsQuiet /\ KnownOrNew /\ LookedAfter
  BY DEF Init, DownIsQuiet, KnownOrNew, LookedAfter
<1> QED
  BY <1>1, <1>3, <1>4, <1>5 DEF VoiceInv

LEMMA NextKeeps == VoiceInv /\ [Next]_vars => VoiceInv'
<1> SUFFICES ASSUME VoiceInv, [Next]_vars PROVE VoiceInv'
  OBVIOUS
<1>1. ASSUME NEW u \in Users, NEW x \in rooms \cup {Trigger, Out}, Move(u, x) PROVE VoiceInv'
  BY <1>1, MoveKeeps
<1>2. ASSUME NEW u \in Users, NEW j \in Jobs, Deliver(u, j) PROVE VoiceInv'
  BY <1>2, DeliverKeeps
<1>3. ASSUME NEW u \in Users, NEW j \in Jobs, Claim(u, j) PROVE VoiceInv'
  BY <1>3, ClaimKeeps
<1>4. ASSUME NEW u \in Users, NEW v \in Users, NEW j \in Jobs, HandOver(u, v, j) PROVE VoiceInv'
  BY <1>4, HandOverKeeps
<1>5. ASSUME NEW u \in Users, CooldownEnds(u) PROVE VoiceInv'
  BY <1>5, CooldownEndsKeeps
<1>6. ASSUME NEW j \in Jobs, JobStep(j) PROVE VoiceInv'
  BY <1>6, JoinKeeps, ExistingKeeps, CreateKeeps, TrackChannelKeeps, SaveKeeps, MoveInKeeps, DiscardKeeps,
     UntrackKeeps, LeaveKeeps, DeleteKeeps, RemoveKeeps, TransferKeeps, PersistKeeps DEF JobStep
<1>7. CASE Crash
  BY <1>7, CrashKeeps
<1>8. CASE Start \/ Verify
  BY <1>8, RestartKeeps
<1>9. CASE UNCHANGED vars
  <2>1. TypeOK'
    BY <1>9 DEF VoiceInv, TypeOK, vars, discord, manager, bounds, ghosts
  <2>2. World'
    BY <2>1, TypePartsNext
  <2>3. UNCHANGED <<up, jobs, made, rooms, lost, active, owned, received, creating, seen, wire>>
    BY <1>9 DEF vars, discord, manager, ghosts
  <2>4. \A u \in Users, c \in rooms \ lost : Around(u, c) => Around(u, c)'
    BY <2>3 DEF Around
  <2> QED
    BY <2>2, <2>3, <2>4, QuietStep
<1> QED
  BY <1>1, <1>2, <1>3, <1>4, <1>5, <1>6, <1>7, <1>8, <1>9 DEF Next

\* In every reachable state VoiceInv holds.
THEOREM VoiceInvAlways == Spec => []VoiceInv
BY InitHolds, NextKeeps, PTL DEF Spec

\* Every variable keeps its type, and every goroutine its shape.
THEOREM TypeCorrect == Spec => []TypeOK
<1>1. VoiceInv => TypeOK
  BY DEF VoiceInv
<1> QED
  BY <1>1, VoiceInvAlways, PTL

\* No room is left behind, the two maps of the Manager agree and a user makes one room at
\* a time, for any users, rooms and goroutines (listener.go, manager.go).
THEOREM RoomsAreKeptAlways == Spec => []RoomsAreKept
BY SafeState, VoiceInvAlways, PTL
=============================================================================
