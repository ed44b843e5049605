------------------------------ MODULE TempVoice ------------------------------
(***************************************************************************)
(* Temporary voice rooms of one guild (commands/voice): whoever joins the  *)
(* trigger channel gets a room and is moved into it, the room goes when    *)
(* the last one leaves, and its ownership can be handed over or claimed.   *)
(*                                                                         *)
(* Discord is asynchronous: a move is done when Discord does it, the bot   *)
(* sees it when the event arrives, and a goroutine handles it later, first *)
(* the channel joined, then the channel left.  Manager.mu makes every      *)
(* method of the Manager one step.  Settings, permissions and other guilds *)
(* play no part.                                                           *)
(***************************************************************************)
EXTENDS Naturals, Sequences, FiniteSets

CONSTANTS
  Users,
  Rooms,        \* bound: the channels Discord makes
  Jobs,         \* bound: goroutines at a time, 1..n
  Trigger, Out, \* the trigger channel; no voice channel, or one the bot does not mind
  None,
  MaxMoves,     \* bound: moves and commands of users
  MaxLag,       \* bound: events of a user on their way, when the user moves
  MaxErrors     \* bound: calls that fail and crashes

ASSUME VoiceAssumption ==
  /\ Trigger \notin Rooms /\ Out \notin Rooms \cup {Trigger} /\ None \notin Rooms \cup Users
  /\ MaxMoves \in Nat /\ MaxLag \in Nat /\ MaxErrors \in Nat

VARIABLES
  up,           \* the process runs
  rooms,        \* the rooms that exist
  made,         \* the rooms that were made
  seen,         \* user -> channel, in the session's state
  wire,         \* user -> where it went since, events on their way
  active,       \* activeChannels: room -> owner
  owned,        \* userChannels: user -> room
  creating,     \* creationLocks
  cooling,      \* cooldowns that have not expired
  record,       \* guild_temp_voice_channels has a row (see Save)
  verifying,    \* InitVoiceMaster has a row to verify
  jobs,         \* the goroutines
  moves, errors,
  lost,         \* ghost: rooms the code gives up
  received      \* ghost: users who were given a room that somebody else had

discord == <<rooms, made, seen, wire>>
manager == <<active, owned, creating, cooling>>
bounds == <<moves, errors>>
ghosts == <<lost, received>>
vars == <<up, discord, manager, record, verifying, jobs, bounds, ghosts>>

Channels == Rooms \cup {Trigger, Out}
Idle == [pc |-> "idle", user |-> None, from |-> None, room |-> None, to |-> None, old |-> None]
Creation == {"create", "track", "save", "moveIn", "discard", "untrack"}
PCs == Creation \cup {"idle", "join", "existing", "leave", "delete", "remove", "transfer", "persist"}

TypeOK ==
  /\ up \in BOOLEAN /\ rooms \subseteq made /\ made \subseteq Rooms
  /\ seen \in [Users -> Channels] /\ wire \in [Users -> Seq(Channels)]
  /\ active \in [Rooms -> Users \cup {None}] /\ owned \in [Users -> Rooms \cup {None}]
  /\ creating \subseteq Users /\ cooling \subseteq Users
  /\ record \in BOOLEAN /\ verifying \in BOOLEAN
  /\ jobs \in [Jobs -> [pc : PCs, user : Users \cup {None}, from : Channels \cup {None},
                        room : Rooms \cup {None}, to : Users \cup {None}, old : Users \cup {None}]]
  /\ moves \in 0..MaxMoves /\ errors \in 0..MaxErrors
  /\ lost \subseteq Rooms /\ received \subseteq Users

Init ==
  /\ up = TRUE /\ rooms = {} /\ made = {}
  /\ seen = [u \in Users |-> Out] /\ wire = [u \in Users |-> <<>>]
  /\ active = [c \in Rooms |-> None] /\ owned = [u \in Users |-> None]
  /\ creating = {} /\ cooling = {} /\ record = FALSE /\ verifying = FALSE
  /\ jobs = [j \in Jobs |-> Idle] /\ moves = 0 /\ errors = 0
  /\ lost = {} /\ received = {}

(***************************************************************************)
(* Discord.                                                                *)
(***************************************************************************)

Fails == errors < MaxErrors /\ errors' = errors + 1

\* Where a user is, and where it is yet to be seen.
Path(u) == <<seen[u]>> \o wire[u]
Where(u) == Path(u)[Len(Path(u))]
Inside(c) == {u \in Users : Where(u) = c}

\* GuildMemberMove: the room must be there and the user connected.
MoveTo(u, c) ==
  /\ c \in rooms /\ Where(u) # Out
  /\ wire' = IF Where(u) = c THEN wire ELSE [wire EXCEPT ![u] = Append(@, c)]
  /\ UNCHANGED <<rooms, made, seen, errors>>

MoveFails(u, c) ==
  /\ \/ (c \notin rooms \/ Where(u) = Out) /\ UNCHANGED errors
     \/ Fails
  /\ UNCHANGED discord

\* ChannelDelete of a room that may be gone: whoever is in it is disconnected.  The
\* caller forgets the room even if Discord keeps it.
ChannelDelete(c) ==
  \/ /\ rooms' = rooms \ {c}
     /\ wire' = [u \in Users |-> IF c \in rooms /\ u \in Inside(c) THEN Append(wire[u], Out) ELSE wire[u]]
     /\ UNCHANGED <<made, seen, lost, errors>>
  \/ Fails /\ lost' = lost \cup {c} /\ UNCHANGED discord

Move(u, c) ==
  /\ moves < MaxMoves /\ moves' = moves + 1 /\ c # Where(u)
  /\ IF up THEN Len(wire[u]) < MaxLag /\ wire' = [wire EXCEPT ![u] = Append(@, c)] /\ UNCHANGED seen
     ELSE seen' = [seen EXCEPT ![u] = c] /\ UNCHANGED wire
  /\ UNCHANGED <<up, rooms, made, manager, record, verifying, jobs, errors, ghosts>>

(***************************************************************************)
(* Goroutines.                                                             *)
(***************************************************************************)

Free(j) == jobs[j] = Idle /\ \A i \in Jobs : i < j => jobs[i] # Idle
At(j, pc) == jobs[j].pc = pc
To(j, pc) == jobs' = [jobs EXCEPT ![j].pc = pc]
End(j) == jobs' = [jobs EXCEPT ![j] = Idle]

\* The handler of a join goes on with the channel that was left.
ThenLeave(j) == IF jobs[j].from \in Rooms THEN To(j, "leave") ELSE End(j)

\* OnVoiceMasterUpdate.
Deliver(u, j) ==
  /\ up /\ wire[u] # <<>> /\ Free(j)
  /\ LET from == seen[u]
         to == Head(wire[u])
         work(pc) == [jobs EXCEPT ![j] = [Idle EXCEPT !.pc = pc, !.user = u, !.from = from]] IN
     /\ seen' = [seen EXCEPT ![u] = to] /\ wire' = [wire EXCEPT ![u] = Tail(@)]
     /\ jobs' = IF to = Trigger THEN work("join") ELSE IF from \in Rooms THEN work("leave") ELSE jobs
  /\ UNCHANGED <<up, rooms, made, manager, record, verifying, bounds, ghosts>>

(***************************************************************************)
(* handleChannelJoin.                                                      *)
(***************************************************************************)

\* Mutant: the lock is asked for, not what the user owns already.
JoinAgain(j) ==
  LET u == jobs[j].user IN
  /\ At(j, "join")
  /\ IF u \in cooling THEN ThenLeave(j) /\ UNCHANGED creating
     ELSE IF u \in creating THEN To(j, "existing") /\ UNCHANGED creating
     ELSE To(j, "create") /\ creating' = creating \cup {u}
  /\ UNCHANGED <<up, discord, active, owned, cooling, record, verifying, bounds, ghosts>>

\* The cooldown, then TryAcquireCreationLock.
Join(j) ==
  LET u == jobs[j].user IN
  /\ At(j, "join")
  /\ \/ /\ Fails \/ (u \in cooling /\ UNCHANGED errors)
        /\ ThenLeave(j) /\ UNCHANGED creating
     \/ /\ u \notin cooling /\ UNCHANGED errors
        /\ IF u \in creating \/ owned[u] # None THEN To(j, "existing") /\ UNCHANGED creating
           ELSE To(j, "create") /\ creating' = creating \cup {u}
  /\ UNCHANGED <<up, discord, active, owned, cooling, record, verifying, moves, ghosts>>

\* Who has a room is moved there.
Existing(j) ==
  LET u == jobs[j].user IN
  /\ At(j, "existing")
  /\ IF owned[u] = None THEN UNCHANGED <<discord, errors>>
     ELSE MoveTo(u, owned[u]) \/ MoveFails(u, owned[u])
  /\ ThenLeave(j)
  /\ UNCHANGED <<up, manager, record, verifying, moves, ghosts>>

ReleaseCreationLock(j) == creating' = creating \ {jobs[j].user}

Create(j) ==
  /\ At(j, "create")
  /\ \/ \E c \in Rooms \ made :
          /\ rooms' = rooms \cup {c} /\ made' = made \cup {c}
          /\ jobs' = [jobs EXCEPT ![j].pc = "track", ![j].room = c]
          /\ UNCHANGED <<creating, errors>>
     \/ /\ (made = Rooms /\ UNCHANGED errors) \/ Fails
        /\ ThenLeave(j) /\ ReleaseCreationLock(j)
        /\ UNCHANGED <<rooms, made>>
  /\ UNCHANGED <<up, seen, wire, active, owned, cooling, record, verifying, moves, ghosts>>

TrackChannel(j) ==
  /\ At(j, "track")
  /\ active' = [active EXCEPT ![jobs[j].room] = jobs[j].user]
  /\ owned' = [owned EXCEPT ![jobs[j].user] = jobs[j].room]
  /\ To(j, "save")
  /\ UNCHANGED <<up, discord, creating, cooling, record, verifying, bounds, ghosts>>

\* SaveTempVoiceChannel takes the guild first and is given the room first: the row's
\* channel_id is the guild, there is one row, and no call finds it by a room.
Save(j) ==
  /\ At(j, "save")
  /\ \/ record' = TRUE /\ UNCHANGED errors
     \/ Fails /\ UNCHANGED record
  /\ cooling' = cooling \cup {jobs[j].user}
  /\ To(j, "moveIn")
  /\ UNCHANGED <<up, discord, active, owned, creating, verifying, moves, ghosts>>

\* Mutant: a room whose creator could not be moved in stays.
MoveInRegardless(j) ==
  LET u == jobs[j].user
      c == jobs[j].room IN
  /\ At(j, "moveIn")
  /\ MoveTo(u, c) \/ MoveFails(u, c)
  /\ ThenLeave(j) /\ ReleaseCreationLock(j)
  /\ UNCHANGED <<up, active, owned, cooling, record, verifying, moves, ghosts>>

MoveIn(j) ==
  LET u == jobs[j].user
      c == jobs[j].room IN
  /\ At(j, "moveIn")
  /\ \/ MoveTo(u, c) /\ ThenLeave(j) /\ ReleaseCreationLock(j)
     \/ MoveFails(u, c) /\ To(j, "discard") /\ UNCHANGED creating
  /\ UNCHANGED <<up, active, owned, cooling, record, verifying, moves, ghosts>>

Discard(j) ==
  /\ At(j, "discard")
  /\ ChannelDelete(jobs[j].room)
  /\ To(j, "untrack")
  /\ UNCHANGED <<up, manager, record, verifying, moves, received>>

\* RemoveChannel: the owner's room goes too, whichever it is by now.
RemoveChannel(c) ==
  /\ active' = [active EXCEPT ![c] = None]
  /\ owned' = [u \in Users |-> IF active[c] = u THEN None ELSE owned[u]]

Untrack(j) ==
  /\ At(j, "untrack")
  /\ RemoveChannel(jobs[j].room)
  /\ ThenLeave(j) /\ ReleaseCreationLock(j)
  /\ UNCHANGED <<up, discord, cooling, record, verifying, bounds, ghosts>>

CooldownEnds(u) ==
  /\ u \in cooling /\ cooling' = cooling \ {u}
  /\ UNCHANGED <<up, discord, active, owned, creating, record, verifying, jobs, bounds, ghosts>>

(***************************************************************************)
(* handleChannelLeave.                                                     *)
(***************************************************************************)

\* An active room in which nobody is seen is deleted.
Leave(j) ==
  LET c == jobs[j].from IN
  /\ At(j, "leave")
  /\ IF active[c] # None /\ \A u \in Users : seen[u] # c THEN To(j, "delete") ELSE End(j)
  /\ UNCHANGED <<up, discord, manager, record, verifying, bounds, ghosts>>

Delete(j) ==
  /\ At(j, "delete")
  /\ ChannelDelete(jobs[j].from)
  /\ To(j, "remove")
  /\ UNCHANGED <<up, manager, record, verifying, moves, received>>

Remove(j) ==
  /\ At(j, "remove")
  /\ RemoveChannel(jobs[j].from)
  /\ End(j)
  /\ UNCHANGED <<up, discord, creating, cooling, record, verifying, bounds, ghosts>>

(***************************************************************************)
(* Commands: transfer and claim.                                           *)
(***************************************************************************)

Command(j, c, u) ==
  /\ up /\ moves < MaxMoves /\ moves' = moves + 1 /\ Free(j)
  /\ jobs' = [jobs EXCEPT ![j] = [Idle EXCEPT !.pc = "transfer", !.room = c, !.to = u]]
  /\ UNCHANGED <<up, discord, manager, record, verifying, errors, ghosts>>

\* Its owner, in the bot's books, gives a room to somebody.
HandOver(u, v, j) == u # v /\ owned[u] # None /\ Command(j, owned[u], v)

\* Somebody in a room takes it over while its owner is elsewhere.
Claim(u, j) ==
  LET c == seen[u] IN
  c \in Rooms /\ active[c] # None /\ seen[active[c]] # c /\ Command(j, c, u)

\* TransferOwnership, in memory.
Transfer(j) ==
  LET c == jobs[j].room
      u == jobs[j].to
      old == active[c] IN
  /\ At(j, "transfer")
  /\ IF old = None THEN End(j) /\ UNCHANGED <<active, owned, received>>
     ELSE /\ active' = [active EXCEPT ![c] = u]
          /\ owned' = [owned EXCEPT ![old] = None, ![u] = c]
          /\ received' = received \cup {u}
          /\ jobs' = [jobs EXCEPT ![j].pc = "persist", ![j].old = old]
  /\ UNCHANGED <<up, discord, creating, cooling, record, verifying, bounds, lost>>

\* Mutant: a failure gives the room back whoever has it by now.
PersistBlindly(j) ==
  LET c == jobs[j].room
      u == jobs[j].to
      old == jobs[j].old IN
  /\ At(j, "persist")
  /\ \/ UNCHANGED <<active, owned, received, errors>>
     \/ /\ Fails /\ active[c] # None
        /\ active' = [active EXCEPT ![c] = old]
        /\ owned' = [owned EXCEPT ![u] = None, ![old] = c]
        /\ received' = received \cup {old}
  /\ End(j)
  /\ UNCHANGED <<up, discord, creating, cooling, record, verifying, moves, lost>>

\* UpdateTempVoiceChannelOwner finds no row; if it fails the room goes back to whom
\* it was taken from, unless it was handed on meanwhile.
Persist(j) ==
  LET c == jobs[j].room
      u == jobs[j].to
      old == jobs[j].old IN
  /\ At(j, "persist")
  /\ \/ UNCHANGED <<active, owned, received, errors>>
     \/ Fails /\ active[c] # u /\ UNCHANGED <<active, owned, received>>
     \/ /\ Fails /\ active[c] = u
        /\ active' = [active EXCEPT ![c] = old]
        /\ owned' = [owned EXCEPT ![u] = None, ![old] = c]
        /\ received' = received \cup {old}
  /\ End(j)
  /\ UNCHANGED <<up, discord, creating, cooling, record, verifying, moves, lost>>

(***************************************************************************)
(* Restart.                                                                *)
(***************************************************************************)

\* What was in memory is gone; the rooms stay.
Crash ==
  /\ up /\ Fails /\ up' = FALSE /\ verifying' = FALSE
  /\ seen' = [u \in Users |-> Where(u)] /\ wire' = [u \in Users |-> <<>>]
  /\ active' = [c \in Rooms |-> None] /\ owned' = [u \in Users |-> None]
  /\ creating' = {} /\ cooling' = {} /\ jobs' = [j \in Jobs |-> Idle]
  /\ lost' = lost \cup rooms
  /\ UNCHANGED <<rooms, made, record, moves, received>>

\* InitVoiceMaster tracks what the row names, which is the guild and no room.
Start ==
  /\ ~up /\ up' = TRUE
  /\ \/ verifying' = record /\ UNCHANGED errors
     \/ Fails /\ UNCHANGED verifying
  /\ UNCHANGED <<discord, manager, record, jobs, moves, ghosts>>

\* Five seconds later: there is no channel of that name, and the row goes; or the
\* channel or the row cannot be asked for, and it stays.
Verify ==
  /\ verifying /\ verifying' = FALSE
  /\ \/ record' = FALSE /\ UNCHANGED errors
     \/ Fails /\ UNCHANGED record
  /\ UNCHANGED <<up, discord, manager, jobs, moves, ghosts>>

(***************************************************************************)
(* The specification.                                                      *)
(***************************************************************************)

JobStep(j) ==
  \/ Join(j) \/ Existing(j) \/ Create(j) \/ TrackChannel(j) \/ Save(j) \/ MoveIn(j)
  \/ Discard(j) \/ Untrack(j) \/ Leave(j) \/ Delete(j) \/ Remove(j) \/ Transfer(j) \/ Persist(j)

Next ==
  \/ \E u \in Users, c \in rooms \cup {Trigger, Out} : Move(u, c)
  \/ \E u \in Users, j \in Jobs : Deliver(u, j) \/ Claim(u, j) \/ \E v \in Users : HandOver(u, v, j)
  \/ \E u \in Users : CooldownEnds(u)
  \/ \E j \in Jobs : JobStep(j)
  \/ Crash \/ Start \/ Verify

Spec == Init /\ [][Next]_vars

(***************************************************************************)
(* Properties.                                                             *)
(***************************************************************************)

\* Somebody is yet to be seen leaving c, or a goroutine deals with it.
Watched(c) ==
  \/ \E u \in Users : \E i \in 1..Len(wire[u]) : Path(u)[i] = c
  \/ \E j \in Jobs : jobs[j] # Idle /\ c \in {jobs[j].from, jobs[j].room} /\ ~At(j, "transfer") /\ ~At(j, "persist")

\* No room is left behind: one that exists is tracked, or about to be, and once it
\* is empty some goroutine will see that it is, however the creator's move, the
\* others' moves and their events interleave; unless its deletion failed or the
\* bot restarted (listener.go:94-127, 176-218).
RoomsAreLookedAfter ==
  \A c \in rooms \ lost :
    /\ active[c] # None \/ \E j \in Jobs : At(j, "track") /\ jobs[j].room = c
    /\ Inside(c) # {} \/ Watched(c)

\* The two maps of the Manager agree: the room a user is said to own is active and
\* the user's (manager.go:74-97, 126-155).
OwnersAgree == \A u \in Users : owned[u] # None => active[owned[u]] = u

\* A user makes no second room while the first is active, however often the
\* trigger channel is joined, unless a room of somebody else's came in between
\* (manager.go:51-64).
OneRoomEach == \A u \in Users \ received : Cardinality({c \in Rooms : active[c] = u}) <= 1

\* Memory and Discord agree on which rooms there are, whose they are and who will delete
\* them, whatever fails in between.
RoomsAreKept == RoomsAreLookedAfter /\ OwnersAgree /\ OneRoomEach
=============================================================================
