------------------------------- MODULE Snipe --------------------------------
(***************************************************************************)
(* What the bot remembers of the messages of one channel                   *)
(* (listeners/snipe.go, SnipeCache): the messages as they were last seen,  *)
(* and the lists of deleted messages, edits and removed reactions that the *)
(* snipe commands show, as long as the guild's limit allows.               *)
(*                                                                         *)
(* Every event is a goroutine, so they are handled in any order; each      *)
(* operation of the cache is atomic under its shard's mutex.  The tracked  *)
(* messages and the limit are of a few entries instead of 200 and 25.      *)
(***************************************************************************)
EXTENDS Naturals, Sequences, FiniteSets, SequencesExt

CONSTANTS
  Jobs,            \* goroutines
  Messages,
  MaxTracked,      \* maxTrackedMsgsPerChannel
  MaxLimit,        \* maxSnipeLimit
  DefaultLimit,    \* of a guild that has none, or cannot be read
  Idle,
  MaxEvents,       \* bound: goroutines that are started
  MaxErrors        \* bound: statements that fail

Lists == {"deleted", "edited", "reactions"}

VARIABLES
  discord,      \* message -> "none", "posted", "edited" or "gone"
  row,          \* snipe_limit in guild_configs
  limit,        \* guildLimits, 0 for none
  recentMsgs,   \* the messages tracked, with what they said
  lists,        \* deleted, edited, reactions
  autoMod,      \* autoModDeletedIDs
  jobs,
  events, errors,
  raced,        \* ghost: the limit was put by a reader that was overtaken, or the row was
                \* changed by the setup dashboard
  cleared,      \* ghost: messages there were when the channel was last cleared
  inHand        \* ghost: of them, those some handler had in hand then

cache == <<recentMsgs, lists>>
ghosts == <<raced, cleared, inHand>>
vars == <<discord, row, limit, cache, autoMod, jobs, events, errors, ghosts>>

Smaller(m, n) == IF m < n THEN m ELSE n

TypeOK ==
  /\ row \in 0..MaxLimit + 1 /\ limit \in 0..MaxLimit
  /\ recentMsgs \in Seq([id : Messages, content : {"posted", "edited"}])
  /\ Len(recentMsgs) <= MaxTracked
  /\ autoMod \subseteq Messages /\ cleared \subseteq Messages /\ inHand \subseteq Messages

Init ==
  /\ discord = [m \in Messages |-> "none"]
  /\ row = DefaultLimit /\ limit = 0
  /\ recentMsgs = << >> /\ lists = [l \in Lists |-> << >>] /\ autoMod = {}
  /\ jobs = [j \in Jobs |-> Idle] /\ events = 0 /\ errors = 0
  /\ raced = FALSE /\ cleared = {} /\ inHand = {}

\* todo: messages to look up; new: what an update says; list, entries: what is to be
\* added; value: a limit read or asked for.
Blank == [step |-> "done", todo |-> << >>, new |-> "", list |-> "deleted",
          entries |-> << >>, value |-> 0]

At(j, step) == jobs[j] # Idle /\ jobs[j].step = step
Becomes(j, job) == jobs' = [jobs EXCEPT ![j] = IF job.step = "done" THEN Idle ELSE job]
Goes(j, step) == Becomes(j, [jobs[j] EXCEPT !.step = step])
Starts(j, job) ==
  /\ jobs[j] = Idle /\ events < MaxEvents /\ events' = events + 1
  /\ Becomes(j, job)
Fails == errors < MaxErrors /\ errors' = errors + 1

(***************************************************************************)
(* The cache.                                                              *)
(***************************************************************************)

Ids(entries) == {entries[n].id : n \in DOMAIN entries}
Tracked(m) == CHOOSE n \in DOMAIN recentMsgs : recentMsgs[n].id = m
Newest(entries, n) ==
  SubSeq(entries, Len(entries) - Smaller(n, Len(entries)) + 1, Len(entries))

\* TrackMessage: replaced, or appended at the cost of the oldest.
TrackMessage(m) ==
  LET entry == [id |-> m, content |-> "posted"] IN
  recentMsgs' = IF m \in Ids(recentMsgs) THEN [recentMsgs EXCEPT ![Tracked(m)] = entry]
                ELSE Newest(Append(recentMsgs, entry), MaxTracked)

UpdateTracked(m, content) ==
  recentMsgs' = IF m \in Ids(recentMsgs) THEN [recentMsgs EXCEPT ![Tracked(m)].content = content]
                ELSE recentMsgs

GetTrackedMessage(m) == IF m \in Ids(recentMsgs) THEN <<recentMsgs[Tracked(m)]>> ELSE << >>

RemoveTrackedMessages(ms) ==
  recentMsgs' = SelectSeq(recentMsgs, LAMBDA e : e.id \notin ms)

\* AddDeleted, AddDeletedBatch, AddEdited, AddReaction.
Added(list, entries, most) ==
  lists' = [lists EXCEPT ![list] = Newest(@ \o entries, most)]

\* GetDeleted, GetEdited, GetReaction: number 1 is the latest.
Sniped(list) == {lists[list][n].id : n \in DOMAIN lists[list]}

\* SetLimit.
Clamped(n) == IF n < 1 THEN Smaller(15, MaxLimit) ELSE Smaller(n, MaxLimit)

(***************************************************************************)
(* Discord's events.                                                       *)
(***************************************************************************)

OnMessageCreateForSnipe(j, m) ==
  /\ discord[m] = "none"
  /\ discord' = [discord EXCEPT ![m] = "posted"]
  /\ Starts(j, [Blank EXCEPT !.step = "track", !.todo = <<m>>])
  /\ UNCHANGED <<row, limit, cache, autoMod, errors, ghosts>>

OnMessageUpdate(j, m) ==
  /\ discord[m] = "posted"
  /\ discord' = [discord EXCEPT ![m] = "edited"]
  /\ Starts(j, [Blank EXCEPT !.step = "find", !.todo = <<m>>, !.new = "edited", !.list = "edited"])
  /\ UNCHANGED <<row, limit, cache, autoMod, errors, ghosts>>

\* One message, or several at once, the oldest first.
OnMessageDelete(j, ms) ==
  /\ \A m \in ms : discord[m] \in {"posted", "edited"}
  /\ discord' = [m \in Messages |-> IF m \in ms THEN "gone" ELSE discord[m]]
  /\ \E order \in SetToSeqs(ms) : Starts(j, [Blank EXCEPT !.step = "find", !.todo = order])
  /\ UNCHANGED <<row, limit, cache, autoMod, errors, ghosts>>

OnMessageReactionRemove(j, m) ==
  /\ discord[m] \in {"posted", "edited"}
  /\ Starts(j, [Blank EXCEPT !.step = "limit", !.list = "reactions",
                             !.entries = <<[id |-> m, content |-> "posted"]>>])
  /\ UNCHANGED <<discord, row, limit, cache, autoMod, errors, ghosts>>

\* AutoMod took the message before anybody saw it.
MarkAutoModDeleted(m) ==
  /\ m \notin autoMod /\ autoMod' = autoMod \cup {m}
  /\ discord[m] \in {"posted", "gone"}
  /\ events < MaxEvents /\ events' = events + 1
  /\ UNCHANGED <<discord, row, limit, cache, jobs, errors, ghosts>>

Track(j) ==
  /\ At(j, "track") /\ Goes(j, "done")
  /\ TrackMessage(Head(jobs[j].todo))
  /\ UNCHANGED <<discord, row, limit, lists, autoMod, events, errors, ghosts>>

\* What a message said is looked up; of several, those of AutoMod are left out at once.
Find(j) ==
  LET job == jobs[j]
      m == Head(job.todo)
      found == IF Len(job.todo) > 1 /\ m \in autoMod THEN << >> ELSE GetTrackedMessage(m) IN
  /\ At(j, "find")
  /\ Becomes(j, [job EXCEPT !.entries = @ \o found, !.todo = Tail(@) \o <<m>>,
                            !.value = @ + 1,
                            !.step = IF job.value + 1 < Len(job.todo) THEN "find"
                                     ELSE IF job.list = "edited" THEN "update" ELSE "untrack"])
  /\ UNCHANGED <<discord, row, limit, cache, autoMod, events, errors, ghosts>>

\* The edit is kept; one that changes nothing, or of a message not known, is not shown.
Update(j) ==
  LET job == jobs[j]
      changed == job.entries # << >> /\ job.entries[1].content # job.new IN
  /\ At(j, "update")
  /\ UpdateTracked(job.todo[1], job.new)
  /\ Goes(j, IF changed THEN "limit" ELSE "done")
  /\ UNCHANGED <<discord, row, limit, lists, autoMod, events, errors, ghosts>>

Untrack(j) ==
  LET job == jobs[j] IN
  /\ At(j, "untrack")
  /\ RemoveTrackedMessages({job.todo[n] : n \in DOMAIN job.todo})
  /\ Goes(j, IF job.entries = << >> \/ (Len(job.todo) = 1 /\ job.todo[1] \in autoMod)
             THEN "done" ELSE "limit")
  /\ UNCHANGED <<discord, row, limit, lists, autoMod, events, errors, ghosts>>

(***************************************************************************)
(* GetLimit: what is known, or the row's, which is put into the map later. *)
(***************************************************************************)

LimitKnown(j) ==
  /\ At(j, "limit") /\ limit > 0
  /\ Becomes(j, [jobs[j] EXCEPT !.step = "add", !.value = limit])
  /\ UNCHANGED <<discord, row, limit, cache, autoMod, events, errors, ghosts>>

LimitRead(j) ==
  /\ At(j, "limit") /\ limit = 0
  /\ \/ /\ Becomes(j, [jobs[j] EXCEPT !.step = "put",
                                      !.value = Smaller(IF row > 0 THEN row ELSE DefaultLimit, MaxLimit)])
        /\ UNCHANGED errors
     \/ /\ Fails
        /\ Becomes(j, [jobs[j] EXCEPT !.step = "put", !.value = Smaller(DefaultLimit, MaxLimit)])
  /\ UNCHANGED <<discord, row, limit, cache, autoMod, events, ghosts>>

LimitPut(j) ==
  /\ At(j, "put") /\ Goes(j, "add")
  /\ limit' = jobs[j].value
  /\ raced' = (jobs[j].value # Clamped(row))
  /\ UNCHANGED <<discord, row, cache, autoMod, events, errors, cleared, inHand>>

Add(j) ==
  LET job == jobs[j] IN
  /\ At(j, "add") /\ Goes(j, "done")
  /\ Added(job.list, job.entries, job.value)
  /\ UNCHANGED <<discord, row, limit, recentMsgs, autoMod, events, errors, ghosts>>

(***************************************************************************)
(* Commands, and time.                                                     *)
(***************************************************************************)

\* Mutant: the map is forgotten.
RowOnly(j, n) ==
  /\ Starts(j, Blank)
  /\ row' = n
  /\ UNCHANGED <<discord, limit, cache, autoMod, errors, ghosts>>

\* snipesettings: the row, then the map.
Snipesettings(j, n) ==
  /\ Starts(j, [Blank EXCEPT !.step = "set", !.value = n])
  /\ row' = n
  /\ UNCHANGED <<discord, limit, cache, autoMod, errors, ghosts>>

SetLimit(j) ==
  /\ At(j, "set") /\ Goes(j, "done")
  /\ limit' = Clamped(jobs[j].value)
  /\ raced' = (Clamped(jobs[j].value) # Clamped(row))
  /\ UNCHANGED <<discord, row, cache, autoMod, events, errors, cleared, inHand>>

\* The setup dashboard writes the row and knows nothing of the map.
SetupSaves(n) ==
  /\ events < MaxEvents /\ events' = events + 1
  /\ row' = n /\ raced' = (limit > 0)
  /\ UNCHANGED <<discord, limit, cache, autoMod, jobs, errors, cleared, inHand>>

\* A handler that has read the message is about to add it, or to track it.
InHand(m) ==
  \E j \in Jobs :
    /\ jobs[j] # Idle
    /\ m \in Ids(jobs[j].entries) \/ (jobs[j].step = "track" /\ jobs[j].todo = <<m>>)

\* Mutant: the messages stay tracked.
ClearLists ==
  /\ events < MaxEvents /\ events' = events + 1
  /\ lists' = [l \in Lists |-> << >>]
  /\ cleared' = {m \in Messages : discord[m] # "none"}
  /\ inHand' = {m \in cleared' : InHand(m)}
  /\ UNCHANGED <<discord, row, limit, recentMsgs, autoMod, jobs, errors, raced>>

\* clearsnipes.
Clear ==
  /\ events < MaxEvents /\ events' = events + 1
  /\ recentMsgs' = << >> /\ lists' = [l \in Lists |-> << >>]
  /\ cleared' = {m \in Messages : discord[m] # "none"}
  /\ inHand' = {m \in cleared' : InHand(m)}
  /\ UNCHANGED <<discord, row, limit, autoMod, jobs, errors, raced>>

\* The cleanup, every quarter of an hour, of a channel where nothing has happened for a day:
\* it knows of no messages in hand.
Cleanup == Clear

Events(j) ==
  \/ \E m \in Messages :
       OnMessageCreateForSnipe(j, m) \/ OnMessageUpdate(j, m) \/ OnMessageReactionRemove(j, m)
  \/ \E ms \in SUBSET Messages \ {{}} : OnMessageDelete(j, ms)

Handles(j) ==
  \/ Track(j) \/ Find(j) \/ Update(j) \/ Untrack(j)
  \/ LimitKnown(j) \/ LimitRead(j) \/ LimitPut(j) \/ Add(j)
  \/ SetLimit(j)

Next ==
  \/ \E j \in Jobs : Events(j) \/ Handles(j) \/ \E n \in 1..MaxLimit : Snipesettings(j, n)
  \/ \E m \in Messages : MarkAutoModDeleted(m)
  \/ \E n \in 1..MaxLimit : SetupSaves(n)
  \/ Clear \/ Cleanup

Spec == Init /\ [][Next]_vars

(***************************************************************************)
(* Properties.                                                             *)
(***************************************************************************)

\* The limit the lists obey is the guild's, once the command that changed it is through,
\* although it is kept until the bot restarts: unless a reader put an older one after it,
\* or the setup dashboard changed the row.
LimitIsCurrent ==
  limit = 0 \/ raced \/ limit = Clamped(row) \/ \E j \in Jobs : At(j, "set")

\* After clearsnipes no command shows a message there was before, however it is edited or
\* deleted later: unless a handler had it in hand at the time.  The reactions are not
\* looked up and not asked about.
ClearedStaysCleared ==
  \A l \in {"deleted", "edited"} : Sniped(l) \cap cleared \subseteq inHand
=============================================================================
