----------------------------- MODULE Starboard ------------------------------
(***************************************************************************)
(* The starboard of one guild, for one message (listeners/starboard.go and *)
(* the starboard table): a message with enough stars is posted in the      *)
(* starboard channel, its count is kept up, and the post is taken down     *)
(* when too few are left.                                                  *)
(*                                                                         *)
(* Every star that is set or taken back is a goroutine, handled in any     *)
(* order, under the message's lock from the count on.  What a post says    *)
(* other than its count plays no part.                                     *)
(***************************************************************************)
EXTENDS Naturals, FiniteSets

CONSTANTS
  Jobs,        \* goroutines
  Members, Author,
  Channels,    \* that may be the starboard
  Threshold,
  Idle, Nothing,
  MaxEvents,   \* bound: stars set or taken back, and changes of the channel
  MaxErrors    \* bound: calls to Discord and to the database that fail

VARIABLES
  stars,       \* who has set one
  starboard,   \* starboard_channel_id
  selfReactDisabled,
  posts,       \* in the channels: <<id, channel>> -> the count it shows
  lastPost,
  entry,       \* the row of the message: the id of its post, or Nothing
  lock,        \* of the message
  jobs,
  events, errors,
  moved,       \* ghost: the channel was changed
  lost         \* ghost: posts the bot failed to record or to take down

discord == <<stars, posts, lastPost>>
settings == <<starboard, selfReactDisabled>>
ghosts == <<moved, lost>>
vars == <<discord, settings, entry, lock, jobs, events, errors, ghosts>>

TypeOK ==
  /\ stars \subseteq Members /\ starboard \in Channels
  /\ DOMAIN posts \subseteq (1..lastPost) \X Channels
  /\ entry \in 1..lastPost \cup {Nothing} /\ lock \in Jobs \cup {Idle}

Init ==
  /\ stars = {} /\ starboard \in Channels /\ selfReactDisabled \in BOOLEAN
  /\ posts = << >> /\ lastPost = 0 /\ entry = Nothing /\ lock = Idle
  /\ jobs = [j \in Jobs |-> Idle] /\ events = 0 /\ errors = 0
  /\ moved = FALSE /\ lost = {}

\* by: whose star; self: selfReactDisabled; post: of the row.
Blank == [step |-> "settings", adds |-> TRUE, by |-> Nothing, channel |-> Nothing,
          self |-> FALSE, count |-> 0, post |-> Nothing]

At(j, step) == jobs[j] # Idle /\ jobs[j].step = step
Becomes(j, job) == jobs' = [jobs EXCEPT ![j] = job]
Goes(j, step) == Becomes(j, [jobs[j] EXCEPT !.step = step])
Fails == errors < MaxErrors /\ errors' = errors + 1
Ends(j) == Becomes(j, Idle) /\ lock' = Idle

Place(job) == <<job.post, job.channel>>

\* A star is set or taken back, and the event delivered.
React(j, p) ==
  /\ jobs[j] = Idle /\ events < MaxEvents /\ events' = events + 1
  /\ stars' = IF p \in stars THEN stars \ {p} ELSE stars \cup {p}
  /\ Becomes(j, [Blank EXCEPT !.adds = p \notin stars, !.by = p])
  /\ UNCHANGED <<posts, lastPost, settings, entry, lock, errors, ghosts>>

ChangeChannel ==
  /\ events < MaxEvents /\ events' = events + 1
  /\ starboard' \in Channels \ {starboard} /\ moved' = TRUE
  /\ UNCHANGED <<discord, selfReactDisabled, entry, lock, jobs, errors, lost>>

ReadSettings(j) ==
  /\ At(j, "settings")
  /\ Becomes(j, [jobs[j] EXCEPT !.step = "lock", !.channel = starboard, !.self = selfReactDisabled])
  /\ UNCHANGED <<discord, settings, entry, lock, events, errors, ghosts>>

\* Mutant: the lock is forgotten.
NoLock(j) ==
  /\ At(j, "lock")
  /\ Goes(j, IF jobs[j].adds THEN "count" ELSE "entry")
  /\ UNCHANGED <<discord, settings, entry, lock, events, errors, ghosts>>

Lock(j) ==
  /\ At(j, "lock") /\ lock = Idle /\ lock' = j
  /\ Goes(j, IF jobs[j].adds THEN "count" ELSE "entry")
  /\ UNCHANGED <<discord, settings, entry, events, errors, ghosts>>

\* countValidStarReactors.
Valid(self) == Cardinality(IF self THEN stars \ {Author} ELSE stars)

\* OnStarboardReactionAdd: the message as it is by now.
CountAdded(j) ==
  LET job == jobs[j]
      count == Valid(job.self) IN
  /\ At(j, "count") /\ job.adds
  /\ \/ /\ count >= Threshold /\ ~(job.self /\ job.by = Author)
        /\ Becomes(j, [job EXCEPT !.step = "entry", !.count = count])
        /\ UNCHANGED <<lock, errors>>
     \/ /\ count < Threshold \/ (job.self /\ job.by = Author)
        /\ Ends(j) /\ UNCHANGED errors
     \/ Fails /\ Ends(j)
  /\ UNCHANGED <<discord, settings, entry, events, ghosts>>

\* OnStarboardReactionRemove: a message that cannot be fetched has no stars.
CountLeft(j) ==
  LET job == jobs[j] IN
  /\ At(j, "count") /\ ~job.adds
  /\ \/ /\ Becomes(j, [job EXCEPT !.step = "publish", !.count = Cardinality(stars)])
        /\ UNCHANGED errors
     \/ Fails /\ Becomes(j, [job EXCEPT !.step = "publish", !.count = 0])
  /\ UNCHANGED <<discord, settings, entry, lock, events, ghosts>>

\* The row: there must be one to take a star back from.
GetStarboardEntry(j) ==
  LET job == jobs[j] IN
  /\ At(j, "entry")
  /\ \/ /\ job.adds \/ entry # Nothing
        /\ Becomes(j, [job EXCEPT !.step = IF job.adds THEN "publish" ELSE "count", !.post = entry])
        /\ UNCHANGED <<lock, errors>>
     \/ /\ ~job.adds /\ entry = Nothing
        /\ Ends(j) /\ UNCHANGED errors
     \/ Fails /\ Ends(j)
  /\ UNCHANGED <<discord, settings, entry, events, ghosts>>

\* No row: a new post.  One that cannot be sent is given up.
Send(j) ==
  LET job == jobs[j] IN
  /\ At(j, "publish") /\ job.post = Nothing
  /\ \/ /\ lastPost' = lastPost + 1
        /\ posts' = [q \in DOMAIN posts \cup {<<lastPost', job.channel>>} |->
                       IF q \in DOMAIN posts THEN posts[q] ELSE job.count]
        /\ Becomes(j, [job EXCEPT !.step = "save", !.post = lastPost'])
        /\ UNCHANGED <<lock, errors>>
     \/ Fails /\ Ends(j) /\ UNCHANGED <<posts, lastPost>>
  /\ UNCHANGED <<stars, settings, entry, events, ghosts>>

\* Mutant: only stars that are set are shown.
EditUpwards(j) ==
  LET job == jobs[j] IN
  /\ At(j, "publish") /\ job.post # Nothing /\ (job.adds \/ job.count >= Threshold)
  /\ Goes(j, "save")
  /\ \/ /\ posts' = IF Place(job) \in DOMAIN posts /\ job.adds
                    THEN [posts EXCEPT ![Place(job)] = job.count] ELSE posts
        /\ UNCHANGED errors
     \/ Fails /\ UNCHANGED posts
  /\ UNCHANGED <<stars, lastPost, settings, entry, lock, events, ghosts>>

\* The post gets the new count, if it is where the starboard is now; saved all the same.
Edit(j) ==
  LET job == jobs[j] IN
  /\ At(j, "publish") /\ job.post # Nothing /\ (job.adds \/ job.count >= Threshold)
  /\ Goes(j, "save")
  /\ \/ /\ posts' = IF Place(job) \in DOMAIN posts
                    THEN [posts EXCEPT ![Place(job)] = job.count] ELSE posts
        /\ UNCHANGED errors
     \/ Fails /\ UNCHANGED posts
  /\ UNCHANGED <<stars, lastPost, settings, entry, lock, events, ghosts>>

\* Too few stars: the post is taken down, if it is where the starboard is now, and the row
\* deleted in any case.
TakeDown(j) ==
  LET job == jobs[j] IN
  /\ At(j, "publish") /\ ~job.adds /\ job.count < Threshold
  /\ Goes(j, "delete")
  /\ \/ /\ Place(job) \in DOMAIN posts
        /\ posts' = [q \in DOMAIN posts \ {Place(job)} |-> posts[q]]
        /\ UNCHANGED <<errors, lost>>
     \/ /\ Fails \/ (Place(job) \notin DOMAIN posts /\ UNCHANGED errors)
        /\ lost' = lost \cup {job.post} /\ UNCHANGED posts
  /\ UNCHANGED <<stars, lastPost, settings, entry, lock, events, moved>>

SaveEntry(j) ==
  LET job == jobs[j] IN
  /\ At(j, "save") /\ Ends(j)
  /\ \/ entry' = job.post /\ UNCHANGED <<errors, lost>>
     \/ Fails /\ lost' = (IF entry = job.post THEN lost ELSE lost \cup {job.post}) /\ UNCHANGED entry
  /\ UNCHANGED <<discord, settings, events, moved>>

DeleteEntry(j) ==
  /\ At(j, "delete") /\ Ends(j)
  /\ \/ entry' = Nothing /\ UNCHANGED errors
     \/ Fails /\ UNCHANGED entry
  /\ UNCHANGED <<discord, settings, events, ghosts>>

Handles(j) ==
  \/ ReadSettings(j) \/ Lock(j) \/ CountAdded(j) \/ CountLeft(j) \/ GetStarboardEntry(j)
  \/ Send(j) \/ Edit(j) \/ TakeDown(j) \/ SaveEntry(j) \/ DeleteEntry(j)

Next ==
  \/ \E j \in Jobs : Handles(j) \/ \E p \in Members : React(j, p)
  \/ ChangeChannel

Spec == Init /\ [][Next]_vars

(***************************************************************************)
(* Properties.                                                             *)
(***************************************************************************)

\* A message has one post at most, the one its row names, however its stars are handled:
\* but for posts the bot could not record, or could not take down when it dropped the row.
PostsAreRecorded ==
  (\A j \in Jobs : jobs[j] = Idle)
    => \A q \in DOMAIN posts : q[1] \in lost \/ q[1] = entry

\* When every star is handled, in whatever order, there is a post if and only if enough are
\* left, and it shows how many: unless a call failed or the channel was changed, and unless
\* the author's own stars do not count, as taking a star back counts them.
StarsMatch ==
  (\A j \in Jobs : jobs[j] = Idle) /\ errors = 0 /\ ~moved /\ ~selfReactDisabled
    => IF Cardinality(stars) < Threshold THEN DOMAIN posts = {}
       ELSE DOMAIN posts # {} /\ \A q \in DOMAIN posts : posts[q] = Cardinality(stars)
=============================================================================
