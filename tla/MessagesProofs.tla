--------------------------- MODULE MessagesProofs ---------------------------
(***************************************************************************)
(* Proofs about what the bot keeps of messages (starboard, pagination,     *)
(* embed builder) and about the radio's requests, voice connection and     *)
(* idle sessions, for any members, channels, goroutines and limits.  As in *)
(* the run, one process shows one component at a time: its specification   *)
(* is MessagesSpec, and the theorems are about the properties of the run.  *)
(***************************************************************************)
EXTENDS MCMessages, FiniteSetTheorems, SequenceTheorems, TLAPS

-----------------------------------------------------------------------------
(* A step of the run is a step of the component that it shows.             *)

Slots == <<focus, s1, s2, s3, s4, s5, s6, s7, s8, s9, s10, s11, s12, s13, s14, s15, s16, s17, s18,
           s19, s20, s21, s22, s23, s24, s25, s26, s27>>

LEMMA SlotsStay == ASSUME UNCHANGED <<focus, From1, mcvars>> PROVE UNCHANGED Slots
BY DEF Slots, From1, From12, From13, From14, From17, From23

LEMMA StepOfOne ==
  ASSUME [MessagesNext]_<<focus, From1, mcvars>>
  PROVE  /\ focus' = focus
         /\ focus = "starboard" => [Stars!Next]_(Stars!vars)
         /\ focus = "pagination" => [Paged!Next]_(Paged!vars)
         /\ focus = "embed builder" => [Embed!Next]_(Embed!vars)
         /\ focus = "requests" => [Ask!Next]_(Ask!vars)
         /\ focus = "voice transport" => [Transport!Next]_(Transport!vars)
         /\ focus = "idle" => [Leaving!Next]_(Leaving!vars)
<1>1. CASE MessagesNext
  BY <1>1 DEF MessagesNext
<1>2. CASE UNCHANGED <<focus, From1, mcvars>>
  <2>1. UNCHANGED Slots
    BY <1>2, SlotsStay
  <2>2. UNCHANGED Stars!vars
    BY <2>1 DEF Slots, Stars!vars, Stars!discord, Stars!settings, Stars!ghosts
  <2>3. UNCHANGED Paged!vars
    BY <2>1 DEF Slots, Paged!vars
  <2>4. UNCHANGED Embed!vars
    BY <2>1 DEF Slots, Embed!vars, Embed!store, Embed!discord, Embed!bounds, Embed!ghosts
  <2>5. UNCHANGED Ask!vars
    BY <2>1 DEF Slots, Ask!vars, Ask!radio, Ask!members, Ask!dialogs, Ask!voting, Ask!bounds
  <2>6. UNCHANGED Transport!vars
    BY <2>1 DEF Slots, Transport!vars, Transport!closed, Transport!fields, Transport!lost, Transport!dave,
                Transport!speech, Transport!network
  <2>7. UNCHANGED Leaving!vars
    BY <2>1 DEF Slots, Leaving!vars, Leaving!map, Leaving!manager, Leaving!bounds
  <2> QED BY <2>1, <2>2, <2>3, <2>4, <2>5, <2>6, <2>7 DEF Slots
<1> QED BY <1>1, <1>2

LEMMA InitOfOne ==
  ASSUME MessagesInit
  PROVE  /\ focus = "starboard" => Stars!Init
         /\ focus = "pagination" => Paged!Init
         /\ focus = "embed builder" => Embed!Init
         /\ focus = "requests" => Ask!Init
         /\ focus = "voice transport" => Transport!Init
         /\ focus = "idle" => Leaving!Init
BY DEF MessagesInit

-----------------------------------------------------------------------------
(***************************************************************************)
(* Starboard.  A job that holds the lock knows the row; what is in the     *)
(* channels and not lost is what the row names, or what that job is about  *)
(* to record.  While no call fails, and the channel stays: the stars       *)
(* changed since the post was made only if somebody has still to count.    *)
(***************************************************************************)

\* The variables by name.
stars == s1
starboard == s2
selfReactDisabled == s3
posts == s4
lastPost == s5
entry == s6
starLock == s7
starJobs == s8
starEvents == s9
starErrors == s10
moved == s11
lost == s12
USE DEF stars, starboard, selfReactDisabled, posts, lastPost, entry, starLock, starJobs,
        starEvents, starErrors, moved, lost

StarJob ==
  [step : {"settings", "lock", "count", "entry", "publish", "save", "delete"}, adds : BOOLEAN,
   by : Users \cup {Nothing}, channel : Channels \cup {Nothing}, self : BOOLEAN, count : Nat,
   post : Nat \cup {Nothing}]

StarTypes ==
  /\ stars \subseteq Users /\ IsFiniteSet(stars) /\ starboard \in Channels
  /\ selfReactDisabled \in BOOLEAN /\ moved \in BOOLEAN
  /\ starJobs \in [Jobs -> StarJob \cup {Idle}]
  /\ lastPost \in Nat /\ entry \in Nat \cup {Nothing}
  /\ starErrors \in Nat /\ starLock \in Jobs \cup {Idle}
  /\ DOMAIN posts \subseteq (1..lastPost) \X Channels

Busy(j) == starJobs[j] # Idle
Adds(j) == Busy(j) /\ starJobs[j].adds
Removes(j) == Busy(j) /\ ~starJobs[j].adds

Inside(j) == Busy(j) /\ starJobs[j].step \in {"count", "entry", "publish", "save", "delete"}
Locked == \A j \in Jobs : Inside(j) <=> starLock = j

\* The posts have numbers of their own.
Numbered == \A q, r \in DOMAIN posts : q[1] = r[1] => q = r

Kept ==
  \A q \in DOMAIN posts :
    \/ q[1] \in lost \/ q[1] = entry
    \/ \E j \in Jobs : Stars!At(j, "save") /\ starJobs[j].post = q[1]

\* What a job knows of the row.
Knows(j) ==
  Busy(j) =>
    /\ starJobs[j].step # "settings" => starJobs[j].channel \in Channels
    /\ starJobs[j].step = "publish" \/ (starJobs[j].step = "count" /\ Removes(j))
         => /\ starJobs[j].post = entry
            /\ Removes(j) => entry # Nothing
    /\ starJobs[j].step = "save" => /\ starJobs[j].post \in Nat
                                    /\ entry \in {Nothing, starJobs[j].post}
    /\ starJobs[j].step = "delete" => \A q \in DOMAIN posts : q[1] \in lost

\* Who has still to count, and who brings a count with him.
Uncounted(j) ==
  /\ Busy(j)
  /\ \/ starJobs[j].step \in {"settings", "lock", "count"}
     \/ Removes(j) /\ starJobs[j].step = "entry"
Carries(j) ==
  /\ Busy(j)
  /\ \/ starJobs[j].step = "publish"
     \/ Adds(j) /\ starJobs[j].step = "entry"

Calm == starErrors = 0 /\ ~moved /\ ~selfReactDisabled

InPlace(j) ==
  Busy(j) =>
    /\ starJobs[j].step # "settings" => starJobs[j].channel = starboard /\ ~starJobs[j].self
    /\ starJobs[j].step = "save" => DOMAIN posts = {<<starJobs[j].post, starboard>>}
    /\ starJobs[j].step = "delete" => DOMAIN posts = {}
    /\ Carries(j) /\ Adds(j) => starJobs[j].count >= Threshold

\* The post is where the row says, but for a job that changes both.
RowIsPost ==
  (\A j \in Jobs : ~Stars!At(j, "save") /\ ~Stars!At(j, "delete"))
    => DOMAIN posts = IF entry = Nothing THEN {} ELSE {<<entry, starboard>>}

RemovesPost(j) == Removes(j) /\ Carries(j) /\ starJobs[j].count < Threshold

\* A post, or a job that makes one, with too few stars: somebody is to take it down.
TooFew ==
  (DOMAIN posts # {} \/ \E j \in Jobs : Adds(j) /\ Carries(j)) /\ Cardinality(stars) < Threshold
    => \E j \in Jobs : Removes(j) /\ (Uncounted(j) \/ RemovesPost(j))

\* Enough stars and no post, or one that is taken down: somebody is to make one.
Enough ==
  (DOMAIN posts = {} \/ \E j \in Jobs : RemovesPost(j)) /\ Cardinality(stars) >= Threshold
    => \E j \in Jobs : Adds(j) /\ (Uncounted(j) \/ Carries(j))

Shows ==
  \/ \A q \in DOMAIN posts : posts[q] = Cardinality(stars)
  \/ \E j \in Jobs : Uncounted(j) \/ Carries(j)

Brings ==
  \A j \in Jobs : Carries(j) =>
    starJobs[j].count = Cardinality(stars) \/ \E k \in Jobs : Uncounted(k)

Matching ==
  (\A j \in Jobs : InPlace(j)) /\ RowIsPost /\ TooFew /\ Enough /\ Shows /\ Brings

\* What no member, channel or goroutine is.
StarsAssumed == Idle \notin Jobs /\ Idle \notin StarJob /\ Nothing \notin Nat /\ Threshold \in Nat \ {0}

StarInv ==
  /\ StarTypes /\ Locked /\ Numbered /\ Kept /\ \A j \in Jobs : Knows(j)
  /\ Calm => Matching

LEMMA StarAt ==
  ASSUME StarTypes, NEW j \in Jobs, NEW step, Stars!At(j, step)
  PROVE  /\ Busy(j) /\ starJobs[j] \in StarJob /\ starJobs[j].step = step
         /\ Adds(j) <=> starJobs[j].adds
         /\ Removes(j) <=> ~starJobs[j].adds
BY DEF StarTypes, Stars!At, Busy, Adds, Removes

\* One job moves.
LEMMA StarMoves ==
  ASSUME StarTypes, NEW j \in Jobs, NEW r \in StarJob \cup {Idle}, starJobs' = [starJobs EXCEPT ![j] = r]
  PROVE  /\ starJobs' \in [Jobs -> StarJob \cup {Idle}] /\ starJobs'[j] = r
         /\ \A k \in Jobs \ {j} : starJobs'[k] = starJobs[k]
BY DEF StarTypes

LEMMA LockFollows ==
  ASSUME StarTypes, Locked, Idle \notin Jobs, NEW j \in Jobs,
         \A k \in Jobs \ {j} : starJobs'[k] = starJobs[k],
         \/ starLock' = starLock /\ (Inside(j)' <=> Inside(j))
         \/ starLock' = Idle /\ Inside(j) /\ ~Inside(j)'
         \/ starLock = Idle /\ starLock' = j /\ Inside(j)'
  PROVE  Locked'
BY DEF StarTypes, Locked, Inside, Busy

LEMMA OneInside ==
  ASSUME Locked, NEW j \in Jobs, NEW k \in Jobs, Inside(j), Inside(k)
  PROVE  j = k
BY DEF Locked

LEMMA StarsCount == ASSUME NEW S PROVE Stars!Cardinality(S) = Cardinality(S)
BY DEF Stars!Cardinality, Cardinality

\* The count, of those who set one: on with it, or not enough.
LEMMA CountAddedIs ==
  ASSUME StarTypes, StarsAssumed, NEW j \in Jobs, Stars!CountAdded(j)
  PROVE  /\ Stars!At(j, "count") /\ Adds(j)
         /\ UNCHANGED <<stars, starboard, selfReactDisabled, posts, lastPost, entry, starEvents, moved, lost>>
         /\ \E r \in StarJob \cup {Idle} :
              /\ starJobs' = [starJobs EXCEPT ![j] = r]
              /\ \/ /\ r \in StarJob /\ r.step = "entry" /\ r.adds = TRUE
                    /\ r.channel = starJobs[j].channel /\ r.self = starJobs[j].self
                    /\ (~r.self => r.count = Cardinality(stars)) /\ r.count >= Threshold
                    /\ UNCHANGED <<starLock, starErrors>>
                 \/ /\ r = Idle /\ starLock' = Idle
                    /\ \/ UNCHANGED starErrors /\ (~starJobs[j].self => Cardinality(stars) < Threshold)
                       \/ starErrors' = starErrors + 1
<1> DEFINE job == starJobs[j]
           count == Stars!Valid(job.self)
           r == [job EXCEPT !.step = "entry", !.count = count]
<1>1. /\ Stars!At(j, "count") /\ job.adds
      /\ UNCHANGED <<stars, starboard, selfReactDisabled, posts, lastPost, entry, starEvents, moved, lost>>
  BY DEF Stars!CountAdded, Stars!discord, Stars!settings, Stars!ghosts
<1>2. job \in StarJob /\ job.step = "count" /\ Adds(j)
  BY <1>1, StarAt
<1>3. count \in Nat /\ (~job.self => count = Cardinality(stars))
  <2>1. IsFiniteSet(stars) /\ IsFiniteSet(stars \ {Admin})
    BY FS_RemoveElement DEF StarTypes
  <2>2. Cardinality(stars) \in Nat /\ Cardinality(stars \ {Admin}) \in Nat
    BY <2>1, FS_CardinalityType
  <2>3. CASE job.self
    BY <2>2, <2>3, StarsCount DEF Stars!Valid
  <2>4. CASE ~job.self
    BY <2>2, <2>4, StarsCount DEF Stars!Valid
  <2> QED BY <2>3, <2>4
<1>4. /\ r \in StarJob /\ r.step = "entry" /\ r.adds = TRUE /\ r.channel = job.channel
      /\ r.self = job.self /\ r.count = count
  BY <1>1, <1>2, <1>3 DEF StarJob
<1>5. CASE /\ count >= Threshold /\ starJobs' = [starJobs EXCEPT ![j] = r] /\ UNCHANGED <<starLock, starErrors>>
  BY <1>1, <1>2, <1>3, <1>4, <1>5
<1>6. CASE /\ count < Threshold \/ (job.self /\ job.by = Admin)
           /\ starJobs' = [starJobs EXCEPT ![j] = Idle] /\ starLock' = Idle /\ UNCHANGED starErrors
  BY <1>1, <1>2, <1>3, <1>6
<1>7. CASE starErrors' = starErrors + 1 /\ starJobs' = [starJobs EXCEPT ![j] = Idle] /\ starLock' = Idle
  BY <1>1, <1>2, <1>7
<1> HIDE DEF count, r
<1>8. \/ /\ count >= Threshold /\ starJobs' = [starJobs EXCEPT ![j] = r] /\ UNCHANGED <<starLock, starErrors>>
      \/ /\ count < Threshold \/ (job.self /\ job.by = Admin)
         /\ starJobs' = [starJobs EXCEPT ![j] = Idle] /\ starLock' = Idle /\ UNCHANGED starErrors
      \/ starErrors' = starErrors + 1 /\ starJobs' = [starJobs EXCEPT ![j] = Idle] /\ starLock' = Idle
  BY DEF Stars!CountAdded, Stars!Becomes, Stars!Ends, Stars!Fails, count, r
<1> QED BY <1>5, <1>6, <1>7, <1>8

\* A job that goes on and touches nothing but itself and the lock.
Untouched == UNCHANGED <<stars, starboard, selfReactDisabled, posts, lastPost, entry, moved, lost>>

LEMMA QuietKeeps ==
  ASSUME StarInv, StarsAssumed, NEW j \in Jobs, NEW r \in StarJob \cup {Idle},
         starJobs' = [starJobs EXCEPT ![j] = r], Untouched,
         starErrors' \in Nat, starErrors' >= starErrors, starLock' \in Jobs \cup {Idle}, Locked',
         ~Stars!At(j, "save"), r # Idle => r.step \notin {"save", "delete"},
         Knows(j)', Calm /\ Calm' => Matching'
  PROVE  StarInv'
<1>1. /\ starJobs' \in [Jobs -> StarJob \cup {Idle}] /\ starJobs'[j] = r
      /\ \A k \in Jobs \ {j} : starJobs'[k] = starJobs[k]
  BY StarMoves DEF StarInv
<1>2. StarTypes' /\ Numbered'
  BY <1>1 DEF StarInv, StarTypes, Numbered, Untouched
<1>3. Kept'
  BY <1>1 DEF StarInv, Kept, Untouched, Stars!At
<1>4. \A k \in Jobs \ {j} : Knows(k)'
  BY <1>1 DEF StarInv, Knows, Busy, Removes, Untouched
<1>5. Calm' => Calm
  BY DEF StarInv, StarTypes, Calm, Untouched
<1> QED BY <1>2, <1>3, <1>4, <1>5 DEF StarInv

\* The part a job plays stays as it is.
SamePart(k) ==
  /\ Adds(k)' <=> Adds(k)
  /\ Removes(k)' <=> Removes(k)
  /\ Uncounted(k)' <=> Uncounted(k)
  /\ Carries(k)' <=> Carries(k)
  /\ Carries(k) => starJobs'[k].count = starJobs[k].count
  /\ Stars!At(k, "save")' <=> Stars!At(k, "save")
  /\ Stars!At(k, "delete")' <=> Stars!At(k, "delete")

LEMMA SameJob ==
  ASSUME NEW k \in Jobs, starJobs'[k] = starJobs[k]
  PROVE  SamePart(k) /\ (Busy(k)' <=> Busy(k))
<1>1. Busy(k)' <=> Busy(k)
  BY DEF Busy
<1>2. (Adds(k)' <=> Adds(k)) /\ (Removes(k)' <=> Removes(k))
  BY <1>1 DEF Adds, Removes
<1>3. (Uncounted(k)' <=> Uncounted(k)) /\ (Carries(k)' <=> Carries(k))
  BY <1>1, <1>2 DEF Uncounted, Carries
<1>4. (Stars!At(k, "save")' <=> Stars!At(k, "save")) /\ (Stars!At(k, "delete")' <=> Stars!At(k, "delete"))
  BY DEF Stars!At
<1> QED BY <1>1, <1>2, <1>3, <1>4 DEF SamePart

LEMMA OthersInPlace ==
  ASSUME NEW k \in Jobs, starJobs'[k] = starJobs[k], InPlace(k), UNCHANGED <<starboard, posts>>
  PROVE  InPlace(k)'
<1>1. /\ Busy(k)' <=> Busy(k)
      /\ Carries(k)' <=> Carries(k)
      /\ Adds(k)' <=> Adds(k)
  BY SameJob DEF SamePart
<1> QED BY <1>1 DEF InPlace

LEMMA AllSamePart ==
  ASSUME Matching, Untouched, \A k \in Jobs : SamePart(k) /\ InPlace(k)'
  PROVE  Matching'
<1>1. \A k \in Jobs : RemovesPost(k)' <=> RemovesPost(k)
  BY DEF RemovesPost, SamePart
<1>4. RowIsPost'
  BY DEF Matching, RowIsPost, Untouched, SamePart
<1>5. TooFew'
  BY <1>1 DEF Matching, TooFew, Untouched, SamePart
<1>6. Enough'
  BY <1>1 DEF Matching, Enough, Untouched, SamePart
<1>7. Shows'
  BY <1>1 DEF Matching, Shows, Untouched, SamePart
<1>8. Brings'
  BY <1>1 DEF Matching, Brings, Untouched, SamePart
<1> QED BY <1>4, <1>5, <1>6, <1>7, <1>8 DEF Matching

LEMMA OneSamePart ==
  ASSUME Matching, Untouched, NEW j \in Jobs, SamePart(j), InPlace(j)',
         \A k \in Jobs \ {j} : starJobs'[k] = starJobs[k]
  PROVE  Matching'
<1>1. ASSUME NEW k \in Jobs PROVE SamePart(k) /\ InPlace(k)'
  <2>1. CASE k = j
    BY <2>1
  <2>2. CASE k # j
    BY <2>2, SameJob, OthersInPlace DEF Matching, Untouched
  <2> QED BY <2>1, <2>2
<1> QED BY <1>1, AllSamePart

LEMMA ReadSettingsKeeps ==
  ASSUME StarInv, StarsAssumed, NEW j \in Jobs, Stars!ReadSettings(j)
  PROVE  StarInv'
<1> DEFINE r == [starJobs[j] EXCEPT !.step = "lock", !.channel = starboard, !.self = selfReactDisabled]
<1>1. /\ Stars!At(j, "settings") /\ starJobs' = [starJobs EXCEPT ![j] = r] /\ Untouched
      /\ UNCHANGED <<starLock, starErrors>>
  BY DEF Stars!ReadSettings, Stars!Becomes, Stars!discord, Stars!settings, Stars!ghosts, Untouched
<1>2. StarTypes /\ starJobs[j] \in StarJob /\ starJobs[j].step = "settings" /\ Busy(j)
  BY <1>1, StarAt DEF StarInv
<1>3. /\ r \in StarJob /\ r.step = "lock" /\ r.channel = starboard /\ r.self = selfReactDisabled
      /\ r.adds = starJobs[j].adds
  BY <1>2 DEF StarJob, StarTypes
<1> HIDE DEF r
<1>4. starJobs'[j] = r /\ r # Idle /\ \A k \in Jobs \ {j} : starJobs'[k] = starJobs[k]
  BY <1>1, <1>2, <1>3, StarMoves DEF StarsAssumed
<1>5. Knows(j)' /\ (Inside(j)' <=> Inside(j))
  BY <1>1, <1>2, <1>3, <1>4 DEF Knows, Busy, Inside, StarTypes, Untouched, Removes
<1>6. Locked'
  BY <1>1, <1>2, <1>4, <1>5, LockFollows DEF StarInv, StarsAssumed
<1>7. ASSUME Calm PROVE Matching'
  <2>1. InPlace(j)'
    BY <1>1, <1>2, <1>3, <1>4, <1>7 DEF InPlace, Carries, Adds, Removes, Busy, Calm, StarTypes, Untouched
  <2>2. SamePart(j)
    BY <1>1, <1>2, <1>3, <1>4 DEF SamePart, Adds, Removes, Uncounted, Carries, Busy, Stars!At
  <2> QED BY <1>1, <1>4, <1>7, <2>1, <2>2, OneSamePart DEF StarInv
<1>8. /\ r \in StarJob \cup {Idle} /\ ~Stars!At(j, "save") /\ r.step \notin {"save", "delete"}
      /\ starErrors' \in Nat /\ starErrors' >= starErrors /\ starLock' \in Jobs \cup {Idle}
  BY <1>1, <1>2, <1>3 DEF StarTypes, Stars!At
<1> QED BY <1>1, <1>5, <1>6, <1>7, <1>8, QuietKeeps

LEMMA LockKeeps ==
  ASSUME StarInv, StarsAssumed, NEW j \in Jobs, Stars!Lock(j)
  PROVE  StarInv'
<1> DEFINE r == [starJobs[j] EXCEPT !.step = IF starJobs[j].adds THEN "count" ELSE "entry"]
<1>1. /\ Stars!At(j, "lock") /\ starJobs' = [starJobs EXCEPT ![j] = r] /\ Untouched
      /\ starLock = Idle /\ starLock' = j /\ UNCHANGED starErrors
  BY DEF Stars!Lock, Stars!Goes, Stars!Becomes, Stars!discord, Stars!settings, Stars!ghosts, Untouched
<1>2. StarTypes /\ starJobs[j] \in StarJob /\ starJobs[j].step = "lock" /\ Busy(j)
  BY <1>1, StarAt DEF StarInv
<1>3. /\ r \in StarJob /\ r.channel = starJobs[j].channel /\ r.self = starJobs[j].self
      /\ r.adds = starJobs[j].adds /\ r.step = (IF r.adds THEN "count" ELSE "entry")
  BY <1>2 DEF StarJob
<1> HIDE DEF r
<1>4. starJobs'[j] = r /\ r # Idle /\ \A k \in Jobs \ {j} : starJobs'[k] = starJobs[k]
  BY <1>1, <1>2, <1>3, StarMoves DEF StarsAssumed
<1>5. Knows(j)' /\ Inside(j)'
  <2>1. Knows(j)
    BY DEF StarInv
  <2> QED BY <1>1, <1>2, <1>3, <1>4, <2>1 DEF Knows, Busy, Inside, Removes
<1>6. Locked'
  BY <1>1, <1>2, <1>4, <1>5, LockFollows DEF StarInv, StarsAssumed
<1>7. ASSUME Calm PROVE Matching'
  <2>1. InPlace(j) /\ Matching
    BY <1>7 DEF StarInv, Matching
  <2>2. InPlace(j)'
    BY <1>1, <1>2, <1>3, <1>4, <2>1 DEF InPlace, Carries, Adds, Removes, Busy, Untouched
  <2>3. SamePart(j)
    BY <1>1, <1>2, <1>3, <1>4 DEF SamePart, Adds, Removes, Uncounted, Carries, Busy, Stars!At
  <2> QED BY <1>1, <1>4, <2>1, <2>2, <2>3, OneSamePart
<1>8. /\ r \in StarJob \cup {Idle} /\ ~Stars!At(j, "save") /\ r.step \notin {"save", "delete"}
      /\ starErrors' \in Nat /\ starErrors' >= starErrors /\ starLock' \in Jobs \cup {Idle}
  BY <1>1, <1>2, <1>3 DEF StarTypes, Stars!At
<1> QED BY <1>1, <1>5, <1>6, <1>7, <1>8, QuietKeeps

\* The others, while a job holds the lock.
LEMMA Alone ==
  ASSUME Locked, NEW j \in Jobs, Inside(j), NEW k \in Jobs, k # j
  PROVE  /\ ~Inside(k) /\ ~Carries(k) /\ ~RemovesPost(k)
         /\ ~Stars!At(k, "save") /\ ~Stars!At(k, "delete")
<1>1. ~Inside(k)
  BY OneInside
<1> QED BY <1>1 DEF Inside, Carries, RemovesPost, Stars!At, Busy

LEMMA CountAddedKeeps ==
  ASSUME StarInv, StarsAssumed, NEW j \in Jobs, Stars!CountAdded(j)
  PROVE  StarInv'
<1>1. StarTypes /\ Locked /\ Knows(j)
  BY DEF StarInv
<1>2. /\ Stars!At(j, "count") /\ Adds(j) /\ Untouched
      /\ \E r \in StarJob \cup {Idle} :
           /\ starJobs' = [starJobs EXCEPT ![j] = r]
           /\ \/ /\ r \in StarJob /\ r.step = "entry" /\ r.adds = TRUE
                 /\ r.channel = starJobs[j].channel /\ r.self = starJobs[j].self
                 /\ (~r.self => r.count = Cardinality(stars)) /\ r.count >= Threshold
                 /\ UNCHANGED <<starLock, starErrors>>
              \/ /\ r = Idle /\ starLock' = Idle
                 /\ \/ UNCHANGED starErrors /\ (~starJobs[j].self => Cardinality(stars) < Threshold)
                    \/ starErrors' = starErrors + 1
  BY <1>1, CountAddedIs DEF Untouched
<1>3. Busy(j) /\ starJobs[j] \in StarJob /\ starJobs[j].step = "count" /\ Inside(j) /\ ~Stars!At(j, "save")
  BY <1>1, <1>2, StarAt DEF Inside, Stars!At
<1>4. PICK r \in StarJob \cup {Idle} :
        /\ starJobs' = [starJobs EXCEPT ![j] = r]
        /\ \/ /\ r \in StarJob /\ r.step = "entry" /\ r.adds = TRUE
              /\ r.channel = starJobs[j].channel /\ r.self = starJobs[j].self
              /\ (~r.self => r.count = Cardinality(stars)) /\ r.count >= Threshold
              /\ UNCHANGED <<starLock, starErrors>>
           \/ /\ r = Idle /\ starLock' = Idle
              /\ \/ UNCHANGED starErrors /\ (~starJobs[j].self => Cardinality(stars) < Threshold)
                 \/ starErrors' = starErrors + 1
  BY <1>2
<1>5. starJobs'[j] = r /\ \A k \in Jobs \ {j} : starJobs'[k] = starJobs[k] /\ SamePart(k)
  BY <1>1, <1>4, StarMoves, SameJob
<1>6. \A k \in Jobs \ {j} : ~Carries(k) /\ ~RemovesPost(k)
  BY <1>1, <1>3, Alone
<1>7. Cardinality(stars) \in Nat
  BY <1>1, FS_CardinalityType DEF StarTypes
<1>8. ASSUME Calm
      PROVE  /\ Matching /\ ~starJobs[j].self /\ starJobs[j].channel = starboard
             /\ \A k \in Jobs \ {j} : InPlace(k)'
  <2>1. Matching
    BY <1>8 DEF StarInv
  <2> QED BY <1>2, <1>3, <1>5, <2>1, OthersInPlace DEF Matching, InPlace, Untouched
<1>9. CASE /\ r \in StarJob /\ r.step = "entry" /\ r.adds = TRUE
           /\ r.channel = starJobs[j].channel /\ r.self = starJobs[j].self
           /\ (~r.self => r.count = Cardinality(stars)) /\ r.count >= Threshold
           /\ UNCHANGED <<starLock, starErrors>>
  <2>1. /\ Adds(j)' /\ Carries(j)' /\ ~Removes(j)' /\ Inside(j)' /\ ~RemovesPost(j)'
        /\ ~Stars!At(j, "save")' /\ ~Stars!At(j, "delete")'
    BY <1>5, <1>9 DEF StarsAssumed, Adds, Carries, Removes, Inside, Busy, Stars!At, RemovesPost
  <2>2. Knows(j)'
    BY <1>1, <1>3, <1>5, <1>9, <2>1 DEF Knows, Untouched
  <2>3. Locked'
    BY <1>1, <1>3, <1>5, <1>9, <2>1, LockFollows DEF StarsAssumed
  <2>4. ASSUME Calm PROVE Matching'
    <3>1. Matching /\ ~r.self /\ r.channel = starboard /\ r.count = Cardinality(stars)
      BY <1>8, <1>9, <2>4
    <3>2. InPlace(j)'
      BY <1>2, <1>5, <1>9, <3>1 DEF InPlace, Untouched
    <3>3. RowIsPost'
      BY <1>2, <1>3, <1>5, <2>1, <3>1 DEF Matching, RowIsPost, Untouched, SamePart, Stars!At
    <3>4. TooFew' /\ Enough'
      BY <1>2, <1>7, <1>9, <2>1, <3>1 DEF TooFew, Enough, Untouched, StarsAssumed
    <3>5. Shows' /\ Brings'
      BY <1>2, <1>5, <1>6, <2>1, <3>1 DEF Shows, Brings, Untouched, SamePart
    <3> QED BY <1>5, <1>8, <2>4, <3>2, <3>3, <3>4, <3>5 DEF Matching
  <2>5. starErrors' \in Nat /\ starErrors' >= starErrors /\ starLock' \in Jobs \cup {Idle}
    BY <1>1, <1>9 DEF StarTypes
  <2> QED BY <1>2, <1>3, <1>4, <1>9, <2>2, <2>3, <2>4, <2>5, QuietKeeps
<1>10. CASE /\ r = Idle /\ starLock' = Idle
            /\ \/ UNCHANGED starErrors /\ (~starJobs[j].self => Cardinality(stars) < Threshold)
               \/ starErrors' = starErrors + 1
  <2>1. ~Busy(j)' /\ ~Inside(j)' /\ ~Carries(j)' /\ ~Uncounted(j)' /\ Knows(j)' /\ InPlace(j)'
    BY <1>5, <1>10 DEF Inside, Carries, Uncounted, Knows, InPlace, Busy
  <2>2. Locked'
    BY <1>1, <1>3, <1>5, <1>10, <2>1, LockFollows DEF StarsAssumed
  <2>3. ASSUME Calm, Calm' PROVE Matching'
    <3>1. Matching /\ Cardinality(stars) < Threshold
      BY <1>1, <1>8, <1>10, <2>3 DEF Calm, StarTypes
    <3>2. RowIsPost'
      BY <1>2, <1>3, <1>5, <2>1, <3>1 DEF Matching, RowIsPost, Untouched, SamePart, Stars!At, Busy
    <3>3. ASSUME DOMAIN posts # {}
          PROVE  \E k \in Jobs : Removes(k)' /\ (Uncounted(k)' \/ RemovesPost(k)')
      <4>1. PICK k \in Jobs : Removes(k) /\ (Uncounted(k) \/ RemovesPost(k))
        BY <3>1, <3>3 DEF Matching, TooFew
      <4>2. k # j
        BY <1>2, <4>1 DEF Adds, Removes
      <4>3. Removes(k)' /\ Uncounted(k)'
        BY <1>5, <1>6, <4>1, <4>2 DEF SamePart
      <4> QED BY <4>3
    <3>4. \A k \in Jobs : ~Carries(k)'
      BY <1>5, <1>6, <2>1 DEF SamePart
    <3>5. TooFew'
      BY <1>2, <3>3, <3>4 DEF TooFew, Untouched
    <3>6. Enough'
      BY <1>2, <1>7, <3>1 DEF Enough, Untouched, StarsAssumed
    <3>7. Shows' /\ Brings'
      BY <1>2, <3>3, <3>4 DEF Shows, Brings, Untouched, RemovesPost
    <3> QED BY <1>5, <1>8, <2>1, <2>3, <3>2, <3>5, <3>6, <3>7 DEF Matching
  <2>4. starErrors' \in Nat /\ starErrors' >= starErrors /\ starLock' \in Jobs \cup {Idle}
    BY <1>1, <1>10 DEF StarTypes
  <2> QED BY <1>2, <1>3, <1>4, <1>10, <2>1, <2>2, <2>3, <2>4, QuietKeeps
<1> QED BY <1>4, <1>9, <1>10

\* A job that holds the lock, and the others.
LEMMA HolderMoves ==
  ASSUME StarInv, StarsAssumed, NEW j \in Jobs, Inside(j), NEW r \in StarJob \cup {Idle},
         starJobs' = [starJobs EXCEPT ![j] = r]
  PROVE  /\ starJobs'[j] = r
         /\ \A k \in Jobs \ {j} :
              /\ starJobs'[k] = starJobs[k] /\ SamePart(k)
              /\ ~Inside(k) /\ ~Carries(k) /\ ~RemovesPost(k)
              /\ ~Carries(k)' /\ ~RemovesPost(k)'
              /\ ~Stars!At(k, "save") /\ ~Stars!At(k, "delete")
              /\ ~Stars!At(k, "save")' /\ ~Stars!At(k, "delete")'
<1>1. StarTypes /\ Locked
  BY DEF StarInv
<1>2. starJobs'[j] = r /\ \A k \in Jobs \ {j} : starJobs'[k] = starJobs[k] /\ SamePart(k)
  BY <1>1, StarMoves, SameJob
<1>3. \A k \in Jobs \ {j} : /\ ~Inside(k) /\ ~Carries(k) /\ ~RemovesPost(k)
                            /\ ~Stars!At(k, "save") /\ ~Stars!At(k, "delete")
  BY <1>1, Alone
<1> QED BY <1>2, <1>3 DEF SamePart, RemovesPost

\* A job that holds the lock ends, or goes on holding it.
LEMMA HolderLock ==
  ASSUME StarInv, StarsAssumed, NEW j \in Jobs, Inside(j), NEW r \in StarJob \cup {Idle},
         starJobs' = [starJobs EXCEPT ![j] = r],
         \/ r = Idle /\ starLock' = Idle
         \/ /\ r # Idle /\ r.step \in {"count", "entry", "publish", "save", "delete"}
            /\ starLock' = starLock
  PROVE  Locked' /\ starLock' \in Jobs \cup {Idle} /\ (r = Idle => Knows(j)' /\ InPlace(j)')
<1>1. StarTypes /\ Locked
  BY DEF StarInv
<1>2. starJobs'[j] = r /\ \A k \in Jobs \ {j} : starJobs'[k] = starJobs[k]
  BY <1>1, StarMoves
<1>3. Inside(j)' <=> r # Idle
  BY <1>2 DEF Inside, Busy
<1> QED BY <1>1, <1>2, <1>3, LockFollows DEF StarsAssumed, StarTypes, Knows, InPlace, Busy

\* A call of a job that holds the lock fails, and the job gives up.
LEMMA GivingUpKeeps ==
  ASSUME StarInv, StarsAssumed, NEW j \in Jobs, Inside(j), ~Stars!At(j, "save"), Untouched,
         Stars!Ends(j), Stars!Fails
  PROVE  StarInv'
<1>1. /\ starJobs' = [starJobs EXCEPT ![j] = Idle] /\ starLock' = Idle /\ starErrors' = starErrors + 1
      /\ Idle \in StarJob \cup {Idle}
  BY DEF Stars!Ends, Stars!Fails, Stars!Becomes
<1>2. starErrors' \in Nat /\ starErrors' >= starErrors /\ ~Calm'
  BY <1>1 DEF StarInv, StarTypes, Calm
<1>3. Locked' /\ starLock' \in Jobs \cup {Idle} /\ Knows(j)'
  BY <1>1, HolderLock
<1> QED BY <1>1, <1>2, <1>3, QuietKeeps

LEMMA CountLeftKeeps ==
  ASSUME StarInv, StarsAssumed, NEW j \in Jobs, Stars!CountLeft(j)
  PROVE  StarInv'
<1>1. StarTypes /\ Locked /\ Knows(j)
  BY DEF StarInv
<1>2. /\ Stars!At(j, "count") /\ ~starJobs[j].adds /\ Untouched /\ UNCHANGED starLock
  BY DEF Stars!CountLeft, Stars!discord, Stars!settings, Stars!ghosts, Untouched
<1>3. /\ Busy(j) /\ starJobs[j] \in StarJob /\ starJobs[j].step = "count" /\ Inside(j)
      /\ ~Stars!At(j, "save") /\ ~Stars!At(j, "delete") /\ Removes(j) /\ ~Adds(j) /\ Uncounted(j)
  BY <1>1, <1>2, StarAt DEF Inside, Stars!At, Uncounted
<1>4. PICK c \in {Cardinality(stars), 0} :
        /\ starJobs' = [starJobs EXCEPT ![j] = [starJobs[j] EXCEPT !.step = "publish", !.count = c]]
        /\ \/ c = Cardinality(stars) /\ UNCHANGED starErrors
           \/ starErrors' = starErrors + 1
  BY StarsCount DEF Stars!CountLeft, Stars!Becomes, Stars!Fails
<1> DEFINE r == [starJobs[j] EXCEPT !.step = "publish", !.count = c]
<1>5. Cardinality(stars) \in Nat /\ c \in Nat
  BY <1>1, FS_CardinalityType DEF StarTypes
<1>6. /\ r \in StarJob /\ r.step = "publish" /\ r.count = c /\ r.adds = starJobs[j].adds
      /\ r.channel = starJobs[j].channel /\ r.self = starJobs[j].self /\ r.post = starJobs[j].post
  BY <1>3, <1>4, <1>5 DEF StarJob
<1>7. starJobs' = [starJobs EXCEPT ![j] = r] /\ r # Idle
  BY <1>4, <1>6 DEF StarsAssumed
<1> HIDE DEF r
<1>8. /\ starJobs'[j] = r
      /\ \A k \in Jobs \ {j} :
           /\ starJobs'[k] = starJobs[k] /\ SamePart(k)
           /\ ~Carries(k) /\ ~RemovesPost(k) /\ ~Carries(k)' /\ ~RemovesPost(k)'
  BY <1>3, <1>6, <1>7, HolderMoves
<1>9. Locked' /\ starLock' \in Jobs \cup {Idle}
  BY <1>2, <1>3, <1>6, <1>7, HolderLock
<1>10. /\ Removes(j)' /\ Carries(j)' /\ ~Adds(j)'
       /\ ~Stars!At(j, "save")' /\ ~Stars!At(j, "delete")'
       /\ RemovesPost(j)' <=> c < Threshold
  BY <1>2, <1>6, <1>7, <1>8 DEF Removes, Adds, Carries, RemovesPost, Busy, Stars!At
<1>11. Knows(j)'
  BY <1>1, <1>2, <1>3, <1>6, <1>8, <1>10 DEF Knows, Untouched
<1>12. ASSUME Calm, Calm' PROVE Matching'
  <2>1. Matching /\ c = Cardinality(stars)
    BY <1>1, <1>4, <1>12 DEF StarInv, StarTypes, Calm
  <2>2. ASSUME NEW k \in Jobs PROVE InPlace(k)'
    <3>1. CASE k = j
      BY <1>2, <1>3, <1>6, <1>8, <1>10, <2>1, <3>1 DEF Matching, InPlace, Untouched
    <3>2. CASE k # j
      BY <1>2, <1>8, <2>1, <3>2, OthersInPlace DEF Matching, Untouched
    <3> QED BY <3>1, <3>2
  <2>3. RowIsPost'
    BY <1>2, <1>3, <1>8, <1>10, <2>1 DEF Matching, RowIsPost, Untouched, SamePart
  <2>4. TooFew'
    BY <1>2, <1>10, <2>1 DEF TooFew, Untouched
  <2>5. Enough'
    <3> SUFFICES ASSUME DOMAIN posts = {} \/ (\E k \in Jobs : RemovesPost(k)'), Cardinality(stars) >= Threshold
                 PROVE  \E k \in Jobs : Adds(k)' /\ (Uncounted(k)' \/ Carries(k)')
      BY <1>2 DEF Enough, Untouched
    <3>1. \A k \in Jobs : ~RemovesPost(k)'
      BY <1>5, <1>8, <1>10, <2>1 DEF StarsAssumed
    <3>2. PICK k \in Jobs : Adds(k) /\ (Uncounted(k) \/ Carries(k))
      BY <2>1, <3>1 DEF Matching, Enough
    <3>3. k # j
      BY <1>3, <3>2
    <3> QED BY <1>8, <3>2, <3>3 DEF SamePart
  <2>6. Shows' /\ Brings'
    BY <1>2, <1>6, <1>8, <1>10, <2>1 DEF Shows, Brings, Untouched
  <2> QED BY <2>2, <2>3, <2>4, <2>5, <2>6 DEF Matching
<1>13. starErrors' \in Nat /\ starErrors' >= starErrors
  BY <1>1, <1>4 DEF StarTypes
<1> QED BY <1>2, <1>3, <1>6, <1>7, <1>9, <1>11, <1>12, <1>13, QuietKeeps

LEMMA GetStarboardEntryKeeps ==
  ASSUME StarInv, StarsAssumed, NEW j \in Jobs, Stars!GetStarboardEntry(j)
  PROVE  StarInv'
<1>1. StarTypes /\ Locked /\ Knows(j)
  BY DEF StarInv
<1>2. Stars!At(j, "entry") /\ Untouched
  BY DEF Stars!GetStarboardEntry, Stars!discord, Stars!settings, Stars!ghosts, Untouched
<1>3. /\ Busy(j) /\ starJobs[j] \in StarJob /\ starJobs[j].step = "entry" /\ Inside(j)
      /\ ~Stars!At(j, "save") /\ ~Stars!At(j, "delete")
      /\ Adds(j) <=> starJobs[j].adds
      /\ Removes(j) <=> ~starJobs[j].adds
  BY <1>1, <1>2, StarAt DEF Inside, Stars!At
<1>4. CASE /\ starJobs[j].adds \/ entry # Nothing
           /\ starJobs' = [starJobs EXCEPT ![j] =
                [starJobs[j] EXCEPT !.step = IF starJobs[j].adds THEN "publish" ELSE "count", !.post = entry]]
           /\ UNCHANGED <<starLock, starErrors>>
  <2> DEFINE r == [starJobs[j] EXCEPT !.step = IF starJobs[j].adds THEN "publish" ELSE "count", !.post = entry]
  <2>1. /\ r \in StarJob /\ r.step = (IF r.adds THEN "publish" ELSE "count") /\ r.adds = starJobs[j].adds
        /\ r.channel = starJobs[j].channel /\ r.self = starJobs[j].self /\ r.post = entry
        /\ r.count = starJobs[j].count
    BY <1>1, <1>3 DEF StarJob, StarTypes
  <2>2. starJobs' = [starJobs EXCEPT ![j] = r] /\ r # Idle
    BY <1>4, <2>1 DEF StarsAssumed
  <2> HIDE DEF r
  <2>3. starJobs'[j] = r /\ \A k \in Jobs \ {j} : starJobs'[k] = starJobs[k]
    BY <1>3, <2>1, <2>2, HolderMoves
  <2>4. Locked' /\ starLock' \in Jobs \cup {Idle}
    BY <1>3, <1>4, <2>1, <2>2, HolderLock
  <2>5. /\ Busy(j)'
        /\ Adds(j)' <=> Adds(j)
        /\ Removes(j)' <=> Removes(j)
    BY <1>3, <2>1, <2>2, <2>3 DEF Adds, Removes, Busy
  <2>6. SamePart(j)
    BY <1>3, <2>1, <2>3, <2>5 DEF SamePart, Uncounted, Carries, Stars!At
  <2>7. Knows(j)'
    BY <1>1, <1>2, <1>3, <1>4, <2>1, <2>3, <2>5 DEF Knows, Untouched
  <2>8. ASSUME Calm PROVE Matching'
    <3>1. Matching
      BY <2>8 DEF StarInv
    <3>2. InPlace(j)'
      BY <1>2, <1>3, <2>1, <2>3, <2>6, <3>1 DEF Matching, InPlace, SamePart, Untouched
    <3> QED BY <1>2, <2>3, <2>6, <3>1, <3>2, OneSamePart
  <2>9. starErrors' \in Nat /\ starErrors' >= starErrors
    BY <1>1, <1>4 DEF StarTypes
  <2>10. r.step \notin {"save", "delete"}
    BY <2>1
  <2> QED BY <1>2, <1>3, <2>1, <2>2, <2>4, <2>7, <2>8, <2>9, <2>10, QuietKeeps
<1>5. CASE ~starJobs[j].adds /\ entry = Nothing /\ Stars!Ends(j) /\ UNCHANGED starErrors
  <2>1. /\ starJobs' = [starJobs EXCEPT ![j] = Idle] /\ starLock' = Idle
        /\ Idle \in StarJob \cup {Idle}
    BY <1>5 DEF Stars!Ends, Stars!Becomes
  <2>2. Locked' /\ starLock' \in Jobs \cup {Idle} /\ Knows(j)' /\ InPlace(j)'
    BY <1>3, <2>1, HolderLock
  <2>3. /\ starJobs'[j] = Idle
        /\ \A k \in Jobs \ {j} :
             /\ starJobs'[k] = starJobs[k] /\ SamePart(k)
             /\ ~Carries(k)' /\ ~RemovesPost(k)'
             /\ ~Stars!At(k, "save") /\ ~Stars!At(k, "delete")
    BY <1>3, <2>1, HolderMoves
  <2>4. ~Carries(j)' /\ ~RemovesPost(j)' /\ ~Adds(j) /\ ~Adds(j)'
    BY <1>3, <1>5, <2>3 DEF Carries, RemovesPost, Adds, Busy
  <2>5. ASSUME Calm PROVE Matching'
    <3>1. Matching
      BY <2>5 DEF StarInv
    <3>2. DOMAIN posts = {}
      BY <1>3, <1>5, <2>3, <3>1 DEF Matching, RowIsPost
    <3>3. \A k \in Jobs : InPlace(k)'
      BY <1>2, <2>2, <2>3, <3>1, OthersInPlace DEF Matching, Untouched
    <3>4. RowIsPost' /\ TooFew' /\ Shows' /\ Brings'
      BY <1>2, <1>5, <2>3, <2>4, <3>2 DEF RowIsPost, TooFew, Shows, Brings, Untouched
    <3>5. Enough'
      BY <1>2, <2>3, <2>4, <3>1, <3>2 DEF Matching, Enough, Untouched, SamePart
    <3> QED BY <3>3, <3>4, <3>5 DEF Matching
  <2>6. starErrors' \in Nat /\ starErrors' >= starErrors
    BY <1>1, <1>5 DEF StarTypes
  <2> QED BY <1>2, <1>3, <2>1, <2>2, <2>5, <2>6, QuietKeeps
<1>6. CASE Stars!Fails /\ Stars!Ends(j)
  BY <1>2, <1>3, <1>6, GivingUpKeeps
<1> QED BY <1>4, <1>5, <1>6 DEF Stars!GetStarboardEntry, Stars!Becomes

\* A job that holds the lock publishes, saves or deletes: what is left to show.
LEMMA HolderKeeps ==
  ASSUME StarInv, StarsAssumed, NEW j \in Jobs, Inside(j), NEW r \in StarJob \cup {Idle},
         starJobs' = [starJobs EXCEPT ![j] = r],
         \/ r = Idle /\ starLock' = Idle
         \/ r # Idle /\ r.step \in {"count", "entry", "publish", "save", "delete"} /\ starLock' = starLock,
         UNCHANGED <<stars, starboard, selfReactDisabled, moved>>,
         lastPost' \in Nat, entry' \in Nat \cup {Nothing}, starErrors' \in Nat, starErrors' >= starErrors,
         DOMAIN posts' \subseteq (1..lastPost') \X Channels, Numbered', Kept', Knows(j)',
         Calm /\ Calm' => Matching'
  PROVE  StarInv'
<1>1. /\ StarTypes /\ Locked' /\ starLock' \in Jobs \cup {Idle}
      /\ \A k \in Jobs \ {j} : starJobs'[k] = starJobs[k] /\ ~Inside(k) /\ Knows(k)
  BY HolderMoves, HolderLock DEF StarInv
<1>2. StarTypes'
  BY <1>1, StarMoves DEF StarTypes
<1>3. ASSUME NEW k \in Jobs PROVE Knows(k)'
  <2>1. CASE k = j
    BY <2>1
  <2>2. CASE k # j
    BY <1>1, <2>2 DEF Knows, Inside, Busy, Removes
  <2> QED BY <2>1, <2>2
<1>4. Calm' => Calm
  BY <1>1 DEF StarTypes, Calm
<1> QED BY <1>1, <1>2, <1>3, <1>4 DEF StarInv

LEMMA SendKeeps ==
  ASSUME StarInv, StarsAssumed, NEW j \in Jobs, Stars!Send(j)
  PROVE  StarInv'
<1>1. StarTypes /\ Locked /\ Knows(j) /\ Numbered /\ Kept
  BY DEF StarInv
<1>2. /\ Stars!At(j, "publish") /\ starJobs[j].post = Nothing
      /\ UNCHANGED <<stars, starboard, selfReactDisabled, entry, moved, lost>>
  BY DEF Stars!Send, Stars!settings, Stars!ghosts
<1>3. /\ Busy(j) /\ starJobs[j] \in StarJob /\ starJobs[j].step = "publish" /\ Inside(j)
      /\ ~Stars!At(j, "save") /\ ~Stars!At(j, "delete") /\ Carries(j)
      /\ Adds(j) <=> starJobs[j].adds
      /\ Removes(j) <=> ~starJobs[j].adds
  BY <1>1, <1>2, StarAt DEF Inside, Stars!At, Carries
<1>4. entry = Nothing /\ Adds(j) /\ ~Removes(j) /\ ~RemovesPost(j) /\ ~Uncounted(j)
      /\ starJobs[j].channel \in Channels
  BY <1>1, <1>2, <1>3 DEF Knows, RemovesPost, Uncounted
<1> DEFINE new == <<lastPost + 1, starJobs[j].channel>>
           r == [starJobs[j] EXCEPT !.step = "save", !.post = lastPost + 1]
<1>5. CASE /\ lastPost' = lastPost + 1
           /\ posts' = [q \in DOMAIN posts \cup {new} |->
                          IF q \in DOMAIN posts THEN posts[q] ELSE starJobs[j].count]
           /\ starJobs' = [starJobs EXCEPT ![j] = r] /\ UNCHANGED <<starLock, starErrors>>
  <2>1. /\ r \in StarJob /\ r.step = "save" /\ r.adds = starJobs[j].adds /\ r.channel = starJobs[j].channel
        /\ r.self = starJobs[j].self /\ r.post = lastPost + 1
    <3>1. lastPost + 1 \in Nat
      BY <1>1 DEF StarTypes
    <3> QED BY <1>3, <3>1 DEF StarJob
  <2>2. r # Idle
    BY <2>1 DEF StarsAssumed
  <2>3. /\ DOMAIN posts' = DOMAIN posts \cup {new} /\ new \notin DOMAIN posts
        /\ \A q \in DOMAIN posts : q[1] \in 1..lastPost /\ posts'[q] = posts[q]
        /\ posts'[new] = starJobs[j].count
    BY <1>1, <1>5 DEF StarTypes
  <2> HIDE DEF r
  <2>4. /\ starJobs'[j] = r
        /\ \A k \in Jobs \ {j} :
              /\ starJobs'[k] = starJobs[k] /\ SamePart(k)
              /\ ~Inside(k) /\ ~Carries(k)' /\ ~RemovesPost(k)'
              /\ ~Stars!At(k, "save") /\ ~Stars!At(k, "delete") /\ ~RemovesPost(k)
    BY <1>3, <1>5, <2>1, HolderMoves
  <2>5. /\ Stars!At(j, "save")' /\ ~Carries(j)' /\ ~RemovesPost(j)' /\ ~Uncounted(j)'
    BY <1>3, <1>4, <2>1, <2>2, <2>4 DEF Stars!At, Carries, RemovesPost, Uncounted, Busy, Removes, Adds
  <2>6. Numbered'
    BY <1>1, <2>3 DEF Numbered, StarTypes
  <2>7. Kept'
    <3> SUFFICES ASSUME NEW q \in DOMAIN posts'
                 PROVE  q[1] \in lost \/ q[1] = entry \/ \E k \in Jobs : Stars!At(k, "save")' /\ starJobs'[k].post = q[1]
      BY <1>2 DEF Kept
    <3>1. CASE q \in DOMAIN posts
      BY <1>1, <1>3, <2>4, <3>1 DEF Kept
    <3>2. CASE q = new
      BY <2>1, <2>4, <2>5, <3>2
    <3> QED BY <2>3, <3>1, <3>2
  <2>8. Knows(j)'
    BY <1>1, <1>2, <1>4, <2>1, <2>4 DEF Knows, StarTypes
  <2>9. ASSUME Calm PROVE Matching'
    <3>1. Matching /\ starJobs[j].channel = starboard /\ ~starJobs[j].self
      BY <1>3, <2>9 DEF StarInv, Matching, InPlace
    <3>2. DOMAIN posts = {}
      BY <1>3, <1>4, <2>4, <3>1 DEF Matching, RowIsPost
    <3>3. DOMAIN posts' = {new}
      BY <2>3, <3>2
    <3>4. ASSUME NEW k \in Jobs PROVE InPlace(k)'
      <4>1. CASE k = j
        BY <1>2, <2>1, <2>4, <2>5, <3>1, <3>3, <4>1 DEF InPlace
      <4>2. CASE k # j
        BY <1>2, <2>4, <3>1, <4>2 DEF Matching, InPlace, Busy, Stars!At
      <4> QED BY <4>1, <4>2
    <3>5. RowIsPost'
      BY <2>5 DEF RowIsPost
    <3>6. TooFew'
      <4>1. ASSUME Cardinality(stars) < Threshold
            PROVE  \E k \in Jobs : Removes(k)' /\ (Uncounted(k)' \/ RemovesPost(k)')
        <5>1. PICK k \in Jobs : Removes(k) /\ (Uncounted(k) \/ RemovesPost(k))
          BY <1>3, <1>4, <3>1, <4>1 DEF Matching, TooFew
        <5>2. k # j
          BY <1>4, <5>1
        <5> QED BY <2>4, <5>1, <5>2 DEF SamePart
      <4> QED BY <1>2, <4>1 DEF TooFew
    <3>7. Enough'
      BY <2>4, <2>5, <3>3 DEF Enough
    <3>8. Shows'
      <4>1. CASE starJobs[j].count = Cardinality(stars)
        BY <1>2, <2>3, <3>3, <4>1 DEF Shows
      <4>2. ASSUME NEW k \in Jobs, Uncounted(k) PROVE Uncounted(k)'
        BY <1>4, <2>4, <4>2 DEF SamePart
      <4> QED BY <1>3, <3>1, <4>1, <4>2 DEF Matching, Brings, Shows
    <3>9. Brings'
      BY <2>4, <2>5 DEF Brings
    <3> QED BY <3>4, <3>5, <3>6, <3>7, <3>8, <3>9 DEF Matching
  <2>10. /\ lastPost' \in Nat /\ entry' \in Nat \cup {Nothing} /\ starErrors' \in Nat /\ starErrors' >= starErrors
         /\ DOMAIN posts' \subseteq (1..lastPost') \X Channels
    BY <1>1, <1>2, <1>4, <1>5, <2>3 DEF StarTypes
  <2>11. /\ starJobs' = [starJobs EXCEPT ![j] = r] /\ r # Idle
         /\ r.step \in {"count", "entry", "publish", "save", "delete"} /\ starLock' = starLock
    BY <1>5, <2>1, <2>2
  <2> QED BY <1>2, <1>3, <2>1, <2>6, <2>7, <2>8, <2>9, <2>10, <2>11, HolderKeeps
<1>6. CASE Stars!Fails /\ Stars!Ends(j) /\ UNCHANGED <<posts, lastPost>>
  <2>1. Untouched
    BY <1>2, <1>6 DEF Untouched
  <2> QED BY <1>3, <1>6, <2>1, GivingUpKeeps
<1>7. \/ /\ lastPost' = lastPost + 1
         /\ posts' = [q \in DOMAIN posts \cup {new} |->
                        IF q \in DOMAIN posts THEN posts[q] ELSE starJobs[j].count]
         /\ starJobs' = [starJobs EXCEPT ![j] = r] /\ UNCHANGED <<starLock, starErrors>>
      \/ Stars!Fails /\ Stars!Ends(j) /\ UNCHANGED <<posts, lastPost>>
  BY DEF Stars!Send, Stars!Becomes
<1> QED BY <1>5, <1>6, <1>7

LEMMA EditKeeps ==
  ASSUME StarInv, StarsAssumed, NEW j \in Jobs, Stars!Edit(j)
  PROVE  StarInv'
<1> DEFINE r == [starJobs[j] EXCEPT !.step = "save"]
           place == <<starJobs[j].post, starJobs[j].channel>>
<1>1. StarTypes /\ Locked /\ Knows(j) /\ Numbered /\ Kept
  BY DEF StarInv
<1>2. /\ Stars!At(j, "publish") /\ starJobs[j].post # Nothing
      /\ starJobs[j].adds \/ starJobs[j].count >= Threshold
      /\ starJobs' = [starJobs EXCEPT ![j] = r]
      /\ UNCHANGED <<stars, starboard, selfReactDisabled, lastPost, entry, starLock, moved, lost>>
  BY DEF Stars!Edit, Stars!settings, Stars!ghosts, Stars!Goes, Stars!Becomes
<1>3. \/ /\ posts' = IF place \in DOMAIN posts THEN [posts EXCEPT ![place] = starJobs[j].count] ELSE posts
         /\ UNCHANGED starErrors
      \/ starErrors' = starErrors + 1 /\ UNCHANGED posts
  BY DEF Stars!Edit, Stars!Place, Stars!Fails
<1>4. /\ Busy(j) /\ starJobs[j] \in StarJob /\ starJobs[j].step = "publish" /\ Inside(j)
      /\ ~Stars!At(j, "save") /\ ~Stars!At(j, "delete") /\ Carries(j) /\ ~Uncounted(j)
      /\ Adds(j) <=> starJobs[j].adds
      /\ Removes(j) <=> ~starJobs[j].adds
  BY <1>1, <1>2, StarAt DEF Inside, Stars!At, Carries, Uncounted, Removes
<1>5. entry = starJobs[j].post /\ entry \in Nat /\ ~RemovesPost(j) /\ starJobs[j].channel \in Channels
  BY <1>1, <1>2, <1>4 DEF Knows, RemovesPost, StarTypes, StarsAssumed, StarJob
<1>6. /\ r \in StarJob /\ r.step = "save" /\ r.adds = starJobs[j].adds /\ r.channel = starJobs[j].channel
      /\ r.self = starJobs[j].self /\ r.post = starJobs[j].post
  BY <1>4 DEF StarJob
<1>7. r # Idle
  BY <1>6 DEF StarsAssumed
<1> HIDE DEF r
<1>8. /\ starJobs'[j] = r
      /\ \A k \in Jobs \ {j} :
            /\ starJobs'[k] = starJobs[k] /\ SamePart(k)
            /\ ~Inside(k) /\ ~Carries(k)' /\ ~RemovesPost(k)'
            /\ ~Stars!At(k, "save") /\ ~Stars!At(k, "delete") /\ ~RemovesPost(k)
  BY <1>2, <1>4, <1>6, HolderMoves
<1>9. Stars!At(j, "save")' /\ ~Carries(j)' /\ ~RemovesPost(j)' /\ ~Uncounted(j)'
  BY <1>6, <1>7, <1>8 DEF Stars!At, Carries, RemovesPost, Uncounted, Busy, Removes, Adds
<1>10. DOMAIN posts' = DOMAIN posts
  BY <1>3
<1>11. Numbered' /\ Kept'
  <2>1. Numbered'
    BY <1>1, <1>10 DEF Numbered
  <2>2. Kept'
    <3> SUFFICES ASSUME NEW q \in DOMAIN posts PROVE q[1] \in lost \/ q[1] = entry
      BY <1>2, <1>10 DEF Kept
    <3> QED BY <1>1, <1>4, <1>8 DEF Kept
  <2> QED BY <2>1, <2>2
<1>12. Knows(j)'
  BY <1>1, <1>2, <1>5, <1>6, <1>8 DEF Knows
<1>13. ASSUME Calm, Calm' PROVE Matching'
  <2>1. Matching /\ starJobs[j].channel = starboard /\ ~starJobs[j].self
    BY <1>4, <1>13 DEF StarInv, Matching, InPlace
  <2>2. DOMAIN posts = {place}
    BY <1>4, <1>5, <1>8, <2>1 DEF Matching, RowIsPost, StarsAssumed
  <2>3. posts'[place] = starJobs[j].count
    BY <1>1, <1>3, <1>13, <2>2 DEF Calm, StarTypes
  <2>4. ASSUME NEW k \in Jobs PROVE InPlace(k)'
    <3>1. CASE k = j
      BY <1>2, <1>6, <1>8, <1>9, <1>10, <2>1, <2>2, <3>1 DEF InPlace
    <3>2. CASE k # j
      BY <1>2, <1>8, <2>1, <3>2 DEF Matching, InPlace, Busy, Stars!At
    <3> QED BY <3>1, <3>2
  <2>5. RowIsPost'
    BY <1>9 DEF RowIsPost
  <2>6. TooFew'
    <3>1. ASSUME Cardinality(stars) < Threshold
          PROVE  \E k \in Jobs : Removes(k)' /\ (Uncounted(k)' \/ RemovesPost(k)')
      <4>1. PICK k \in Jobs : Removes(k) /\ (Uncounted(k) \/ RemovesPost(k))
        BY <2>1, <2>2, <3>1 DEF Matching, TooFew
      <4>2. k # j
        BY <1>4, <1>5, <4>1
      <4> QED BY <1>8, <4>1, <4>2 DEF SamePart
    <3> QED BY <1>2, <3>1 DEF TooFew
  <2>7. Enough'
    BY <1>8, <1>9, <1>10, <2>2 DEF Enough
  <2>8. Shows'
    <3>1. CASE starJobs[j].count = Cardinality(stars)
      BY <1>2, <1>10, <2>2, <2>3, <3>1 DEF Shows
    <3>2. ASSUME NEW k \in Jobs, Uncounted(k) PROVE Uncounted(k)'
      BY <1>4, <1>8, <3>2 DEF SamePart
    <3> QED BY <1>4, <2>1, <3>1, <3>2 DEF Matching, Brings, Shows
  <2>9. Brings'
    BY <1>8, <1>9 DEF Brings
  <2> QED BY <2>4, <2>5, <2>6, <2>7, <2>8, <2>9 DEF Matching
<1>14. /\ lastPost' \in Nat /\ entry' \in Nat \cup {Nothing} /\ starErrors' \in Nat /\ starErrors' >= starErrors
       /\ DOMAIN posts' \subseteq (1..lastPost') \X Channels
  BY <1>1, <1>2, <1>3, <1>10 DEF StarTypes
<1>15. /\ r # Idle /\ starLock' = starLock
       /\ r.step \in {"count", "entry", "publish", "save", "delete"}
  BY <1>2, <1>6, <1>7
<1> QED BY <1>2, <1>4, <1>6, <1>11, <1>12, <1>13, <1>14, <1>15, HolderKeeps

LEMMA TakeDownKeeps ==
  ASSUME StarInv, StarsAssumed, NEW j \in Jobs, Stars!TakeDown(j)
  PROVE  StarInv'
<1> DEFINE r == [starJobs[j] EXCEPT !.step = "delete"]
           place == <<starJobs[j].post, starJobs[j].channel>>
<1>1. StarTypes /\ Locked /\ Knows(j) /\ Numbered /\ Kept
  BY DEF StarInv
<1>2. /\ Stars!At(j, "publish") /\ ~starJobs[j].adds /\ starJobs[j].count < Threshold
      /\ starJobs' = [starJobs EXCEPT ![j] = r]
      /\ UNCHANGED <<stars, starboard, selfReactDisabled, lastPost, entry, starLock, moved>>
  BY DEF Stars!TakeDown, Stars!settings, Stars!Goes, Stars!Becomes
<1>3. \/ /\ place \in DOMAIN posts /\ posts' = [q \in DOMAIN posts \ {place} |-> posts[q]]
         /\ UNCHANGED <<starErrors, lost>>
      \/ /\ starErrors' = starErrors + 1 \/ (place \notin DOMAIN posts /\ UNCHANGED starErrors)
         /\ lost' = lost \cup {starJobs[j].post} /\ UNCHANGED posts
  BY DEF Stars!TakeDown, Stars!Place, Stars!Fails
<1>4. /\ Busy(j) /\ starJobs[j] \in StarJob /\ starJobs[j].step = "publish" /\ Inside(j)
      /\ ~Stars!At(j, "save") /\ ~Stars!At(j, "delete") /\ Carries(j) /\ ~Adds(j) /\ Removes(j)
      /\ ~Uncounted(j) /\ RemovesPost(j)
  BY <1>1, <1>2, StarAt DEF Inside, Stars!At, Carries, Uncounted, Removes, RemovesPost
<1>5. entry = starJobs[j].post /\ entry # Nothing /\ entry \in Nat /\ starJobs[j].channel \in Channels
  BY <1>1, <1>4 DEF Knows, StarTypes
<1>6. /\ r \in StarJob /\ r.step = "delete" /\ r.adds = starJobs[j].adds /\ r.channel = starJobs[j].channel
      /\ r.self = starJobs[j].self
  BY <1>4 DEF StarJob
<1>7. r # Idle
  BY <1>6 DEF StarsAssumed
<1> HIDE DEF r
<1>8. /\ starJobs'[j] = r
      /\ \A k \in Jobs \ {j} :
            /\ starJobs'[k] = starJobs[k] /\ SamePart(k)
            /\ ~Inside(k) /\ ~Carries(k)' /\ ~RemovesPost(k)'
            /\ ~Stars!At(k, "save") /\ ~Stars!At(k, "delete") /\ ~RemovesPost(k)
  BY <1>2, <1>4, <1>6, HolderMoves
<1>9. Stars!At(j, "delete")' /\ ~Carries(j)' /\ ~RemovesPost(j)' /\ ~Uncounted(j)'
  BY <1>2, <1>6, <1>7, <1>8 DEF Stars!At, Carries, RemovesPost, Uncounted, Busy, Removes, Adds
<1>10. /\ DOMAIN posts' \subseteq DOMAIN posts /\ lost \subseteq lost'
       /\ \A q \in DOMAIN posts' : q = place => starJobs[j].post \in lost'
  BY <1>3
<1>11. \A q \in DOMAIN posts' : q[1] \in lost'
  <2> SUFFICES ASSUME NEW q \in DOMAIN posts' PROVE q[1] \in lost'
    OBVIOUS
  <2>1. q \in DOMAIN posts
    BY <1>10
  <2>2. q[1] \in lost \/ q[1] = entry
    BY <1>1, <1>4, <1>8, <2>1 DEF Kept
  <2>3. CASE q[1] \in lost
    BY <1>10, <2>3
  <2>4. CASE q[1] = entry
    <3>1. CASE lost' = lost \cup {starJobs[j].post}
      BY <1>5, <2>4, <3>1
    <3>2. CASE place \in DOMAIN posts /\ posts' = [p \in DOMAIN posts \ {place} |-> posts[p]]
      BY <1>1, <1>5, <2>1, <2>4, <3>2 DEF Numbered
    <3> QED BY <1>3, <3>1, <3>2
  <2> QED BY <2>2, <2>3, <2>4
<1>12. Numbered' /\ Kept'
  BY <1>1, <1>10, <1>11 DEF Numbered, Kept
<1>13. Knows(j)'
  BY <1>1, <1>2, <1>4, <1>6, <1>8, <1>11 DEF Knows
<1>14. ASSUME Calm, Calm' PROVE Matching'
  <2>1. Matching /\ starJobs[j].channel = starboard /\ ~starJobs[j].self
    BY <1>4, <1>14 DEF StarInv, Matching, InPlace
  <2>2. DOMAIN posts = {place}
    BY <1>4, <1>5, <1>8, <2>1 DEF Matching, RowIsPost
  <2>3. DOMAIN posts' = {}
    <3>1. ~(starErrors' = starErrors + 1)
      BY <1>1, <1>14 DEF Calm, StarTypes
    <3>2. posts' = [q \in DOMAIN posts \ {place} |-> posts[q]]
      BY <1>3, <2>2, <3>1
    <3> QED BY <2>2, <3>2
  <2>4. ASSUME NEW k \in Jobs PROVE InPlace(k)'
    <3>1. CASE k = j
      BY <1>2, <1>6, <1>8, <1>9, <2>1, <2>3, <3>1 DEF InPlace
    <3>2. CASE k # j
      BY <1>2, <1>8, <2>1, <3>2 DEF Matching, InPlace, Busy, Stars!At
    <3> QED BY <3>1, <3>2
  <2>5. RowIsPost'
    BY <1>9 DEF RowIsPost
  <2>6. TooFew'
    BY <1>8, <1>9, <2>3 DEF TooFew
  <2>7. Enough'
    <3>1. ASSUME Cardinality(stars) >= Threshold
          PROVE  \E k \in Jobs : Adds(k)' /\ (Uncounted(k)' \/ Carries(k)')
      <4>1. PICK k \in Jobs : Adds(k) /\ (Uncounted(k) \/ Carries(k))
        BY <1>4, <2>1, <3>1 DEF Matching, Enough
      <4>2. k # j
        BY <1>4, <4>1
      <4> QED BY <1>8, <4>1, <4>2 DEF SamePart
    <3> QED BY <1>2, <3>1 DEF Enough
  <2>8. Shows' /\ Brings'
    BY <1>8, <1>9, <2>3 DEF Shows, Brings
  <2> QED BY <2>4, <2>5, <2>6, <2>7, <2>8 DEF Matching
<1>15. /\ lastPost' \in Nat /\ entry' \in Nat \cup {Nothing} /\ starErrors' \in Nat /\ starErrors' >= starErrors
       /\ DOMAIN posts' \subseteq (1..lastPost') \X Channels
  BY <1>1, <1>2, <1>3, <1>10 DEF StarTypes
<1>16. /\ r # Idle /\ starLock' = starLock
       /\ r.step \in {"count", "entry", "publish", "save", "delete"}
  BY <1>2, <1>6, <1>7
<1> QED BY <1>2, <1>4, <1>6, <1>12, <1>13, <1>14, <1>15, <1>16, HolderKeeps

\* A job ends, and the row names the post again, or there is none.
LEMMA EndKeepsMatching ==
  ASSUME StarInv, StarsAssumed, NEW j \in Jobs, Inside(j), ~Uncounted(j), ~Carries(j), Matching,
         starJobs' = [starJobs EXCEPT ![j] = Idle], UNCHANGED <<stars, starboard, posts>>,
         DOMAIN posts = IF entry' = Nothing THEN {} ELSE {<<entry', starboard>>}
  PROVE  Matching'
<1>1. /\ starJobs'[j] = Idle
      /\ \A k \in Jobs \ {j} :
            /\ starJobs'[k] = starJobs[k] /\ SamePart(k)
            /\ ~Carries(k) /\ ~RemovesPost(k) /\ ~Carries(k)' /\ ~RemovesPost(k)'
  BY HolderMoves
<1>2. ~Busy(j)' /\ ~Carries(j)' /\ ~RemovesPost(j)' /\ ~Uncounted(j)' /\ InPlace(j)' /\ ~RemovesPost(j)
  BY <1>1 DEF Busy, Carries, RemovesPost, Uncounted, InPlace
<1>3. \A k \in Jobs : Uncounted(k) => k # j /\ Uncounted(k)' /\ (Removes(k) => Removes(k)') /\ (Adds(k) => Adds(k)')
  BY <1>1 DEF SamePart
<1>4. \A k \in Jobs : ~Carries(k) /\ ~RemovesPost(k) /\ ~Carries(k)' /\ ~RemovesPost(k)'
  BY <1>1, <1>2
<1>5. \A k \in Jobs : InPlace(k)'
  BY <1>1, <1>2, OthersInPlace DEF Matching
<1>6. RowIsPost'
  BY DEF RowIsPost
<1>7. TooFew'
  <2>1. ASSUME DOMAIN posts # {}, Cardinality(stars) < Threshold
        PROVE  \E k \in Jobs : Removes(k)' /\ Uncounted(k)'
    BY <1>3, <1>4, <2>1 DEF Matching, TooFew
  <2> QED BY <1>4, <2>1 DEF TooFew
<1>8. Enough'
  <2>1. ASSUME DOMAIN posts = {}, Cardinality(stars) >= Threshold
        PROVE  \E k \in Jobs : Adds(k)' /\ Uncounted(k)'
    BY <1>3, <1>4, <2>1 DEF Matching, Enough
  <2> QED BY <1>4, <2>1 DEF Enough
<1>9. Shows' /\ Brings'
  BY <1>3, <1>4 DEF Matching, Shows, Brings
<1> QED BY <1>5, <1>6, <1>7, <1>8, <1>9 DEF Matching

LEMMA SaveEntryKeeps ==
  ASSUME StarInv, StarsAssumed, NEW j \in Jobs, Stars!SaveEntry(j)
  PROVE  StarInv'
<1>1. StarTypes /\ Locked /\ Knows(j) /\ Numbered /\ Kept
  BY DEF StarInv
<1>2. /\ Stars!At(j, "save") /\ starLock' = Idle /\ starJobs' = [starJobs EXCEPT ![j] = Idle]
      /\ Idle \in StarJob \cup {Idle}
      /\ UNCHANGED <<stars, starboard, selfReactDisabled, posts, lastPost, moved>>
  BY DEF Stars!SaveEntry, Stars!settings, Stars!discord, Stars!Ends, Stars!Becomes
<1>3. \/ entry' = starJobs[j].post /\ UNCHANGED <<starErrors, lost>>
      \/ /\ starErrors' = starErrors + 1 /\ UNCHANGED entry
         /\ lost' = (IF entry = starJobs[j].post THEN lost ELSE lost \cup {starJobs[j].post})
  BY DEF Stars!SaveEntry, Stars!Fails
<1>4. /\ Busy(j) /\ starJobs[j] \in StarJob /\ starJobs[j].step = "save" /\ Inside(j)
      /\ ~Carries(j) /\ ~Uncounted(j)
      /\ starJobs[j].post \in Nat /\ entry \in {Nothing, starJobs[j].post}
  BY <1>1, <1>2, StarAt DEF Inside, Carries, Uncounted, Knows
<1>5. Knows(j)' /\ \A k \in Jobs \ {j} : ~Stars!At(k, "save")
  BY <1>2, <1>4, HolderLock, HolderMoves
<1>6. Kept'
  <2> SUFFICES ASSUME NEW q \in DOMAIN posts PROVE q[1] \in lost' \/ q[1] = entry'
    BY <1>2 DEF Kept
  <2>1. q[1] \in Nat /\ q[1] # Nothing
    BY <1>1 DEF StarTypes, StarsAssumed
  <2>2. q[1] \in lost \/ q[1] = entry \/ q[1] = starJobs[j].post
    BY <1>1, <1>5 DEF Kept
  <2> QED BY <1>3, <1>4, <2>1, <2>2
<1>7. ASSUME Calm, Calm' PROVE Matching'
  <2>1. Matching /\ DOMAIN posts = {<<starJobs[j].post, starboard>>}
    BY <1>4, <1>7 DEF StarInv, Matching, InPlace
  <2>2. entry' = starJobs[j].post /\ entry' # Nothing
    BY <1>1, <1>3, <1>4, <1>7 DEF Calm, StarTypes, StarsAssumed
  <2> QED BY <1>2, <1>4, <2>1, <2>2, EndKeepsMatching
<1>8. /\ lastPost' \in Nat /\ entry' \in Nat \cup {Nothing} /\ starErrors' \in Nat /\ starErrors' >= starErrors
      /\ DOMAIN posts' \subseteq (1..lastPost') \X Channels /\ Numbered'
  BY <1>1, <1>2, <1>3, <1>4 DEF StarTypes, Numbered
<1> QED BY <1>2, <1>4, <1>5, <1>6, <1>7, <1>8, HolderKeeps

LEMMA DeleteEntryKeeps ==
  ASSUME StarInv, StarsAssumed, NEW j \in Jobs, Stars!DeleteEntry(j)
  PROVE  StarInv'
<1>1. StarTypes /\ Locked /\ Knows(j) /\ Numbered /\ Kept
  BY DEF StarInv
<1>2. /\ Stars!At(j, "delete") /\ starLock' = Idle /\ starJobs' = [starJobs EXCEPT ![j] = Idle]
      /\ Idle \in StarJob \cup {Idle}
      /\ UNCHANGED <<stars, starboard, selfReactDisabled, posts, lastPost, moved, lost>>
  BY DEF Stars!DeleteEntry, Stars!settings, Stars!discord, Stars!ghosts, Stars!Ends, Stars!Becomes
<1>3. (entry' = Nothing /\ UNCHANGED starErrors) \/ (starErrors' = starErrors + 1 /\ UNCHANGED entry)
  BY DEF Stars!DeleteEntry, Stars!Fails
<1>4. /\ Busy(j) /\ starJobs[j] \in StarJob /\ starJobs[j].step = "delete" /\ Inside(j)
      /\ ~Carries(j) /\ ~Uncounted(j) /\ \A q \in DOMAIN posts : q[1] \in lost
  BY <1>1, <1>2, StarAt DEF Inside, Carries, Uncounted, Knows
<1>5. Knows(j)'
  BY <1>2, <1>4, HolderLock
<1>6. Kept'
  BY <1>2, <1>4 DEF Kept
<1>7. ASSUME Calm, Calm' PROVE Matching'
  <2>1. Matching /\ DOMAIN posts = {}
    BY <1>4, <1>7 DEF StarInv, Matching, InPlace
  <2>2. entry' = Nothing
    BY <1>1, <1>3, <1>7 DEF Calm, StarTypes
  <2> QED BY <1>2, <1>4, <2>1, <2>2, EndKeepsMatching
<1>8. /\ lastPost' \in Nat /\ entry' \in Nat \cup {Nothing} /\ starErrors' \in Nat /\ starErrors' >= starErrors
      /\ DOMAIN posts' \subseteq (1..lastPost') \X Channels /\ Numbered'
  BY <1>1, <1>2, <1>3 DEF StarTypes, Numbered
<1> QED BY <1>2, <1>4, <1>5, <1>6, <1>7, <1>8, HolderKeeps

LEMMA ReactKeeps ==
  ASSUME StarInv, StarsAssumed, NEW j \in Jobs, NEW p \in Users, Stars!React(j, p)
  PROVE  StarInv'
<1> DEFINE r == [Stars!Blank EXCEPT !.adds = p \notin stars, !.by = p]
<1>1. StarTypes /\ Locked /\ Numbered /\ Kept
  BY DEF StarInv
<1>2. /\ starJobs[j] = Idle /\ starJobs' = [starJobs EXCEPT ![j] = r]
      /\ stars' = IF p \in stars THEN stars \ {p} ELSE stars \cup {p}
      /\ UNCHANGED <<starboard, selfReactDisabled, posts, lastPost, entry, starLock, starErrors, moved, lost>>
  BY DEF Stars!React, Stars!settings, Stars!ghosts, Stars!Becomes
<1>3. r \in StarJob /\ r.step = "settings" /\ (r.adds <=> p \notin stars)
  BY DEF Stars!Blank, StarJob
<1>4. r # Idle
  BY <1>3 DEF StarsAssumed
<1> HIDE DEF r
<1>5. /\ starJobs' \in [Jobs -> StarJob \cup {Idle}] /\ starJobs'[j] = r
      /\ \A k \in Jobs \ {j} : starJobs'[k] = starJobs[k] /\ SamePart(k)
  BY <1>1, <1>2, <1>3, StarMoves, SameJob
<1>6. /\ ~Busy(j) /\ Busy(j)' /\ Uncounted(j)' /\ ~Carries(j)' /\ ~Carries(j) /\ ~Uncounted(j)
      /\ ~Inside(j) /\ ~Inside(j)' /\ ~Stars!At(j, "save") /\ ~Stars!At(j, "save")'
      /\ ~Stars!At(j, "delete") /\ ~Stars!At(j, "delete")'
      /\ Adds(j)' <=> p \notin stars
      /\ Removes(j)' <=> p \in stars
  BY <1>2, <1>3, <1>4, <1>5 DEF Busy, Uncounted, Carries, Inside, Stars!At, Adds, Removes
<1>7. Locked'
  BY <1>1, <1>2, <1>5, <1>6, LockFollows DEF StarsAssumed
<1>8. IsFiniteSet(stars') /\ stars' \subseteq Users
  BY <1>1, <1>2, FS_AddElement, FS_RemoveElement DEF StarTypes
<1>9. StarTypes' /\ Numbered'
  BY <1>1, <1>2, <1>5, <1>8 DEF StarTypes, Numbered
<1>10. Kept'
  BY <1>1, <1>2, <1>5, <1>6 DEF Kept, SamePart
<1>11. ASSUME NEW k \in Jobs PROVE Knows(k)'
  <2>1. CASE k = j
    BY <1>3, <1>5, <2>1 DEF Knows
  <2>2. CASE k # j
    BY <1>2, <1>5, <2>2 DEF StarInv, Knows, Busy, Removes
  <2> QED BY <2>1, <2>2
<1>12. Calm' => Calm
  BY <1>2 DEF Calm
<1>13. ASSUME Calm PROVE Matching'
  <2>1. Matching
    BY <1>13 DEF StarInv
  <2>2. ASSUME NEW k \in Jobs PROVE InPlace(k)'
    <3>1. CASE k = j
      BY <1>3, <1>5, <1>6, <3>1 DEF InPlace
    <3>2. CASE k # j
      BY <1>2, <1>5, <2>1, <3>2, OthersInPlace DEF Matching
    <3> QED BY <3>1, <3>2
  <2>3. RowIsPost'
    BY <1>2, <1>5, <1>6, <2>1 DEF Matching, RowIsPost, SamePart
  <2>4. \A k \in Jobs : RemovesPost(k)' <=> RemovesPost(k)
    BY <1>5, <1>6 DEF RemovesPost, SamePart
  <2>5. TooFew'
    <3>1. CASE p \in stars
      BY <1>6, <3>1 DEF TooFew
    <3>2. CASE p \notin stars
      <4>1. Cardinality(stars') = Cardinality(stars) + 1 /\ Cardinality(stars) \in Nat
        BY <1>1, <1>2, <3>2, FS_AddElement, FS_CardinalityType DEF StarTypes
      <4>2. ASSUME DOMAIN posts # {} \/ (\E k \in Jobs : Adds(k)' /\ Carries(k)'), Cardinality(stars') < Threshold
            PROVE  \E k \in Jobs : Removes(k)' /\ (Uncounted(k)' \/ RemovesPost(k)')
        <5>1. DOMAIN posts # {} \/ (\E k \in Jobs : Adds(k) /\ Carries(k))
          BY <1>5, <1>6, <4>2 DEF SamePart
        <5>2. Cardinality(stars) < Threshold
          BY <4>1, <4>2 DEF StarsAssumed
        <5>3. PICK k \in Jobs : Removes(k) /\ (Uncounted(k) \/ RemovesPost(k))
          BY <2>1, <5>1, <5>2 DEF Matching, TooFew
        <5>4. k # j
          BY <1>6, <5>3 DEF Removes
        <5> QED BY <1>5, <2>4, <5>3, <5>4 DEF SamePart
      <4> QED BY <1>2, <4>2 DEF TooFew
    <3> QED BY <3>1, <3>2
  <2>6. Enough'
    <3>1. CASE p \notin stars
      BY <1>6, <3>1 DEF Enough
    <3>2. CASE p \in stars
      <4>1. Cardinality(stars') = Cardinality(stars) - 1 /\ Cardinality(stars) \in Nat
        BY <1>1, <1>2, <3>2, FS_RemoveElement, FS_CardinalityType DEF StarTypes
      <4>2. ASSUME DOMAIN posts = {} \/ (\E k \in Jobs : RemovesPost(k)'), Cardinality(stars') >= Threshold
            PROVE  \E k \in Jobs : Adds(k)' /\ (Uncounted(k)' \/ Carries(k)')
        <5>1. DOMAIN posts = {} \/ (\E k \in Jobs : RemovesPost(k))
          BY <2>4, <4>2
        <5>2. Cardinality(stars) >= Threshold
          BY <4>1, <4>2 DEF StarsAssumed
        <5>3. PICK k \in Jobs : Adds(k) /\ (Uncounted(k) \/ Carries(k))
          BY <2>1, <5>1, <5>2 DEF Matching, Enough
        <5>4. k # j
          BY <1>6, <5>3 DEF Adds
        <5> QED BY <1>5, <5>3, <5>4 DEF SamePart
      <4> QED BY <1>2, <4>2 DEF Enough
    <3> QED BY <3>1, <3>2
  <2>7. Shows' /\ Brings'
    BY <1>6 DEF Shows, Brings
  <2> QED BY <2>2, <2>3, <2>5, <2>6, <2>7 DEF Matching
<1> QED BY <1>7, <1>9, <1>10, <1>11, <1>12, <1>13 DEF StarInv

LEMMA ChangeChannelKeeps == ASSUME StarInv, Stars!ChangeChannel PROVE StarInv'
<1>1. /\ starboard' \in Channels /\ moved' = TRUE
      /\ UNCHANGED <<stars, posts, lastPost, selfReactDisabled, entry, starLock, starJobs, starErrors, lost>>
  BY DEF Stars!ChangeChannel, Stars!discord
<1>2. StarTypes' /\ Numbered' /\ ~Calm'
  BY <1>1 DEF StarInv, StarTypes, Numbered, Calm
<1>3. Locked' /\ Kept'
  BY <1>1 DEF StarInv, Locked, Kept, Inside, Busy, Stars!At
<1>4. \A k \in Jobs : Knows(k)'
  BY <1>1 DEF StarInv, Knows, Busy, Removes
<1> QED BY <1>2, <1>3, <1>4 DEF StarInv

LEMMA StarInit == ASSUME StarsAssumed, Stars!Init PROVE StarInv
<1>1. /\ stars = {} /\ starboard \in Channels /\ selfReactDisabled \in BOOLEAN
      /\ DOMAIN posts = {} /\ lastPost = 0 /\ entry = Nothing /\ starLock = Idle
      /\ starJobs = [j \in Jobs |-> Idle] /\ starErrors = 0 /\ moved = FALSE /\ lost = {}
  BY DEF Stars!Init
<1>2. \A j \in Jobs : /\ ~Busy(j) /\ ~Carries(j) /\ ~Inside(j) /\ ~Removes(j) /\ ~RemovesPost(j)
                      /\ InPlace(j) /\ Knows(j)
  BY <1>1 DEF Busy, Carries, Inside, Removes, RemovesPost, InPlace, Knows
<1>3. StarTypes
  BY <1>1, FS_EmptySet DEF StarTypes
<1>4. Locked /\ Numbered /\ Kept
  BY <1>1, <1>2 DEF Locked, Numbered, Kept, StarsAssumed
<1>5. RowIsPost /\ TooFew /\ Shows /\ Brings
  BY <1>1, <1>2 DEF RowIsPost, TooFew, Shows, Brings
<1>6. Enough
  BY <1>1, FS_EmptySet DEF Enough, StarsAssumed
<1> QED BY <1>2, <1>3, <1>4, <1>5, <1>6 DEF StarInv, Matching

LEMMA StarKeeps == ASSUME StarInv, StarsAssumed, [Stars!Next]_(Stars!vars) PROVE StarInv'
<1>1. ASSUME NEW j \in Jobs, Stars!Handles(j) PROVE StarInv'
  BY <1>1, ReadSettingsKeeps, LockKeeps, CountAddedKeeps, CountLeftKeeps, GetStarboardEntryKeeps,
     SendKeeps, EditKeeps, TakeDownKeeps, SaveEntryKeeps, DeleteEntryKeeps DEF Stars!Handles
<1>2. CASE UNCHANGED Stars!vars
  <2>1. UNCHANGED <<stars, starboard, selfReactDisabled, posts, lastPost, entry, starLock, starJobs,
                    starEvents, starErrors, moved, lost>>
    BY <1>2 DEF Stars!vars, Stars!discord, Stars!settings, Stars!ghosts
  <2>2. StarTypes' /\ Locked' /\ Numbered' /\ Kept' /\ (Calm' => Calm)
    BY <2>1 DEF StarInv, StarTypes, Locked, Inside, Busy, Numbered, Kept, Calm, Stars!At
  <2>3. \A k \in Jobs : Knows(k)'
    BY <2>1 DEF StarInv, Knows, Busy, Removes
  <2>4. ASSUME Calm PROVE Matching'
    <3>1. \A k \in Jobs : SamePart(k) /\ InPlace(k)'
      BY <2>1, <2>4, SameJob, OthersInPlace DEF StarInv, Matching
    <3> QED BY <2>1, <2>4, <3>1, AllSamePart DEF StarInv, Untouched
  <2> QED BY <2>2, <2>3, <2>4 DEF StarInv
<1> QED BY <1>1, <1>2, ReactKeeps, ChangeChannelKeeps DEF Stars!Next

LEMMA StarFollows == ASSUME StarInv, StarsAssumed PROVE Stars!PostsAreRecorded /\ Stars!StarsMatch
<1>1. Stars!PostsAreRecorded
  BY DEF StarInv, Kept, Stars!PostsAreRecorded, Stars!At
<1>2. Stars!StarsMatch
  <2> SUFFICES ASSUME \A j \in Jobs : starJobs[j] = Idle, Calm
               PROVE  IF Cardinality(stars) < Threshold THEN DOMAIN posts = {}
                      ELSE DOMAIN posts # {} /\ \A q \in DOMAIN posts : posts[q] = Cardinality(stars)
    BY StarsCount DEF Stars!StarsMatch, Calm
  <2>1. \A j \in Jobs : ~Removes(j) /\ ~Adds(j) /\ ~Uncounted(j) /\ ~Carries(j)
    BY DEF Removes, Adds, Uncounted, Carries, Busy
  <2>2. TooFew /\ Enough /\ Shows
    BY DEF StarInv, Matching
  <2>3. CASE Cardinality(stars) < Threshold
    BY <2>1, <2>2, <2>3 DEF TooFew
  <2>4. CASE ~(Cardinality(stars) < Threshold)
    <3>1. Cardinality(stars) >= Threshold
      BY <2>4, FS_CardinalityType DEF StarInv, StarTypes, StarsAssumed
    <3> QED BY <2>1, <2>2, <2>4, <3>1 DEF Enough, Shows
  <2> QED BY <2>3, <2>4
<1> QED BY <1>1, <1>2

StarWhenRun == focus = "starboard" => StarInv

\* A post on the starboard has its row, and stands there while its message has the stars,
\* however many goroutines handle its stars, in whatever order (starboard.go).
THEOREM StarsFollowAlways == ASSUME StarsAssumed PROVE MessagesSpec => []StarsFollow
<1>1. MessagesInit => StarWhenRun
  BY InitOfOne, StarInit DEF StarWhenRun
<1>2. StarWhenRun /\ [MessagesNext]_<<focus, From1, mcvars>> => StarWhenRun'
  BY StepOfOne, StarKeeps DEF StarWhenRun
<1>3. StarWhenRun => StarsFollow
  BY StarFollows DEF StarWhenRun, StarsFollow
<1> QED BY <1>1, <1>2, <1>3, PTL DEF MessagesSpec

-----------------------------------------------------------------------------
(***************************************************************************)
(* Pagination.  The timer that runs is the current generation's, so that   *)
(* whoever is to take the buttons off is never one that gives up.          *)
(***************************************************************************)

\* The variables by name.
opener == s1
pagedMessage == s2
stored == s3
currentPage == s4
gen == s5
timer == s6
pageJobs == s7
cleaning == s8
presses == s9
pageErrors == s10
forsaken == s11
USE DEF opener, pagedMessage, stored, currentPage, gen, timer, pageJobs, cleaning, presses,
        pageErrors, forsaken

PageJob == [pc : Paged!PCs, page : 0..Pages, gen : Nat]

PageTypes ==
  /\ stored \in BOOLEAN /\ forsaken \in BOOLEAN /\ gen \in Nat /\ timer \in {gen, Nothing} /\ currentPage \in 1..Pages
  /\ pagedMessage \in [page : 0..Pages, buttons : BOOLEAN]
  /\ pageJobs \in [Jobs -> PageJob]

NotSentYet ==
  opener = "start" => ~stored /\ ~pagedMessage.buttons /\ timer = Nothing /\ \A j \in Jobs : pageJobs[j].pc = "idle"

\* Who ends the session, but for the timer.
Ender(j) ==
  \/ pageJobs[j].pc \in {"reset", "forget"}
  \/ pageJobs[j].pc = "expire" /\ pageJobs[j].gen \in {0, gen}
SomeoneEnds == opener = "sent" \/ timer # Nothing \/ \E j \in Jobs : Ender(j)

Expires ==
  \/ forsaken \/ SomeoneEnds
  \/ /\ ~stored
     /\ pagedMessage.buttons => \E j \in Jobs : pageJobs[j].pc \in {"strip", "delete message"}

PageInv == PageTypes /\ NotSentYet /\ Expires

PagesAssumed == Nothing \notin Nat /\ Pages \in Nat \ {0}

LEMMA PageMoves ==
  ASSUME PageTypes, NEW j \in Jobs, NEW r \in PageJob, pageJobs' = [pageJobs EXCEPT ![j] = r]
  PROVE  /\ pageJobs' \in [Jobs -> PageJob] /\ pageJobs'[j] = r
         /\ \A k \in Jobs \ {j} : pageJobs'[k] = pageJobs[k]
BY DEF PageTypes

LEMMA PageJobTurns ==
  ASSUME PageTypes, NEW j \in Jobs, NEW pc \in Paged!PCs
  PROVE  /\ pageJobs[j] \in PageJob /\ [pageJobs[j] EXCEPT !.pc = pc] \in PageJob
         /\ [pageJobs[j] EXCEPT !.pc = pc].pc = pc
         /\ [pageJobs[j] EXCEPT !.pc = pc].gen = pageJobs[j].gen
BY DEF PageTypes, PageJob

LEMMA AtRestIs == ASSUME PagesAssumed PROVE Paged!AtRest \in PageJob /\ Paged!AtRest.pc = "idle"
BY DEF PageJob, Paged!AtRest, Paged!PCs, Paged!Kinds, PagesAssumed

LEMMA PCsAre ==
  Paged!PCs = {"idle", "respond", "reset", "delete message", "expire", "forget", "strip",
               "next", "previous", "jump", "close"}
BY DEF Paged!PCs, Paged!Kinds

\* Whoever has something to do was started after the message was sent.
LEMMA SentByNow == ASSUME PageInv, NEW j \in Jobs, pageJobs[j].pc # "idle" PROVE opener # "start"
BY DEF PageInv, NotSentYet

\* A handler moves, and neither the message nor the store changes.
LEMMA PageMoveKeeps ==
  ASSUME PageInv, NEW j \in Jobs, NEW r \in PageJob, pageJobs' = [pageJobs EXCEPT ![j] = r],
         opener # "start", currentPage' \in 1..Pages,
         UNCHANGED <<opener, pagedMessage, stored, gen, timer, forsaken>>,
         Ender(j) => Ender(j)', pageJobs[j].pc \notin {"strip", "delete message"}
  PROVE  PageInv'
<1>1. /\ pageJobs' \in [Jobs -> PageJob] /\ \A k \in Jobs \ {j} : pageJobs'[k] = pageJobs[k]
  BY PageMoves DEF PageInv
<1>2. PageTypes' /\ NotSentYet'
  BY <1>1 DEF PageInv, PageTypes, NotSentYet
<1>3. \A k \in Jobs : Ender(k) => Ender(k)'
  BY <1>1 DEF Ender
<1>4. SomeoneEnds => SomeoneEnds'
  BY <1>3 DEF SomeoneEnds
<1>5. \A k \in Jobs : pageJobs[k].pc \in {"strip", "delete message"} => pageJobs'[k].pc \in {"strip", "delete message"}
  BY <1>1
<1>6. Expires'
  BY <1>4, <1>5 DEF PageInv, Expires
<1> QED BY <1>2, <1>6 DEF PageInv

LEMMA SendPagesKeeps == ASSUME PageInv, PagesAssumed, Paged!Send \/ Paged!Set PROVE PageInv'
<1>1. CASE Paged!Send
  <2>1. /\ UNCHANGED <<stored, currentPage, gen, timer, pageJobs, forsaken>> /\ opener = "start"
        /\ \/ pagedMessage' = [page |-> 1, buttons |-> TRUE] /\ opener' = "sent"
           \/ opener' = "done" /\ UNCHANGED pagedMessage
    BY <1>1 DEF Paged!Send
  <2>2. PageTypes' /\ NotSentYet'
    <3>1. [page |-> 1, buttons |-> TRUE] \in [page : 0..Pages, buttons : BOOLEAN]
      BY DEF PagesAssumed
    <3>2. pagedMessage' \in [page : 0..Pages, buttons : BOOLEAN] /\ opener' # "start"
      BY <2>1, <3>1 DEF PageInv, PageTypes
    <3> QED BY <2>1, <3>2 DEF PageInv, PageTypes, NotSentYet
  <2>3. Expires'
    BY <2>1 DEF PageInv, NotSentYet, Expires, SomeoneEnds
  <2> QED BY <2>2, <2>3 DEF PageInv
<1>2. CASE Paged!Set
  <2>1. /\ opener' = "done" /\ stored' = TRUE /\ timer' = gen
        /\ UNCHANGED <<pagedMessage, currentPage, gen, pageJobs, forsaken>>
    BY <1>2 DEF Paged!Set
  <2>2. PageTypes' /\ NotSentYet' /\ timer' # Nothing
    BY <2>1 DEF PageInv, PageTypes, NotSentYet, PagesAssumed
  <2> QED BY <2>2 DEF PageInv, Expires, SomeoneEnds
<1> QED BY <1>1, <1>2

LEMMA PressKeeps ==
  ASSUME PageInv, PagesAssumed, NEW j \in Jobs, NEW kind \in Paged!Kinds, Paged!Press(j, kind)
  PROVE  PageInv'
<1> DEFINE r == [pageJobs[j] EXCEPT !.pc = kind]
<1>1. /\ pagedMessage.buttons /\ stored /\ pageJobs[j].pc = "idle" /\ pageJobs' = [pageJobs EXCEPT ![j] = r]
      /\ UNCHANGED <<opener, pagedMessage, stored, currentPage, gen, timer, forsaken>>
  BY DEF Paged!Press, Paged!Free, Paged!At, Paged!To
<1>2. r \in PageJob /\ ~Ender(j) /\ opener # "start" /\ currentPage' \in 1..Pages
  BY <1>1 DEF PageInv, PageTypes, NotSentYet, PageJob, Paged!PCs, Paged!Kinds, Ender
<1> HIDE DEF r
<1> QED BY <1>1, <1>2, PageMoveKeeps

LEMMA TurnKeeps ==
  ASSUME PageInv, PagesAssumed, NEW j \in Jobs, NEW kind \in Paged!Kinds, Paged!Turn(j, kind)
  PROVE  PageInv'
<1>1. PICK p \in Paged!Turned(kind) :
        /\ currentPage' = p
        /\ pageJobs' = [pageJobs EXCEPT ![j] = [pageJobs[j] EXCEPT !.pc = "respond", !.page = p]]
  BY DEF Paged!Turn
<1> DEFINE r == [pageJobs[j] EXCEPT !.pc = "respond", !.page = p]
<1>2. /\ pageJobs[j].pc = kind /\ kind \in {"next", "previous", "jump"}
      /\ UNCHANGED <<opener, pagedMessage, stored, gen, timer, forsaken>>
  BY DEF Paged!Turn, Paged!At, Paged!Kinds
<1>3. p \in 1..Pages
  BY <1>2 DEF Paged!Turned, PageInv, PageTypes, PagesAssumed
<1>4. r \in PageJob /\ ~Ender(j) /\ opener # "start" /\ currentPage' \in 1..Pages
  <2>1. "respond" \in Paged!PCs /\ p \in 0..Pages
    <3>1. "respond" \in Paged!PCs
      BY PCsAre
    <3>2. p \in 0..Pages
      BY <1>3
    <3> QED BY <3>1, <3>2
  <2>2. r \in PageJob
    BY <2>1 DEF PageInv, PageTypes, PageJob
  <2> QED BY <1>1, <1>2, <1>3, <2>2, SentByNow DEF Ender
<1>5. pageJobs' = [pageJobs EXCEPT ![j] = r] /\ pageJobs[j].pc \notin {"strip", "delete message"}
  BY <1>1, <1>2
<1> HIDE DEF r
<1> QED BY <1>2, <1>4, <1>5, PageMoveKeeps

LEMMA JumpNowhereKeeps == ASSUME PageInv, PagesAssumed, NEW j \in Jobs, Paged!JumpNowhere(j) PROVE PageInv'
<1>1. /\ pageJobs[j].pc = "jump" /\ pageJobs' = [pageJobs EXCEPT ![j] = Paged!AtRest]
      /\ UNCHANGED <<opener, pagedMessage, stored, currentPage, gen, timer, forsaken>>
  BY DEF Paged!JumpNowhere, Paged!At, Paged!End
<1>2. Paged!AtRest \in PageJob /\ ~Ender(j) /\ opener # "start" /\ currentPage' \in 1..Pages
  BY <1>1, AtRestIs, SentByNow DEF PageInv, PageTypes, Ender
<1> QED BY <1>1, <1>2, PageMoveKeeps

LEMMA ExpireKeeps == ASSUME PageInv, PagesAssumed, NEW j \in Jobs, Paged!Expire(j) PROVE PageInv'
<1> DEFINE r == IF pageJobs[j].gen \in {0, gen} THEN [pageJobs[j] EXCEPT !.pc = "forget"] ELSE Paged!AtRest
<1>1. /\ pageJobs[j].pc = "expire" /\ pageJobs' = [pageJobs EXCEPT ![j] = r]
      /\ UNCHANGED <<opener, pagedMessage, stored, currentPage, gen, timer, forsaken>>
  BY DEF Paged!Expire, Paged!At, Paged!End, Paged!To
<1>2. r \in PageJob /\ opener # "start" /\ currentPage' \in 1..Pages
  BY <1>1, AtRestIs, SentByNow, PageJobTurns, PCsAre DEF PageInv, PageTypes
<1>3. pageJobs[j].gen \in {0, gen} => r.pc = "forget"
  BY <1>1 DEF PageInv, PageTypes, PageJob
<1> HIDE DEF r
<1>4. Ender(j) => Ender(j)'
  BY <1>1, <1>2, <1>3, PageMoves DEF PageInv, Ender
<1> QED BY <1>1, <1>2, <1>4, PageMoveKeeps

\* What makes the session end, or has ended it.
LEMMA PageEnds ==
  ASSUME PageInv, NEW j \in Jobs, NEW r \in PageJob, pageJobs' = [pageJobs EXCEPT ![j] = r],
         opener # "start", UNCHANGED <<opener, currentPage, forsaken>>, gen' \in Nat, timer' \in {gen', Nothing},
         stored' \in BOOLEAN, pagedMessage' \in [page : 0..Pages, buttons : BOOLEAN],
         \/ timer' # Nothing
         \/ r.pc = "reset" \/ (r.pc = "expire" /\ r.gen = gen')
         \/ ~stored' /\ r.pc \in {"strip", "delete message"}
  PROVE  PageInv'
<1>1. pageJobs' \in [Jobs -> PageJob] /\ pageJobs'[j] = r
  BY PageMoves DEF PageInv
<1>2. PageTypes' /\ NotSentYet'
  BY <1>1 DEF PageInv, PageTypes, NotSentYet
<1>3. r.pc = "reset" \/ (r.pc = "expire" /\ r.gen = gen') => Ender(j)'
  BY <1>1 DEF Ender
<1> QED BY <1>1, <1>2, <1>3 DEF PageInv, Expires, SomeoneEnds

LEMMA RespondKeeps == ASSUME PageInv, PagesAssumed, NEW j \in Jobs, Paged!Respond(j) PROVE PageInv'
<1> DEFINE r == [pageJobs[j] EXCEPT !.pc = "reset"]
<1>1. /\ pageJobs[j].pc = "respond" /\ pageJobs' = [pageJobs EXCEPT ![j] = r]
      /\ pagedMessage' \in {pagedMessage, [page |-> pageJobs[j].page, buttons |-> TRUE]}
      /\ UNCHANGED <<opener, stored, currentPage, gen, timer, forsaken>>
  BY DEF Paged!Respond, Paged!At, Paged!To
<1>2. r \in PageJob /\ r.pc = "reset" /\ opener # "start"
      /\ pagedMessage' \in [page : 0..Pages, buttons : BOOLEAN] /\ gen' \in Nat
      /\ timer' \in {gen', Nothing} /\ stored' \in BOOLEAN
  <2>1. r \in PageJob /\ r.pc = "reset" /\ opener # "start" /\ pageJobs[j].page \in 0..Pages
    BY <1>1, SentByNow, PageJobTurns, PCsAre DEF PageInv, PageJob
  <2>2. pagedMessage' \in [page : 0..Pages, buttons : BOOLEAN]
    <3>1. [page |-> pageJobs[j].page, buttons |-> TRUE] \in [page : 0..Pages, buttons : BOOLEAN]
      BY <2>1
    <3> QED BY <1>1, <3>1 DEF PageInv, PageTypes
  <2>3. gen' \in Nat /\ timer' \in {gen', Nothing} /\ stored' \in BOOLEAN
    BY <1>1 DEF PageInv, PageTypes
  <2> QED BY <2>1, <2>2, <2>3
<1> HIDE DEF r
<1> QED BY <1>1, <1>2, PageEnds

LEMMA ResetKeeps == ASSUME PageInv, PagesAssumed, NEW j \in Jobs, Paged!Reset(j) PROVE PageInv'
<1>1. /\ pageJobs[j].pc = "reset" /\ pageJobs' = [pageJobs EXCEPT ![j] = Paged!AtRest]
      /\ gen' = gen + 1 /\ timer' = gen'
      /\ UNCHANGED <<opener, pagedMessage, stored, currentPage, forsaken>>
  BY DEF Paged!Reset, Paged!At, Paged!End
<1>2. Paged!AtRest \in PageJob /\ opener # "start" /\ gen' \in Nat /\ timer' # Nothing
      /\ timer' \in {gen', Nothing} /\ stored' \in BOOLEAN
      /\ pagedMessage' \in [page : 0..Pages, buttons : BOOLEAN]
  BY <1>1, AtRestIs, SentByNow DEF PageInv, PageTypes, PagesAssumed
<1> QED BY <1>1, <1>2, PageEnds

LEMMA FireKeeps == ASSUME PageInv, PagesAssumed, NEW j \in Jobs, Paged!Fire(j) PROVE PageInv'
<1> DEFINE r == [Paged!AtRest EXCEPT !.pc = "expire", !.gen = timer]
<1>1. /\ timer # Nothing /\ timer' = Nothing /\ pageJobs' = [pageJobs EXCEPT ![j] = r]
      /\ UNCHANGED <<opener, pagedMessage, stored, currentPage, gen, forsaken>>
  BY DEF Paged!Fire
<1>2. r \in PageJob /\ r.pc = "expire" /\ r.gen = gen' /\ gen' \in Nat
      /\ timer' \in {gen', Nothing} /\ stored' \in BOOLEAN
      /\ pagedMessage' \in [page : 0..Pages, buttons : BOOLEAN]
      /\ opener # "start"
  <2>1. gen \in Nat /\ timer = gen /\ "expire" \in Paged!PCs /\ 0 \in 0..Pages
    <3>1. "expire" \in Paged!PCs
      BY PCsAre
    <3>2. 0 \in 0..Pages
      BY DEF PagesAssumed
    <3>3. gen \in Nat /\ timer = gen
      BY <1>1 DEF PageInv, PageTypes
    <3> QED BY <3>1, <3>2, <3>3
  <2>2. r \in PageJob /\ r.pc = "expire" /\ r.gen = gen
    BY <2>1 DEF PageJob, Paged!AtRest
  <2> QED BY <1>1, <2>1, <2>2 DEF PageInv, PageTypes, NotSentYet
<1> HIDE DEF r
<1> QED BY <1>1, <1>2, PageEnds

LEMMA DeleteKeeps ==
  ASSUME PageInv, PagesAssumed, NEW j \in Jobs, Paged!Close(j) \/ Paged!Forget(j)
  PROVE  PageInv'
<1>1. PICK pc \in {"strip", "delete message"} : pageJobs' = [pageJobs EXCEPT ![j] = [pageJobs[j] EXCEPT !.pc = pc]]
  BY DEF Paged!Close, Paged!Forget, Paged!To
<1> DEFINE r == [pageJobs[j] EXCEPT !.pc = pc]
<1>2. /\ pageJobs[j].pc \in {"close", "forget"}
      /\ stored' = FALSE /\ timer' \in {timer, Nothing}
      /\ UNCHANGED <<opener, pagedMessage, currentPage, gen, forsaken>>
  BY DEF Paged!Close, Paged!Forget, Paged!At, Paged!Delete
<1>3. r \in PageJob /\ r.pc = pc /\ opener # "start"
      /\ pagedMessage' \in [page : 0..Pages, buttons : BOOLEAN] /\ gen' \in Nat
      /\ timer' \in {gen', Nothing}
  BY <1>2 DEF PageInv, PageTypes, NotSentYet, PageJob, Paged!PCs, Paged!Kinds
<1>4. pageJobs' = [pageJobs EXCEPT ![j] = r]
  BY <1>1
<1> HIDE DEF r
<1> QED BY <1>2, <1>3, <1>4, PageEnds

\* The buttons are taken off, with the message or from it.
LEMMA OffKeeps ==
  ASSUME PageInv, PagesAssumed, NEW j \in Jobs, Paged!DeleteMessage(j) \/ Paged!Strip(j)
  PROVE  PageInv'
<1>1. /\ pageJobs[j].pc \in {"strip", "delete message"}
      /\ pageJobs' = [pageJobs EXCEPT ![j] = Paged!AtRest]
      /\ \/ /\ pagedMessage' \in {[page |-> 0, buttons |-> FALSE], [pagedMessage EXCEPT !.buttons = FALSE]}
            /\ UNCHANGED forsaken
         \/ forsaken' = TRUE /\ UNCHANGED pagedMessage
      /\ UNCHANGED <<opener, stored, currentPage, gen, timer>>
  BY DEF Paged!DeleteMessage, Paged!Strip, Paged!At, Paged!End
<1>2. Paged!AtRest \in PageJob
  BY DEF PageJob, Paged!PCs, Paged!Kinds, Paged!AtRest, PagesAssumed
<1>3. /\ pageJobs' \in [Jobs -> PageJob] /\ \A k \in Jobs \ {j} : pageJobs'[k] = pageJobs[k]
  BY <1>1, <1>2, PageMoves DEF PageInv
<1>4. PageTypes' /\ NotSentYet' /\ (forsaken' \/ ~pagedMessage'.buttons)
  <2>1. pagedMessage' \in [page : 0..Pages, buttons : BOOLEAN] /\ (forsaken' \/ ~pagedMessage'.buttons)
    <3>1. 0 \in 0..Pages
      BY DEF PagesAssumed
    <3>2. CASE pagedMessage' = [page |-> 0, buttons |-> FALSE]
      BY <3>1, <3>2
    <3>3. CASE pagedMessage' = [pagedMessage EXCEPT !.buttons = FALSE]
      BY <3>3 DEF PageInv, PageTypes
    <3>4. CASE forsaken' = TRUE /\ UNCHANGED pagedMessage
      BY <3>4 DEF PageInv, PageTypes
    <3> QED BY <1>1, <3>2, <3>3, <3>4
  <2> QED BY <1>1, <1>3, <2>1, SentByNow DEF PageInv, PageTypes, NotSentYet
<1>5. \A k \in Jobs : Ender(k) => Ender(k)'
  BY <1>1, <1>3 DEF Ender
<1>6. SomeoneEnds => SomeoneEnds'
  BY <1>1, <1>5 DEF SomeoneEnds
<1>7. CASE forsaken'
  BY <1>4, <1>7 DEF PageInv, Expires
<1>8. CASE ~forsaken'
  <2>1. ~pagedMessage'.buttons /\ UNCHANGED forsaken
    BY <1>1, <1>4, <1>8
  <2> QED BY <1>1, <1>4, <1>6, <2>1 DEF PageInv, Expires
<1> QED BY <1>7, <1>8

LEMMA SweepPagesKeeps == ASSUME PageInv, Paged!Sweep PROVE PageInv'
<1>1. /\ stored' = FALSE /\ timer' \in {timer, Nothing} /\ forsaken' = TRUE
      /\ UNCHANGED <<opener, pagedMessage, currentPage, gen, pageJobs>>
  BY DEF Paged!Sweep, Paged!Delete
<1> QED BY <1>1 DEF PageInv, PageTypes, NotSentYet, Expires

LEMMA PageStays ==
  ASSUME PageInv, UNCHANGED <<opener, pagedMessage, stored, currentPage, gen, timer, pageJobs, forsaken>>
  PROVE  PageInv'
<1>1. \A k \in Jobs : Ender(k) => Ender(k)'
  BY DEF Ender
<1>2. SomeoneEnds => SomeoneEnds'
  BY <1>1 DEF SomeoneEnds
<1>3. Expires'
  BY <1>2 DEF PageInv, Expires
<1> QED BY <1>3 DEF PageInv, PageTypes, NotSentYet

LEMMA PageKeeps == ASSUME PageInv, PagesAssumed, [Paged!Next]_(Paged!vars) PROVE PageInv'
<1>1. ASSUME NEW j \in Jobs, Paged!JobStep(j) PROVE PageInv'
  BY <1>1, PressKeeps, TurnKeeps, JumpNowhereKeeps, RespondKeeps, ResetKeeps, DeleteKeeps, OffKeeps,
     FireKeeps, ExpireKeeps DEF Paged!JobStep
<1>2. CASE Paged!StartCleanup \/ Paged!StopCleanup \/ UNCHANGED Paged!vars
  BY <1>2, PageStays DEF Paged!StartCleanup, Paged!StopCleanup, Paged!vars
<1> QED BY <1>1, <1>2, SendPagesKeeps, SweepPagesKeeps DEF Paged!Next

LEMMA PageInit == ASSUME PagesAssumed, Paged!Init PROVE PageInv
<1>1. PageTypes /\ NotSentYet
  <2>1. [page |-> 0, buttons |-> FALSE] \in [page : 0..Pages, buttons : BOOLEAN] /\ 1 \in 1..Pages
    BY DEF PagesAssumed
  <2> QED BY <2>1, AtRestIs DEF Paged!Init, PageTypes, NotSentYet
<1> QED BY <1>1 DEF Paged!Init, PageInv, Expires

LEMMA PageFollows == ASSUME PageInv PROVE Paged!ButtonsExpire
BY DEF PageInv, Expires, SomeoneEnds, Ender, Paged!ButtonsExpire, Paged!Ending, Paged!At

-----------------------------------------------------------------------------
(***************************************************************************)
(* EmbedBuilder.  Who was told that a session is over was told so after it *)
(* had left the store; and a view that is not the embed as it is has       *)
(* somebody, who holds the mutex or read it without, about to replace it.  *)
(***************************************************************************)

\* The variables by name.
builderSessions == s1
content == s2
builderTargets == s3
mu == s4
modals == s5
shown == s6
editedMessage == s7
template == s8
builderJobs == s9
interactions == s10
builderErrors == s11
over == s12
stale == s13
USE DEF builderSessions, content, builderTargets, mu, modals, shown, editedMessage, template,
        builderJobs, interactions, builderErrors, over, stale

EmbedOf == [text : [{"title"} -> Texts], count : [{"field", "btn"} -> Nat]]

BuilderJob ==
  [step : {"auth", "launch", "confirm", "send", "apply", "read", "clear", "cancel", "open", "view",
           "answer", "post", "forget", "tell"},
   builder : Builders \cup {Nothing}, kind : Embed!Buttons \cup {""}, modal : BOOLEAN,
   seen : EmbedOf \cup {Nothing, Cancelled}, late : BOOLEAN]

BuilderTypes ==
  /\ content \in [Builders -> EmbedOf \cup {Nothing}]
  /\ shown \in [Builders -> EmbedOf \cup {Nothing, Cancelled}]
  /\ mu \in [Builders -> Jobs \cup {Idle}]
  /\ builderJobs \in [Jobs -> BuilderJob \cup {Idle}]
  /\ editedMessage \in EmbedOf /\ template \in EmbedOf \cup {Nothing}
  /\ modals \subseteq [builder : Builders, kind : Embed!Buttons \cup {""}]

Works(j) == builderJobs[j] # Idle
Launched(b) == b \in Builders /\ content[b] # Nothing

\* Nothing happens to a session before its launch; one that is over has left the store.
SessionsSound ==
  /\ \A b \in Builders : (shown[b] # Nothing \/ b \in builderSessions \/ b \in over) => Launched(b)
  /\ \A m \in modals : Launched(m.builder)
  /\ over \subseteq Builders /\ over \cap builderSessions = {}

\* What a handler may rely on.
Sound(j) ==
  Works(j) =>
    LET job == builderJobs[j]
        b == job.builder IN
    /\ job.step # "confirm" => Launched(b)
    /\ job.step = "tell" \/ (job.step = "answer" /\ job.seen = Cancelled) => b \notin builderSessions
    /\ job.late => b \in over /\ job.step = "auth"
    /\ job.step \in {"clear", "view", "cancel"} => ~job.modal
    /\ job.step \in {"send", "apply"} => job.modal
    /\ job.step = "clear" => job.kind \in {"clrfield", "clrbtn"}
    /\ job.step = "post" => job.seen \in EmbedOf
    /\ job.step = "answer" /\ job.modal => mu[b] = j /\ job.seen = Embed!Viewed(content[b])

\* The mutex is a modal's, from the change on.
Holds(j, b) ==
  /\ Works(j) /\ builderJobs[j].builder = b /\ builderJobs[j].modal
  /\ builderJobs[j].step \in {"answer", "post", "forget", "tell"}

\* Who is to replace the view.
Replaces(j, b) ==
  /\ Works(j) /\ builderJobs[j].builder = b
  /\ builderJobs[j].step = "view" \/ (builderJobs[j].step = "answer" /\ builderJobs[j].seen # Cancelled)

Replaced ==
  \A b \in Builders \ stale :
    shown[b] \in {Nothing, Cancelled, Embed!Viewed(content[b])} \/ \E j \in Jobs : Replaces(j, b)

BuilderInv ==
  /\ BuilderTypes /\ SessionsSound /\ \A j \in Jobs : Sound(j)
  /\ \A b \in Builders, j \in Jobs : mu[b] = j => Holds(j, b)
  /\ Replaced

BuildersAssumed ==
  /\ Idle \notin Jobs /\ Idle \notin BuilderJob /\ Start \in Texts /\ MaxFields \in Nat
  /\ Nothing \notin EmbedOf /\ Cancelled \notin EmbedOf \cup {Nothing}

LEMMA PartsOfEmbeds ==
  ASSUME BuildersAssumed
  PROVE  Embed!Default \in EmbedOf /\ Embed!LoadEmbedFromJSON \subseteq EmbedOf
<1>1. Embed!Default \in EmbedOf
  BY DEF Embed!Default, EmbedOf, Embed!Lists, BuildersAssumed
<1>2. ASSUME NEW embed \in Embed!LoadEmbedFromJSON PROVE embed \in EmbedOf
  <2>1. PICK t \in Texts \ {Start}, n \in {0, 1} :
          embed = [text |-> [p \in {"title"} |-> t], count |-> [field |-> 0, btn |-> n]]
    BY <1>2 DEF Embed!LoadEmbedFromJSON
  <2>2. [p \in {"title"} |-> t] \in [{"title"} -> Texts]
    OBVIOUS
  <2>3. [field |-> 0, btn |-> n] \in [{"field", "btn"} -> Nat]
    OBVIOUS
  <2> QED BY <2>1, <2>2, <2>3 DEF EmbedOf
<1> QED BY <1>1, <1>2

LEMMA ViewsAreEmbeds == ASSUME NEW embed \in EmbedOf PROVE Embed!Viewed(embed) \in EmbedOf
BY DEF EmbedOf, Embed!Viewed

LEMMA BuilderMoves ==
  ASSUME BuilderTypes, NEW j \in Jobs, NEW r \in BuilderJob \cup {Idle},
         builderJobs' = [builderJobs EXCEPT ![j] = r]
  PROVE  /\ builderJobs' \in [Jobs -> BuilderJob \cup {Idle}] /\ builderJobs'[j] = r
         /\ \A k \in Jobs \ {j} : builderJobs'[k] = builderJobs[k]
BY DEF BuilderTypes

LEMMA BuilderAt ==
  ASSUME BuilderInv, NEW j \in Jobs, NEW step, Embed!At(j, step)
  PROVE  /\ Works(j) /\ builderJobs[j] \in BuilderJob /\ builderJobs[j].step = step /\ Sound(j)
         /\ step # "confirm" => Launched(builderJobs[j].builder)
BY DEF BuilderInv, BuilderTypes, Embed!At, Works, Sound

\* One handler moves.  What it leaves of the sessions, of the mutex and of the embeds is what
\* the others rely on; and no view of a session is left behind.
LEMMA BuilderSteps ==
  ASSUME BuilderInv, BuildersAssumed, NEW j \in Jobs, NEW r \in BuilderJob \cup {Idle},
         builderJobs' = [builderJobs EXCEPT ![j] = r],
         content' \in [Builders -> EmbedOf \cup {Nothing}],
         shown' \in [Builders -> EmbedOf \cup {Nothing, Cancelled}],
         mu' \in [Builders -> Jobs \cup {Idle}],
         editedMessage' \in EmbedOf, template' \in EmbedOf \cup {Nothing},
         modals' \subseteq [builder : Builders, kind : Embed!Buttons \cup {""}],
         SessionsSound', r # Idle => Sound(j)',
         over \subseteq over',
         \A b \in Builders : Launched(b) =>
           Launched(b)' /\ (b \notin builderSessions => b \notin builderSessions'),
         \A b \in Builders :
           /\ mu[b] \notin {Idle, j} => mu'[b] = mu[b] /\ content'[b] = content[b]
           /\ mu'[b] \in {mu[b], j, Idle}
           /\ mu'[b] = j => Holds(j, b)',
         \A b \in Builders :
           \/ b \in stale' \/ shown'[b] \in {Nothing, Cancelled, Embed!Viewed(content'[b])} \/ Replaces(j, b)'
           \/ /\ b \notin stale /\ shown'[b] = shown[b] /\ content'[b] = content[b]
              /\ Replaces(j, b) => Replaces(j, b)'
  PROVE  BuilderInv'
<1>1. /\ builderJobs' \in [Jobs -> BuilderJob \cup {Idle}] /\ builderJobs'[j] = r
      /\ \A k \in Jobs \ {j} : builderJobs'[k] = builderJobs[k]
  BY BuilderMoves DEF BuilderInv
<1>2. BuilderTypes'
  BY <1>1 DEF BuilderTypes
<1>3. ASSUME NEW k \in Jobs PROVE Sound(k)'
  <2>1. CASE k = j
    BY <1>1, <2>1 DEF Sound, Works
  <2>2. CASE k # j
    <3> SUFFICES ASSUME Works(k) PROVE Sound(k)'
      BY <1>1, <2>2 DEF Sound, Works
    <3>1. Sound(k) /\ builderJobs'[k] = builderJobs[k] /\ k # Idle
      BY <1>1, <2>2 DEF BuilderInv, BuildersAssumed
    <3>2. ASSUME builderJobs[k].step = "answer", builderJobs[k].modal
          PROVE  /\ mu'[builderJobs[k].builder] = k
                 /\ builderJobs[k].seen = Embed!Viewed(content'[builderJobs[k].builder])
      <4>1. mu[builderJobs[k].builder] = k /\ builderJobs[k].seen = Embed!Viewed(content[builderJobs[k].builder])
            /\ builderJobs[k].builder \in Builders
        BY <3>1, <3>2 DEF Sound, Launched
      <4> QED BY <2>2, <3>1, <4>1
    <3>3. builderJobs[k].step # "confirm" => builderJobs[k].builder \in Builders /\ Launched(builderJobs[k].builder)
      BY <3>1 DEF Sound, Launched
    <3> QED BY <3>1, <3>2, <3>3 DEF Sound
  <2> QED BY <2>1, <2>2
<1>4. ASSUME NEW b \in Builders, NEW k \in Jobs, mu'[b] = k PROVE Holds(k, b)'
  <2>1. CASE k = j
    BY <1>4, <2>1
  <2>2. CASE k # j
    <3>1. mu[b] = k
      BY <1>4, <2>2 DEF BuildersAssumed
    <3>2. Holds(k, b) /\ builderJobs'[k] = builderJobs[k]
      BY <1>1, <2>2, <3>1 DEF BuilderInv
    <3> QED BY <3>2 DEF Holds, Works
  <2> QED BY <2>1, <2>2
<1>5. ASSUME NEW b \in Builders \ stale'
      PROVE  shown'[b] \in {Nothing, Cancelled, Embed!Viewed(content'[b])} \/ \E k \in Jobs : Replaces(k, b)'
  <2>1. CASE shown'[b] \in {Nothing, Cancelled, Embed!Viewed(content'[b])} \/ Replaces(j, b)'
    BY <2>1
  <2>2. CASE /\ b \notin stale /\ shown'[b] = shown[b] /\ content'[b] = content[b]
             /\ Replaces(j, b) => Replaces(j, b)'
    <3>1. shown[b] \in {Nothing, Cancelled, Embed!Viewed(content[b])} \/ \E k \in Jobs : Replaces(k, b)
      BY <2>2 DEF BuilderInv, Replaced
    <3>2. ASSUME NEW k \in Jobs, Replaces(k, b) PROVE Replaces(k, b)'
      <4>1. CASE k = j
        BY <2>2, <3>2, <4>1
      <4>2. CASE k # j
        BY <1>1, <3>2, <4>2 DEF Replaces, Works
      <4> QED BY <4>1, <4>2
    <3> QED BY <2>2, <3>1, <3>2
  <2> QED BY <1>5, <2>1, <2>2
<1>6. Replaced'
  BY <1>5 DEF Replaced
<1> QED BY <1>2, <1>3, <1>4, <1>6 DEF BuilderInv

\* A handler moves, and touches no view, no embed and no mutex.
LEMMA BuilderTurns ==
  ASSUME BuilderInv, BuildersAssumed, NEW j \in Jobs, NEW r \in BuilderJob \cup {Idle},
         builderJobs' = [builderJobs EXCEPT ![j] = r], UNCHANGED <<content, shown, mu, stale>>,
         editedMessage' \in EmbedOf, template' \in EmbedOf \cup {Nothing},
         modals' \subseteq [builder : Builders, kind : Embed!Buttons \cup {""}],
         SessionsSound', r # Idle => Sound(j)', over \subseteq over',
         builderSessions' \subseteq builderSessions,
         \A b \in Builders : mu[b] = j => Holds(j, b)',
         \A b \in Builders : Replaces(j, b) => Replaces(j, b)'
  PROVE  BuilderInv'
<1>1. /\ content' \in [Builders -> EmbedOf \cup {Nothing}]
      /\ shown' \in [Builders -> EmbedOf \cup {Nothing, Cancelled}]
      /\ mu' \in [Builders -> Jobs \cup {Idle}]
  BY DEF BuilderInv, BuilderTypes
<1>2. \A b \in Builders : Launched(b) =>
        Launched(b)' /\ (b \notin builderSessions => b \notin builderSessions')
  BY DEF Launched
<1>3. \A b \in Builders : /\ mu[b] \notin {Idle, j} => mu'[b] = mu[b] /\ content'[b] = content[b]
                          /\ mu'[b] \in {mu[b], j, Idle}
                          /\ mu'[b] = j => Holds(j, b)'
  OBVIOUS
<1>4. \A b \in Builders :
        \/ b \in stale' \/ shown'[b] \in {Nothing, Cancelled, Embed!Viewed(content'[b])} \/ Replaces(j, b)'
        \/ /\ b \notin stale /\ shown'[b] = shown[b] /\ content'[b] = content[b]
           /\ Replaces(j, b) => Replaces(j, b)'
  OBVIOUS
<1> QED BY <1>1, <1>2, <1>3, <1>4, BuilderSteps

LEMMA LaunchKeeps ==
  ASSUME BuilderInv, BuildersAssumed, NEW j \in Jobs, NEW b \in Builders, NEW embed \in EmbedOf,
         NEW targeted, Embed!Launch(j, b, embed, targeted)
  PROVE  BuilderInv'
<1> DEFINE r == [Embed!Blank EXCEPT !.step = "launch", !.builder = b]
<1>1. /\ content[b] = Nothing /\ builderJobs[j] = Idle /\ builderJobs' = [builderJobs EXCEPT ![j] = r]
      /\ content' = [content EXCEPT ![b] = embed] /\ builderSessions' = builderSessions \cup {b}
      /\ UNCHANGED <<mu, modals, shown, editedMessage, template, over, stale>>
  BY DEF Embed!Launch, Embed!Starts, Embed!discord, Embed!ghosts
<1>2. r \in BuilderJob /\ r.step = "launch" /\ r.builder = b /\ r.late = FALSE
  BY DEF Embed!Blank, BuilderJob, Embed!Buttons
<1> HIDE DEF r
<1>3. r # Idle /\ builderJobs'[j] = r
  BY <1>1, <1>2, BuilderMoves DEF BuilderInv, BuildersAssumed
<1>4. content' \in [Builders -> EmbedOf \cup {Nothing}] /\ embed # Nothing /\ content'[b] = embed
      /\ \A c \in Builders \ {b} : content'[c] = content[c]
  BY <1>1 DEF BuilderInv, BuilderTypes, BuildersAssumed
<1>5. ~Launched(b) /\ Launched(b)' /\ \A c \in Builders \ {b} : Launched(c)' <=> Launched(c)
  BY <1>1, <1>4 DEF Launched
<1>6. b \notin over /\ shown[b] = Nothing /\ \A c \in Builders : Launched(c) => c # b /\ Launched(c)'
  BY <1>5 DEF BuilderInv, SessionsSound
<1>7. SessionsSound'
  <2>1. \A c \in Builders : (shown'[c] # Nothing \/ c \in builderSessions' \/ c \in over') => Launched(c)'
    BY <1>1, <1>5, <1>6 DEF BuilderInv, SessionsSound
  <2>2. \A m \in modals' : Launched(m.builder)'
    BY <1>1, <1>5, <1>6 DEF BuilderInv, SessionsSound, BuilderTypes, Launched
  <2>3. over' \subseteq Builders /\ over' \cap builderSessions' = {}
    BY <1>1, <1>6 DEF BuilderInv, SessionsSound
  <2> QED BY <2>1, <2>2, <2>3 DEF SessionsSound
<1>8. Sound(j)'
  BY <1>2, <1>3, <1>5 DEF Sound
<1>9. \A c \in Builders :
        /\ mu[c] # j
        /\ mu[c] # Idle => content'[c] = content[c]
  <2> SUFFICES ASSUME NEW c \in Builders PROVE mu[c] # j /\ (mu[c] # Idle => c # b)
    BY <1>4
  <2>1. mu[c] # j
    BY <1>1 DEF BuilderInv, Holds, Works
  <2>2. ASSUME mu[c] # Idle PROVE c # b
    <3>1. PICK k \in Jobs : mu[c] = k
      BY <2>2 DEF BuilderInv, BuilderTypes
    <3>2. Holds(k, c) /\ Sound(k)
      BY <3>1 DEF BuilderInv
    <3>3. Launched(c)
      BY <3>2 DEF Holds, Sound
    <3> QED BY <1>5, <3>3
  <2> QED BY <2>1, <2>2
<1>10. \A c \in Builders :
         \/ c \in stale' \/ shown'[c] \in {Nothing, Cancelled, Embed!Viewed(content'[c])} \/ Replaces(j, c)'
         \/ /\ c \notin stale /\ shown'[c] = shown[c] /\ content'[c] = content[c]
            /\ Replaces(j, c) => Replaces(j, c)'
  BY <1>1, <1>4, <1>6 DEF Replaces, Works
<1>11. /\ shown' \in [Builders -> EmbedOf \cup {Nothing, Cancelled}]
       /\ mu' \in [Builders -> Jobs \cup {Idle}]
       /\ editedMessage' \in EmbedOf /\ template' \in EmbedOf \cup {Nothing}
       /\ modals' \subseteq [builder : Builders, kind : Embed!Buttons \cup {""}]
       /\ over \subseteq over'
       /\ \A c \in Builders : Launched(c) => Launched(c)' /\ (c \notin builderSessions => c \notin builderSessions')
       /\ \A c \in Builders : /\ mu[c] \notin {Idle, j} => mu'[c] = mu[c] /\ content'[c] = content[c]
                              /\ mu'[c] \in {mu[c], j, Idle}
                              /\ mu'[c] = j => Holds(j, c)'
  BY <1>1, <1>6, <1>9 DEF BuilderInv, BuilderTypes
<1> QED BY <1>1, <1>2, <1>4, <1>7, <1>8, <1>10, <1>11, BuilderSteps

\* A handler that has no mutex moves, and touches nothing else.
LEMMA BuilderGoes ==
  ASSUME BuilderInv, BuildersAssumed, NEW j \in Jobs, NEW r \in BuilderJob \cup {Idle},
         builderJobs' = [builderJobs EXCEPT ![j] = r],
         UNCHANGED <<builderSessions, content, shown, mu, modals, over, stale>>,
         editedMessage' \in EmbedOf, template' \in EmbedOf \cup {Nothing},
         r # Idle => Sound(j)', ~Works(j) \/ builderJobs[j].step \notin {"answer", "post", "forget", "tell"},
         \A b \in Builders : Replaces(j, b) => Replaces(j, b)'
  PROVE  BuilderInv'
<1>1. modals' \subseteq [builder : Builders, kind : Embed!Buttons \cup {""}]
  BY DEF BuilderInv, BuilderTypes
<1>2. SessionsSound'
  BY DEF BuilderInv, SessionsSound, Launched
<1>3. \A b \in Builders : mu[b] # j
  BY DEF BuilderInv, Holds
<1> QED BY <1>1, <1>2, <1>3, BuilderTurns

LEMMA CommandsKeep ==
  ASSUME BuilderInv, BuildersAssumed, NEW j \in Jobs, Embed!Commands(j)
  PROVE  BuilderInv'
<1>1. ASSUME NEW b \in Builders, Embed!EmbedCmd(j, b) \/ Embed!TemplateLoad(j, b) \/ Embed!Editembed(j, b)
      PROVE  BuilderInv'
  <2>1. template # Nothing => template \in EmbedOf
    BY DEF BuilderInv, BuilderTypes
  <2>2. editedMessage \in EmbedOf
    BY DEF BuilderInv, BuilderTypes
  <2> QED BY <1>1, <2>1, <2>2, LaunchKeeps, PartsOfEmbeds
          DEF Embed!EmbedCmd, Embed!TemplateLoad, Embed!Editembed
<1>2. CASE Embed!EditembedJSON(j) \/ Embed!TemplateSave(j)
  <2>1. /\ builderJobs[j] = Idle /\ builderJobs' = [builderJobs EXCEPT ![j] = Idle]
        /\ UNCHANGED <<builderSessions, content, shown, mu, modals, over, stale>>
    BY <1>2 DEF Embed!EditembedJSON, Embed!TemplateSave, Embed!Starts, Embed!store, Embed!discord, Embed!ghosts
  <2>2. editedMessage' \in EmbedOf /\ template' \in EmbedOf \cup {Nothing}
    BY <1>2, PartsOfEmbeds DEF Embed!EditembedJSON, Embed!TemplateSave, BuilderInv, BuilderTypes, Embed!discord
  <2>3. ~Works(j) /\ \A b \in Builders : ~Replaces(j, b)
    BY <2>1 DEF Works, Replaces
  <2> QED BY <2>1, <2>2, <2>3, BuilderGoes
<1>3. CASE Embed!TemplateDelete(j)
  <2> DEFINE r == [Embed!Blank EXCEPT !.step = "confirm"]
  <2>1. /\ builderJobs[j] = Idle /\ builderJobs' = [builderJobs EXCEPT ![j] = r]
        /\ UNCHANGED <<builderSessions, content, shown, mu, modals, over, stale, editedMessage, template>>
    BY <1>3 DEF Embed!TemplateDelete, Embed!Starts, Embed!store, Embed!discord, Embed!ghosts
  <2>2. r \in BuilderJob /\ r.step = "confirm" /\ r.late = FALSE
    BY DEF Embed!Blank, BuilderJob, Embed!Buttons
  <2> HIDE DEF r
  <2>3. editedMessage' \in EmbedOf /\ template' \in EmbedOf \cup {Nothing}
    BY <2>1 DEF BuilderInv, BuilderTypes
  <2>4. ~Works(j) /\ \A b \in Builders : ~Replaces(j, b)
    BY <2>1 DEF Works, Replaces
  <2>5. Sound(j)'
    BY <2>1, <2>2, BuilderMoves DEF BuilderInv, Sound
  <2> QED BY <2>1, <2>2, <2>3, <2>4, <2>5, BuilderGoes
<1>4. CASE Embed!DeleteConfirmed(j)
  <2>1. /\ Embed!At(j, "confirm") /\ builderJobs' = [builderJobs EXCEPT ![j] = Idle]
        /\ UNCHANGED <<builderSessions, content, shown, mu, modals, over, stale, editedMessage>>
        /\ template' \in {template, Nothing}
    BY <1>4 DEF Embed!DeleteConfirmed, Embed!Ends, Embed!store, Embed!discord, Embed!ghosts
  <2>2. editedMessage' \in EmbedOf /\ template' \in EmbedOf \cup {Nothing}
    BY <2>1 DEF BuilderInv, BuilderTypes
  <2>3. builderJobs[j].step = "confirm" /\ \A b \in Builders : ~Replaces(j, b)
    BY <2>1 DEF Embed!At, Replaces
  <2> QED BY <2>1, <2>2, <2>3, BuilderGoes
<1>5. CASE Embed!Launched(j)
  <2> DEFINE b == builderJobs[j].builder
  <2>1. /\ Embed!At(j, "launch") /\ builderJobs' = [builderJobs EXCEPT ![j] = Idle]
        /\ UNCHANGED <<builderSessions, content, mu, modals, over, stale, editedMessage, template>>
        /\ shown' = [shown EXCEPT ![b] = Embed!Viewed(content[b])] \/ UNCHANGED shown
    BY <1>5 DEF Embed!Launched, Embed!Ends, Embed!store, Embed!ghosts
  <2>2. Works(j) /\ builderJobs[j].step = "launch" /\ Launched(b) /\ b \in Builders
    BY <2>1, BuilderAt DEF Launched
  <2> HIDE DEF b
  <2>3. /\ shown' \in [Builders -> EmbedOf \cup {Nothing, Cancelled}]
        /\ \A c \in Builders : shown'[c] = shown[c] \/ (c = b /\ shown'[c] = Embed!Viewed(content[c]))
    <3>1. Embed!Viewed(content[b]) \in EmbedOf
      BY <2>2, ViewsAreEmbeds DEF BuilderInv, BuilderTypes, Launched
    <3> QED BY <2>1, <2>2, <3>1 DEF BuilderInv, BuilderTypes
  <2>4. SessionsSound'
    BY <2>1, <2>2, <2>3 DEF BuilderInv, SessionsSound, Launched
  <2>5. \A c \in Builders : mu[c] # j /\ ~Replaces(j, c)
    BY <2>2 DEF BuilderInv, Holds, Replaces
  <2>6. \A c \in Builders :
          \/ c \in stale' \/ shown'[c] \in {Nothing, Cancelled, Embed!Viewed(content'[c])} \/ Replaces(j, c)'
          \/ /\ c \notin stale /\ shown'[c] = shown[c] /\ content'[c] = content[c]
             /\ Replaces(j, c) => Replaces(j, c)'
    BY <2>1, <2>3, <2>5
  <2>7. /\ content' \in [Builders -> EmbedOf \cup {Nothing}] /\ mu' \in [Builders -> Jobs \cup {Idle}]
        /\ editedMessage' \in EmbedOf /\ template' \in EmbedOf \cup {Nothing}
        /\ modals' \subseteq [builder : Builders, kind : Embed!Buttons \cup {""}]
        /\ over \subseteq over'
        /\ \A c \in Builders : Launched(c) => Launched(c)' /\ (c \notin builderSessions => c \notin builderSessions')
        /\ \A c \in Builders : /\ mu[c] \notin {Idle, j} => mu'[c] = mu[c] /\ content'[c] = content[c]
                               /\ mu'[c] \in {mu[c], j, Idle}
                               /\ mu'[c] = j => Holds(j, c)'
    BY <2>1, <2>5 DEF BuilderInv, BuilderTypes, Launched
  <2> QED BY <2>1, <2>3, <2>4, <2>6, <2>7, BuilderSteps
<1> QED BY <1>1, <1>2, <1>3, <1>4, <1>5 DEF Embed!Commands

LEMMA BuilderStarts ==
  ASSUME BuilderInv, BuildersAssumed, NEW j \in Jobs, NEW b \in Builders, Launched(b),
         NEW r \in BuilderJob, r.step = "auth", r.builder = b, r.late => b \in over, Embed!Starts(j, r),
         UNCHANGED <<builderSessions, content, shown, mu, over, stale, editedMessage, template>>,
         modals' \subseteq modals
  PROVE  BuilderInv'
<1>1. builderJobs[j] = Idle /\ builderJobs' = [builderJobs EXCEPT ![j] = r]
  BY DEF Embed!Starts
<1>3. ~Works(j) /\ (\A c \in Builders : ~Replaces(j, c)) /\ \A c \in Builders : mu[c] # j
  BY <1>1 DEF Works, Replaces, BuilderInv, Holds
<1>4. Sound(j)'
  BY <1>1, BuilderMoves DEF BuilderInv, Sound, Launched
<1>5. SessionsSound'
  BY DEF BuilderInv, SessionsSound, Launched
<1>6. /\ editedMessage' \in EmbedOf /\ template' \in EmbedOf \cup {Nothing} /\ over \subseteq over'
      /\ modals' \subseteq [builder : Builders, kind : Embed!Buttons \cup {""}]
      /\ builderSessions' \subseteq builderSessions
  BY DEF BuilderInv, BuilderTypes
<1> QED BY <1>1, <1>3, <1>4, <1>5, <1>6, BuilderTurns

LEMMA ClickKeeps ==
  ASSUME BuilderInv, BuildersAssumed, NEW j \in Jobs, NEW b \in Builders, NEW kind \in Embed!Buttons,
         Embed!Click(j, b, kind)
  PROVE  BuilderInv'
<1> DEFINE late == b \in over
           r == [Embed!Blank EXCEPT !.builder = b, !.kind = kind, !.late = late]
<1>1. Launched(b)
  BY DEF Embed!Click, BuilderInv, SessionsSound
<1>3. /\ Embed!Starts(j, r)
      /\ UNCHANGED <<builderSessions, content, shown, mu, over, stale, editedMessage, template>>
      /\ modals' \subseteq modals
  BY DEF Embed!Click, Embed!store, Embed!discord, Embed!ghosts
<1>4. late \in BOOLEAN /\ (late => b \in over)
  OBVIOUS
<1> HIDE DEF late
<1>5. r \in BuilderJob /\ r.step = "auth" /\ r.builder = b /\ r.late = late
  BY <1>4 DEF Embed!Blank, BuilderJob
<1> HIDE DEF r
<1> QED BY <1>1, <1>3, <1>4, <1>5, BuilderStarts

LEMMA SubmitKeeps ==
  ASSUME BuilderInv, BuildersAssumed, NEW j \in Jobs, NEW m \in modals, Embed!Submit(j, m)
  PROVE  BuilderInv'
<1> DEFINE late == m.builder \in over
           r == [Embed!Blank EXCEPT !.builder = m.builder, !.kind = m.kind, !.modal = TRUE, !.late = late]
<1>1. Launched(m.builder) /\ m.builder \in Builders /\ m.kind \in Embed!Buttons \cup {""}
  BY DEF BuilderInv, SessionsSound, BuilderTypes
<1>3. /\ Embed!Starts(j, r)
      /\ UNCHANGED <<builderSessions, content, shown, mu, over, stale, editedMessage, template>>
      /\ modals' \subseteq modals
  BY DEF Embed!Submit, Embed!store, Embed!ghosts
<1>4. late \in BOOLEAN /\ (late => m.builder \in over)
  OBVIOUS
<1> HIDE DEF late
<1>5. r \in BuilderJob /\ r.step = "auth" /\ r.builder = m.builder /\ r.late = late
  BY <1>1, <1>4 DEF Embed!Blank, BuilderJob
<1> HIDE DEF r
<1> QED BY <1>1, <1>3, <1>4, <1>5, BuilderStarts

LEMMA AuthenticateKeeps ==
  ASSUME BuilderInv, BuildersAssumed, NEW j \in Jobs, Embed!Authenticate(j)
  PROVE  BuilderInv'
<1> DEFINE b == builderJobs[j].builder
           kind == builderJobs[j].kind
           step == IF builderJobs[j].modal THEN IF kind = "send" THEN "send" ELSE "apply"
                   ELSE CASE kind \in {"title"} -> "read"
                          [] kind \in DOMAIN Embed!Clears -> "clear"
                          [] kind = "cancel" -> "cancel"
                          [] OTHER -> "open"
           r == [builderJobs[j] EXCEPT !.step = step]
<1>1. /\ Embed!At(j, "auth")
      /\ UNCHANGED <<builderSessions, content, shown, mu, modals, stale, editedMessage, template>>
  BY DEF Embed!Authenticate, Embed!store, Embed!discord
<1>2. Works(j) /\ builderJobs[j] \in BuilderJob /\ builderJobs[j].step = "auth" /\ Sound(j) /\ Launched(b)
  BY <1>1, BuilderAt
<1>3. /\ ~Works(j) \/ builderJobs[j].step \notin {"answer", "post", "forget", "tell"}
      /\ \A c \in Builders : mu[c] # j /\ ~Replaces(j, c)
      /\ editedMessage' \in EmbedOf /\ template' \in EmbedOf \cup {Nothing}
      /\ modals' \subseteq [builder : Builders, kind : Embed!Buttons \cup {""}]
      /\ builderSessions' \subseteq builderSessions
  BY <1>1, <1>2 DEF BuilderInv, BuilderTypes, Holds, Replaces
<1>4. CASE b \in builderSessions /\ builderJobs' = [builderJobs EXCEPT ![j] = r] /\ UNCHANGED over
  <2>1. /\ step \in {"send", "apply", "read", "clear", "cancel", "open"}
        /\ step \in {"clear", "cancel"} => ~builderJobs[j].modal
        /\ step \in {"send", "apply"} => builderJobs[j].modal
        /\ step = "clear" => kind \in {"clrfield", "clrbtn"}
    <3>0. DOMAIN Embed!Clears = {"clrfield", "clrbtn"}
      BY DEF Embed!Clears
    <3>1. CASE builderJobs[j].modal
      BY <3>1
    <3>2. CASE ~builderJobs[j].modal
      BY <3>0, <3>2
    <3> QED BY <3>1, <3>2
  <2> HIDE DEF step
  <2>2. /\ r \in BuilderJob /\ r.step = step /\ r.builder = b /\ r.late = builderJobs[j].late
        /\ r.modal = builderJobs[j].modal /\ r.kind = kind
    BY <1>2, <2>1 DEF BuilderJob
  <2> HIDE DEF r
  <2>3. ~builderJobs[j].late
    BY <1>2, <1>4 DEF BuilderInv, SessionsSound, Sound
  <2>4. builderJobs'[j] = r
    BY <1>4, <2>2, BuilderMoves DEF BuilderInv
  <2>5. Sound(j)'
    BY <1>1, <1>2, <2>1, <2>2, <2>3, <2>4 DEF Sound, Launched
  <2> QED BY <1>1, <1>3, <1>4, <2>2, <2>5, BuilderGoes
<1>5. CASE b \notin builderSessions /\ builderJobs' = [builderJobs EXCEPT ![j] = Idle] /\ over' = over \cup {b}
  <2>1. SessionsSound' /\ over \subseteq over'
    BY <1>1, <1>2, <1>5 DEF BuilderInv, SessionsSound, Launched
  <2> QED BY <1>1, <1>3, <1>5, <2>1, BuilderTurns
<1> QED BY <1>4, <1>5 DEF Embed!Authenticate, Embed!Goes, Embed!Ends

LEMMA ReadPartKeeps ==
  ASSUME BuilderInv, BuildersAssumed, NEW j \in Jobs, Embed!ReadPart(j) \/ Embed!View(j)
  PROVE  BuilderInv'
<1>1. /\ builderJobs[j] # Idle /\ builderJobs[j].step \in {"read", "view"}
      /\ UNCHANGED <<builderSessions, content, shown, mu, modals, over, stale, editedMessage, template>>
  BY DEF Embed!ReadPart, Embed!View, Embed!At, Embed!store, Embed!discord, Embed!ghosts
<1>2. Works(j) /\ builderJobs[j] \in BuilderJob /\ Sound(j) /\ Launched(builderJobs[j].builder)
  BY <1>1, BuilderAt DEF Embed!At
<1>3. /\ editedMessage' \in EmbedOf /\ template' \in EmbedOf \cup {Nothing}
      /\ builderJobs[j].step \notin {"answer", "post", "forget", "tell"}
  BY <1>1 DEF BuilderInv, BuilderTypes
<1>4. CASE Embed!ReadPart(j)
  <2> DEFINE r == [builderJobs[j] EXCEPT !.step = "open"]
  <2>1. builderJobs' = [builderJobs EXCEPT ![j] = r] /\ builderJobs[j].step = "read"
    BY <1>4 DEF Embed!ReadPart, Embed!Goes, Embed!At
  <2>2. /\ r \in BuilderJob /\ r.step = "open" /\ r.builder = builderJobs[j].builder
        /\ r.late = builderJobs[j].late
    BY <1>2 DEF BuilderJob
  <2> HIDE DEF r
  <2>3. builderJobs'[j] = r
    BY <2>1, <2>2, BuilderMoves DEF BuilderInv
  <2>4. Sound(j)' /\ \A b \in Builders : ~Replaces(j, b)
    BY <1>1, <1>2, <2>1, <2>2, <2>3 DEF Sound, Launched, Replaces
  <2> QED BY <1>1, <1>3, <2>1, <2>2, <2>4, BuilderGoes
<1>5. CASE Embed!View(j)
  <2> DEFINE b == builderJobs[j].builder
             r == [builderJobs[j] EXCEPT !.step = "answer", !.seen = Embed!Viewed(content[b])]
  <2>1. builderJobs' = [builderJobs EXCEPT ![j] = r] /\ builderJobs[j].step = "view"
    BY <1>5 DEF Embed!View, Embed!At
  <2>2. Embed!Viewed(content[b]) \in EmbedOf /\ Embed!Viewed(content[b]) # Cancelled
    <3>1. content[b] \in EmbedOf
      BY <1>2 DEF BuilderInv, BuilderTypes, Launched
    <3> QED BY <3>1, ViewsAreEmbeds DEF BuildersAssumed
  <2>3. /\ r \in BuilderJob /\ r.step = "answer" /\ r.builder = b /\ r.seen = Embed!Viewed(content[b])
        /\ r.late = builderJobs[j].late /\ r.modal = builderJobs[j].modal
    BY <1>2, <2>2 DEF BuilderJob
  <2> HIDE DEF r
  <2>4. builderJobs'[j] = r /\ r # Idle
    BY <2>1, <2>3, BuilderMoves DEF BuilderInv, BuildersAssumed
  <2>5. Sound(j)'
    BY <1>1, <1>2, <2>1, <2>2, <2>3, <2>4 DEF Sound, Launched
  <2>6. \A c \in Builders : Replaces(j, c) => Replaces(j, c)'
    BY <2>2, <2>3, <2>4 DEF Replaces, Works
  <2> QED BY <1>1, <1>3, <2>1, <2>3, <2>5, <2>6, BuilderGoes
<1> QED BY <1>4, <1>5

LEMMA OpenModalKeeps ==
  ASSUME BuilderInv, BuildersAssumed, NEW j \in Jobs, Embed!OpenModal(j)
  PROVE  BuilderInv'
<1> DEFINE m == [builder |-> builderJobs[j].builder, kind |-> builderJobs[j].kind]
<1>1. /\ Embed!At(j, "open") /\ builderJobs' = [builderJobs EXCEPT ![j] = Idle]
      /\ UNCHANGED <<builderSessions, content, shown, mu, over, stale, editedMessage, template>>
      /\ modals' \in {modals, modals \cup {m}}
  BY DEF Embed!OpenModal, Embed!Ends, Embed!store, Embed!ghosts
<1>2. /\ builderJobs[j] \in BuilderJob /\ builderJobs[j].step = "open"
      /\ Launched(builderJobs[j].builder) /\ builderJobs[j].builder \in Builders
  BY <1>1, BuilderAt DEF Launched
<1>3. m \in [builder : Builders, kind : Embed!Buttons \cup {""}] /\ m.builder = builderJobs[j].builder
  BY <1>2 DEF BuilderJob
<1> HIDE DEF m
<1>4. modals' \subseteq [builder : Builders, kind : Embed!Buttons \cup {""}]
  BY <1>1, <1>3 DEF BuilderInv, BuilderTypes
<1>5. SessionsSound'
  BY <1>1, <1>2, <1>3 DEF BuilderInv, SessionsSound, Launched
<1>6. /\ \A c \in Builders : mu[c] # j /\ ~Replaces(j, c)
      /\ editedMessage' \in EmbedOf /\ template' \in EmbedOf \cup {Nothing}
      /\ builderSessions' \subseteq builderSessions /\ over \subseteq over'
  BY <1>1, <1>2 DEF BuilderInv, BuilderTypes, Holds, Replaces
<1> QED BY <1>1, <1>4, <1>5, <1>6, BuilderTurns

LEMMA ClearKeeps ==
  ASSUME BuilderInv, BuildersAssumed, NEW j \in Jobs, Embed!Clear(j)
  PROVE  BuilderInv'
<1> DEFINE b == builderJobs[j].builder
           list == Embed!Clears[builderJobs[j].kind]
           embed == [content[b] EXCEPT !.count[list] = 0]
           r == [builderJobs[j] EXCEPT !.step = "view"]
<1>1. /\ Embed!At(j, "clear") /\ mu[b] = Idle /\ builderJobs' = [builderJobs EXCEPT ![j] = r]
      /\ content' = [content EXCEPT ![b] = embed]
      /\ UNCHANGED <<builderSessions, shown, mu, modals, over, stale, editedMessage, template>>
  BY DEF Embed!Clear, Embed!Frees, Embed!Goes, Embed!discord, Embed!ghosts
<1>2. /\ Works(j) /\ builderJobs[j] \in BuilderJob /\ builderJobs[j].step = "clear" /\ Sound(j)
      /\ Launched(b) /\ b \in Builders
  BY <1>1, BuilderAt DEF Launched
<1>3. list \in {"field", "btn"}
  BY <1>2 DEF Sound, Embed!Clears
<1>4. content[b] \in EmbedOf
  BY <1>2 DEF BuilderInv, BuilderTypes, Launched
<1>5. embed \in EmbedOf /\ embed # Nothing
  BY <1>3, <1>4 DEF EmbedOf, BuildersAssumed
<1>6. /\ r \in BuilderJob /\ r.step = "view" /\ r.builder = b /\ r.late = builderJobs[j].late
      /\ r.modal = builderJobs[j].modal
  BY <1>2 DEF BuilderJob
<1> HIDE DEF r, embed, list
<1>7. builderJobs'[j] = r /\ r # Idle
  BY <1>1, <1>6, BuilderMoves DEF BuilderInv, BuildersAssumed
<1>8. /\ content' \in [Builders -> EmbedOf \cup {Nothing}] /\ content'[b] = embed
      /\ \A c \in Builders \ {b} : content'[c] = content[c]
  BY <1>1, <1>2, <1>5 DEF BuilderInv, BuilderTypes
<1>9. \A c \in Builders : Launched(c)' <=> Launched(c)
  BY <1>2, <1>5, <1>8 DEF Launched
<1>10. Sound(j)' /\ \A c \in Builders : c = b => Replaces(j, c)'
  BY <1>1, <1>2, <1>6, <1>7, <1>9 DEF Sound, Replaces, Works
<1>11. SessionsSound'
  BY <1>1, <1>9 DEF BuilderInv, SessionsSound, BuilderTypes
<1>12. \A c \in Builders :
         \/ c \in stale' \/ shown'[c] \in {Nothing, Cancelled, Embed!Viewed(content'[c])} \/ Replaces(j, c)'
         \/ /\ c \notin stale /\ shown'[c] = shown[c] /\ content'[c] = content[c]
            /\ Replaces(j, c) => Replaces(j, c)'
  <2> TAKE c \in Builders
  <2>1. CASE c = b
    BY <1>10, <2>1
  <2>2. CASE c # b
    <3>1. ~Replaces(j, c)
      BY <2>2 DEF Replaces
    <3> QED BY <1>1, <1>8, <2>2, <3>1
  <2> QED BY <2>1, <2>2
<1>13. /\ shown' \in [Builders -> EmbedOf \cup {Nothing, Cancelled}]
       /\ mu' \in [Builders -> Jobs \cup {Idle}]
       /\ editedMessage' \in EmbedOf /\ template' \in EmbedOf \cup {Nothing}
       /\ modals' \subseteq [builder : Builders, kind : Embed!Buttons \cup {""}]
       /\ over \subseteq over'
       /\ \A c \in Builders : Launched(c) => Launched(c)' /\ (c \notin builderSessions => c \notin builderSessions')
       /\ \A c \in Builders : mu[c] # j
  BY <1>1, <1>2, <1>9 DEF BuilderInv, BuilderTypes, Holds
<1>14. \A c \in Builders : /\ mu[c] \notin {Idle, j} => mu'[c] = mu[c] /\ content'[c] = content[c]
                           /\ mu'[c] \in {mu[c], j, Idle}
                           /\ mu'[c] = j => Holds(j, c)'
  BY <1>1, <1>8, <1>13
<1> QED BY <1>1, <1>6, <1>8, <1>10, <1>11, <1>12, <1>13, <1>14, BuilderSteps

LEMMA CancelKeeps ==
  ASSUME BuilderInv, BuildersAssumed, NEW j \in Jobs, Embed!Cancel(j)
  PROVE  BuilderInv'
<1> DEFINE r == [builderJobs[j] EXCEPT !.step = "answer", !.seen = Cancelled]
<1>1. /\ Embed!At(j, "cancel") /\ builderJobs' = [builderJobs EXCEPT ![j] = r]
      /\ builderSessions' = builderSessions \ {builderJobs[j].builder}
      /\ UNCHANGED <<content, shown, mu, modals, over, stale, editedMessage, template>>
  BY DEF Embed!Cancel, Embed!discord, Embed!ghosts
<1>2. /\ Works(j) /\ builderJobs[j] \in BuilderJob /\ builderJobs[j].step = "cancel" /\ Sound(j)
      /\ Launched(builderJobs[j].builder)
  BY <1>1, BuilderAt
<1>3. /\ r \in BuilderJob /\ r.step = "answer" /\ r.builder = builderJobs[j].builder
      /\ r.late = builderJobs[j].late /\ r.modal = builderJobs[j].modal
  BY <1>2 DEF BuilderJob
<1> HIDE DEF r
<1>4. builderJobs'[j] = r
  BY <1>1, <1>3, BuilderMoves DEF BuilderInv
<1>5. Sound(j)'
  BY <1>1, <1>2, <1>3, <1>4 DEF Sound, Launched
<1>6. SessionsSound'
  BY <1>1 DEF BuilderInv, SessionsSound, Launched
<1>7. /\ \A c \in Builders : mu[c] # j /\ ~Replaces(j, c)
      /\ editedMessage' \in EmbedOf /\ template' \in EmbedOf \cup {Nothing}
      /\ modals' \subseteq [builder : Builders, kind : Embed!Buttons \cup {""}]
      /\ builderSessions' \subseteq builderSessions /\ over \subseteq over'
  BY <1>1, <1>2 DEF BuilderInv, BuilderTypes, Holds, Replaces
<1> QED BY <1>1, <1>3, <1>5, <1>6, <1>7, BuilderTurns

LEMMA AppliedEmbeds ==
  ASSUME BuildersAssumed, NEW embed \in EmbedOf, NEW job \in BuilderJob
  PROVE  Embed!Applied(embed, job) \subseteq EmbedOf
<1>1. ASSUME NEW t \in Texts, job.kind \in {"title"} PROVE [embed EXCEPT !.text[job.kind] = t] \in EmbedOf
  BY <1>1 DEF EmbedOf
<1>2. ASSUME job.kind \in {"field", "btn"} PROVE [embed EXCEPT !.count[job.kind] = @ + 1] \in EmbedOf
  <2>1. embed.count[job.kind] + 1 \in Nat
    BY <1>2 DEF EmbedOf
  <2> QED BY <1>2, <2>1 DEF EmbedOf
<1>3. ASSUME NEW new \in Embed!LoadEmbedFromJSON
      PROVE  new \in EmbedOf /\ [new EXCEPT !.count["btn"] = embed.count["btn"]] \in EmbedOf
  <2>1. new \in EmbedOf
    BY <1>3, PartsOfEmbeds
  <2>2. embed.count["btn"] \in Nat
    BY DEF EmbedOf
  <2> QED BY <2>1, <2>2 DEF EmbedOf
<1> QED BY <1>1, <1>2, <1>3 DEF Embed!Applied, Embed!Lists

\* A modal's handler gives the mutex back.
LEMMA BuilderUnlocks ==
  ASSUME BuilderInv, BuildersAssumed, NEW j \in Jobs, mu' = Embed!Unlocked(j)
  PROVE  /\ mu' \in [Builders -> Jobs \cup {Idle}]
         /\ \A b \in Builders : /\ mu[b] \notin {Idle, j} => mu'[b] = mu[b]
                                /\ mu'[b] \in {mu[b], Idle} /\ mu'[b] # j
BY DEF Embed!Unlocked, BuilderInv, BuilderTypes, BuildersAssumed

LEMMA ApplyKeeps ==
  ASSUME BuilderInv, BuildersAssumed, NEW j \in Jobs, Embed!Apply(j)
  PROVE  BuilderInv'
<1> DEFINE b == builderJobs[j].builder
<1>1. /\ Embed!At(j, "apply") /\ mu[b] = Idle /\ mu' = [mu EXCEPT ![b] = j]
      /\ UNCHANGED <<builderSessions, shown, modals, over, stale, editedMessage, template>>
  BY DEF Embed!Apply, Embed!Frees, Embed!discord, Embed!ghosts
<1>2. /\ Works(j) /\ builderJobs[j] \in BuilderJob /\ builderJobs[j].step = "apply" /\ Sound(j)
      /\ Launched(b) /\ b \in Builders
  BY <1>1, BuilderAt DEF Launched
<1>3. content[b] \in EmbedOf
  BY <1>2 DEF BuilderInv, BuilderTypes, Launched
<1>4. PICK embed \in Embed!Applied(content[b], builderJobs[j]) :
        /\ content' = [content EXCEPT ![b] = embed]
        /\ builderJobs' = [builderJobs EXCEPT ![j].step = "answer", ![j].seen = Embed!Viewed(embed)]
  BY DEF Embed!Apply
<1>5. /\ embed \in EmbedOf /\ embed # Nothing
      /\ Embed!Viewed(embed) \in EmbedOf /\ Embed!Viewed(embed) # Cancelled
  BY <1>2, <1>3, <1>4, AppliedEmbeds, ViewsAreEmbeds DEF BuildersAssumed
<1> DEFINE r == [builderJobs[j] EXCEPT !.step = "answer", !.seen = Embed!Viewed(embed)]
<1>6. builderJobs' = [builderJobs EXCEPT ![j] = r]
  BY <1>4
<1>7. /\ r \in BuilderJob /\ r.step = "answer" /\ r.builder = b /\ r.late = builderJobs[j].late
      /\ r.modal = builderJobs[j].modal /\ r.seen = Embed!Viewed(embed)
  BY <1>2, <1>5 DEF BuilderJob
<1> HIDE DEF r
<1>8. builderJobs'[j] = r /\ r # Idle
  BY <1>6, <1>7, BuilderMoves DEF BuilderInv, BuildersAssumed
<1>9. /\ content' \in [Builders -> EmbedOf \cup {Nothing}] /\ content'[b] = embed
      /\ \A c \in Builders \ {b} : content'[c] = content[c]
  BY <1>2, <1>4, <1>5 DEF BuilderInv, BuilderTypes
<1>10. /\ mu' \in [Builders -> Jobs \cup {Idle}] /\ mu'[b] = j
       /\ \A c \in Builders \ {b} : mu'[c] = mu[c]
  BY <1>1, <1>2 DEF BuilderInv, BuilderTypes
<1>11. \A c \in Builders : Launched(c)' <=> Launched(c)
  BY <1>2, <1>5, <1>9 DEF Launched
<1>12. \A c \in Builders : c = b => Replaces(j, c)' /\ Holds(j, c)'
  BY <1>2, <1>5, <1>7, <1>8 DEF Replaces, Holds, Works, Sound
<1>13. Sound(j)'
  BY <1>1, <1>2, <1>5, <1>7, <1>8, <1>9, <1>10, <1>11 DEF Sound
<1>14. SessionsSound'
  BY <1>1, <1>11 DEF BuilderInv, SessionsSound, BuilderTypes
<1>15. \A c \in Builders : mu[c] # j
  BY <1>2 DEF BuilderInv, Holds
<1>16. \A c \in Builders :
         \/ c \in stale' \/ shown'[c] \in {Nothing, Cancelled, Embed!Viewed(content'[c])} \/ Replaces(j, c)'
         \/ /\ c \notin stale /\ shown'[c] = shown[c] /\ content'[c] = content[c]
            /\ Replaces(j, c) => Replaces(j, c)'
  <2> TAKE c \in Builders
  <2>1. CASE c = b
    BY <1>12, <2>1
  <2>2. CASE c # b
    <3>1. ~Replaces(j, c)
      BY <2>2 DEF Replaces
    <3> QED BY <1>1, <1>9, <2>2, <3>1
  <2> QED BY <2>1, <2>2
<1>17. /\ shown' \in [Builders -> EmbedOf \cup {Nothing, Cancelled}]
       /\ editedMessage' \in EmbedOf /\ template' \in EmbedOf \cup {Nothing}
       /\ modals' \subseteq [builder : Builders, kind : Embed!Buttons \cup {""}]
       /\ over \subseteq over'
       /\ \A c \in Builders : Launched(c) => Launched(c)' /\ (c \notin builderSessions => c \notin builderSessions')
  BY <1>1, <1>11 DEF BuilderInv, BuilderTypes
<1>18. \A c \in Builders : /\ mu[c] \notin {Idle, j} => mu'[c] = mu[c] /\ content'[c] = content[c]
                           /\ mu'[c] \in {mu[c], j, Idle}
                           /\ mu'[c] = j => Holds(j, c)'
  <2> TAKE c \in Builders
  <2>1. CASE c = b
    BY <1>1, <1>10, <1>12, <2>1
  <2>2. CASE c # b
    BY <1>9, <1>10, <1>15, <2>2
  <2> QED BY <2>1, <2>2
<1> QED BY <1>6, <1>7, <1>9, <1>10, <1>13, <1>14, <1>16, <1>17, <1>18, BuilderSteps

LEMMA RefuseKeeps ==
  ASSUME BuilderInv, BuildersAssumed, NEW j \in Jobs, Embed!Refuse(j)
  PROVE  BuilderInv'
<1>1. /\ Embed!At(j, "apply") /\ builderJobs' = [builderJobs EXCEPT ![j] = Idle]
      /\ UNCHANGED <<builderSessions, content, shown, mu, modals, over, stale, editedMessage, template>>
  BY DEF Embed!Refuse, Embed!Ends, Embed!store, Embed!discord, Embed!ghosts
<1>2. builderJobs[j].step = "apply" /\ \A b \in Builders : ~Replaces(j, b)
  BY <1>1 DEF Embed!At, Replaces
<1>3. editedMessage' \in EmbedOf /\ template' \in EmbedOf \cup {Nothing}
  BY <1>1 DEF BuilderInv, BuilderTypes
<1> QED BY <1>1, <1>2, <1>3, BuilderGoes

\* A handler is done, and gives the mutex back: the view is another only where it says.
LEMMA BuilderEnds ==
  ASSUME BuilderInv, BuildersAssumed, NEW j \in Jobs,
         builderJobs' = [builderJobs EXCEPT ![j] = Idle], mu' = Embed!Unlocked(j),
         UNCHANGED <<builderSessions, content, modals, editedMessage, template>>,
         shown' \in [Builders -> EmbedOf \cup {Nothing, Cancelled}],
         SessionsSound', over \subseteq over',
         \A b \in Builders :
           \/ b \in stale' \/ shown'[b] \in {Nothing, Cancelled, Embed!Viewed(content'[b])}
           \/ b \notin stale /\ shown'[b] = shown[b] /\ ~Replaces(j, b)
  PROVE  BuilderInv'
<1>1. /\ content' \in [Builders -> EmbedOf \cup {Nothing}]
      /\ editedMessage' \in EmbedOf /\ template' \in EmbedOf \cup {Nothing}
      /\ modals' \subseteq [builder : Builders, kind : Embed!Buttons \cup {""}]
      /\ \A c \in Builders : Launched(c) => Launched(c)' /\ (c \notin builderSessions => c \notin builderSessions')
  BY DEF BuilderInv, BuilderTypes, Launched
<1>2. /\ mu' \in [Builders -> Jobs \cup {Idle}]
      /\ \A c \in Builders : /\ mu[c] \notin {Idle, j} => mu'[c] = mu[c] /\ content'[c] = content[c]
                             /\ mu'[c] \in {mu[c], j, Idle}
                             /\ mu'[c] = j => Holds(j, c)'
  BY BuilderUnlocks
<1>3. \A b \in Builders :
        \/ b \in stale' \/ shown'[b] \in {Nothing, Cancelled, Embed!Viewed(content'[b])} \/ Replaces(j, b)'
        \/ /\ b \notin stale /\ shown'[b] = shown[b] /\ content'[b] = content[b]
           /\ Replaces(j, b) => Replaces(j, b)'
  OBVIOUS
<1> QED BY <1>1, <1>2, <1>3, BuilderSteps

LEMMA AnswerKeeps ==
  ASSUME BuilderInv, BuildersAssumed, NEW j \in Jobs, Embed!Answer(j)
  PROVE  BuilderInv'
<1> DEFINE b == builderJobs[j].builder
           seen == builderJobs[j].seen
<1>1. /\ Embed!At(j, "answer") /\ builderJobs' = [builderJobs EXCEPT ![j] = Idle]
      /\ mu' = Embed!Unlocked(j)
      /\ UNCHANGED <<builderSessions, content, modals, editedMessage, template>>
  BY DEF Embed!Answer, Embed!Ends
<1>2. /\ Works(j) /\ builderJobs[j] \in BuilderJob /\ builderJobs[j].step = "answer" /\ Sound(j)
      /\ Launched(b) /\ b \in Builders
  BY <1>1, BuilderAt DEF Launched
<1>3. seen \in EmbedOf \cup {Nothing, Cancelled} /\ (seen = Cancelled => b \notin builderSessions)
      /\ (builderJobs[j].modal => seen = Embed!Viewed(content[b]))
  BY <1>2 DEF BuilderJob, Sound
<1>4. mu[b] = j => seen = Embed!Viewed(content[b])
  BY <1>2, <1>3 DEF BuilderInv, Holds
<1>5. \A c \in Builders : c # b => ~Replaces(j, c)
  BY DEF Replaces
<1>6. CASE /\ shown' = [shown EXCEPT ![b] = seen]
           /\ over' = IF seen = Cancelled THEN over \cup {b} ELSE over
           /\ stale' = IF mu[b] # j /\ seen # Cancelled /\ seen # Embed!Viewed(content[b]) /\ ~builderJobs[j].modal
                       THEN stale \cup {b} ELSE stale \ {b}
  <2>1. shown' \in [Builders -> EmbedOf \cup {Nothing, Cancelled}]
    BY <1>2, <1>3, <1>6 DEF BuilderInv, BuilderTypes
  <2>2. over \subseteq over' /\ over' \subseteq Builders /\ over' \cap builderSessions = {}
        /\ \A c \in over' : c \in over \/ c = b
    BY <1>2, <1>3, <1>6 DEF BuilderInv, SessionsSound
  <2>3. \A c \in Builders : c # b => shown'[c] = shown[c] /\ (c \in stale' <=> c \in stale)
    BY <1>6 DEF BuilderInv, BuilderTypes
  <2>4. b \in stale' \/ shown'[b] \in {Nothing, Cancelled, Embed!Viewed(content[b])}
    BY <1>2, <1>3, <1>4, <1>6 DEF BuilderInv, BuilderTypes
  <2>5. SessionsSound'
    BY <1>1, <1>2, <2>2, <2>3 DEF BuilderInv, SessionsSound, Launched
  <2>6. \A c \in Builders :
          \/ c \in stale' \/ shown'[c] \in {Nothing, Cancelled, Embed!Viewed(content'[c])}
          \/ c \notin stale /\ shown'[c] = shown[c] /\ ~Replaces(j, c)
    BY <1>1, <1>5, <2>3, <2>4
  <2> QED BY <1>1, <2>1, <2>2, <2>5, <2>6, BuilderEnds
<1>7. CASE stale' = stale \cup {b} /\ UNCHANGED <<shown, over>>
  <2>1. shown' \in [Builders -> EmbedOf \cup {Nothing, Cancelled}] /\ over \subseteq over'
    BY <1>7 DEF BuilderInv, BuilderTypes
  <2>2. SessionsSound'
    BY <1>1, <1>7 DEF BuilderInv, SessionsSound, Launched
  <2>3. \A c \in Builders :
          \/ c \in stale' \/ shown'[c] \in {Nothing, Cancelled, Embed!Viewed(content'[c])}
          \/ c \notin stale /\ shown'[c] = shown[c] /\ ~Replaces(j, c)
    BY <1>5, <1>7
  <2> QED BY <1>1, <2>1, <2>2, <2>3, BuilderEnds
<1> QED BY <1>6, <1>7 DEF Embed!Answer

\* A handler that has a mutex, or that is about to, moves on with it.
LEMMA SendEmbedKeeps ==
  ASSUME BuilderInv, BuildersAssumed, NEW j \in Jobs, Embed!Send(j)
  PROVE  BuilderInv'
<1> DEFINE b == builderJobs[j].builder
<1>1. /\ Embed!At(j, "send") /\ mu[b] = Idle
      /\ UNCHANGED <<builderSessions, content, shown, modals, over, stale, editedMessage, template>>
  BY DEF Embed!Send, Embed!Frees, Embed!discord, Embed!ghosts
<1>2. /\ Works(j) /\ builderJobs[j] \in BuilderJob /\ builderJobs[j].step = "send" /\ Sound(j)
      /\ Launched(b) /\ b \in Builders
  BY <1>1, BuilderAt DEF Launched
<1>3. /\ editedMessage' \in EmbedOf /\ template' \in EmbedOf \cup {Nothing}
      /\ \A c \in Builders : mu[c] # j /\ ~Replaces(j, c)
  BY <1>1, <1>2 DEF BuilderInv, BuilderTypes, Holds, Replaces
<1>4. CASE builderJobs' = [builderJobs EXCEPT ![j] = Idle] /\ UNCHANGED mu
  BY <1>1, <1>2, <1>3, <1>4, BuilderGoes
<1>5. CASE /\ mu' = [mu EXCEPT ![b] = j]
           /\ builderJobs' = [builderJobs EXCEPT ![j].step = "post", ![j].seen = content[b]]
  <2> DEFINE r == [builderJobs[j] EXCEPT !.step = "post", !.seen = content[b]]
  <2>1. builderJobs' = [builderJobs EXCEPT ![j] = r] /\ content[b] \in EmbedOf
    BY <1>2, <1>5 DEF BuilderInv, BuilderTypes, Launched
  <2>2. /\ r \in BuilderJob /\ r.step = "post" /\ r.builder = b /\ r.late = builderJobs[j].late
        /\ r.modal = builderJobs[j].modal /\ r.seen \in EmbedOf
    BY <1>2, <2>1 DEF BuilderJob
  <2> HIDE DEF r
  <2>3. builderJobs'[j] = r /\ r # Idle
    BY <2>1, <2>2, BuilderMoves DEF BuilderInv, BuildersAssumed
  <2>4. Sound(j)'
    BY <1>1, <1>2, <2>2, <2>3 DEF Sound, Launched
  <2>5. \A c \in Builders : c = b => Holds(j, c)'
    BY <1>2, <2>2, <2>3 DEF Holds, Works, Sound
  <2>6. /\ mu' \in [Builders -> Jobs \cup {Idle}] /\ mu'[b] = j
        /\ \A c \in Builders \ {b} : mu'[c] = mu[c]
    BY <1>2, <1>5 DEF BuilderInv, BuilderTypes
  <2>7. \A c \in Builders : /\ mu[c] \notin {Idle, j} => mu'[c] = mu[c] /\ content'[c] = content[c]
                            /\ mu'[c] \in {mu[c], j, Idle}
                            /\ mu'[c] = j => Holds(j, c)'
    BY <1>1, <1>3, <2>5, <2>6
  <2>8. SessionsSound'
    BY <1>1 DEF BuilderInv, SessionsSound, Launched
  <2>9. /\ content' \in [Builders -> EmbedOf \cup {Nothing}]
        /\ shown' \in [Builders -> EmbedOf \cup {Nothing, Cancelled}]
        /\ modals' \subseteq [builder : Builders, kind : Embed!Buttons \cup {""}]
        /\ over \subseteq over'
        /\ \A c \in Builders : Launched(c) => Launched(c)' /\ (c \notin builderSessions => c \notin builderSessions')
    BY <1>1 DEF BuilderInv, BuilderTypes, Launched
  <2>10. \A c \in Builders :
           \/ c \in stale' \/ shown'[c] \in {Nothing, Cancelled, Embed!Viewed(content'[c])} \/ Replaces(j, c)'
           \/ /\ c \notin stale /\ shown'[c] = shown[c] /\ content'[c] = content[c]
              /\ Replaces(j, c) => Replaces(j, c)'
    <3> TAKE c \in Builders
    <3>1. ~Replaces(j, c) /\ shown'[c] = shown[c] /\ content'[c] = content[c] /\ stale' = stale
      BY <1>1, <1>3
    <3> QED BY <3>1
  <2> QED BY <1>3, <2>1, <2>2, <2>4, <2>6, <2>7, <2>8, <2>9, <2>10, BuilderSteps
<1> QED BY <1>4, <1>5 DEF Embed!Send, Embed!Ends

LEMMA PostKeeps ==
  ASSUME BuilderInv, BuildersAssumed, NEW j \in Jobs, Embed!Post(j) \/ Embed!Forget(j)
  PROVE  BuilderInv'
<1> DEFINE b == builderJobs[j].builder
           step == IF builderJobs[j].step = "post" THEN "forget" ELSE "tell"
           r == [builderJobs[j] EXCEPT !.step = step]
<1>1. /\ builderJobs[j] # Idle /\ builderJobs[j].step \in {"post", "forget"}
      /\ UNCHANGED <<content, shown, modals, over, stale, template>>
  BY DEF Embed!Post, Embed!Forget, Embed!At, Embed!discord, Embed!ghosts
<1>2. /\ Works(j) /\ builderJobs[j] \in BuilderJob /\ Sound(j) /\ Launched(b) /\ b \in Builders
  BY <1>1, BuilderAt DEF Embed!At, Launched
<1>3. /\ editedMessage' \in EmbedOf /\ template' \in EmbedOf \cup {Nothing}
      /\ modals' \subseteq [builder : Builders, kind : Embed!Buttons \cup {""}]
      /\ over \subseteq over' /\ \A c \in Builders : ~Replaces(j, c)
      /\ shown' \in [Builders -> EmbedOf \cup {Nothing, Cancelled}]
  BY <1>1, <1>2 DEF Embed!Post, Embed!Forget, Embed!discord, Embed!At, Sound, BuilderInv, BuilderTypes, Replaces
<1>4. CASE /\ builderJobs' = [builderJobs EXCEPT ![j] = r] /\ UNCHANGED mu
           /\ builderSessions' = IF step = "tell" THEN builderSessions \ {b} ELSE builderSessions
  <2>1. step \in {"forget", "tell"}
    OBVIOUS
  <2> HIDE DEF step
  <2>2. /\ r \in BuilderJob /\ r.step = step /\ r.builder = b /\ r.late = builderJobs[j].late
        /\ r.modal = builderJobs[j].modal
    BY <1>2, <2>1 DEF BuilderJob
  <2> HIDE DEF r
  <2>3. builderJobs'[j] = r /\ r # Idle
    BY <1>4, <2>2, BuilderMoves DEF BuilderInv, BuildersAssumed
  <2>4. Sound(j)'
    BY <1>1, <1>2, <1>4, <2>1, <2>2, <2>3 DEF Sound, Launched
  <2>5. SessionsSound' /\ builderSessions' \subseteq builderSessions
    BY <1>1, <1>4 DEF BuilderInv, SessionsSound, Launched
  <2>6. \A c \in Builders : mu[c] = j => Holds(j, c)'
    BY <1>1, <2>1, <2>2, <2>3 DEF BuilderInv, Holds, Works
  <2> QED BY <1>1, <1>3, <1>4, <2>2, <2>4, <2>5, <2>6, BuilderTurns
<1>5. CASE /\ builderJobs' = [builderJobs EXCEPT ![j] = Idle] /\ mu' = Embed!Unlocked(j)
           /\ UNCHANGED <<editedMessage, builderSessions>>
  <2>1. SessionsSound'
    BY <1>1, <1>5 DEF BuilderInv, SessionsSound, Launched
  <2>2. \A c \in Builders :
          \/ c \in stale' \/ shown'[c] \in {Nothing, Cancelled, Embed!Viewed(content'[c])}
          \/ c \notin stale /\ shown'[c] = shown[c] /\ ~Replaces(j, c)
    BY <1>1, <1>3
  <2> QED BY <1>1, <1>3, <1>5, <2>1, <2>2, BuilderEnds
<1> QED BY <1>1, <1>4, <1>5 DEF Embed!Post, Embed!Forget, Embed!Goes, Embed!Ends, Embed!At

LEMMA TellKeeps ==
  ASSUME BuilderInv, BuildersAssumed, NEW j \in Jobs, Embed!Tell(j)
  PROVE  BuilderInv'
<1> DEFINE b == builderJobs[j].builder
<1>1. /\ Embed!At(j, "tell") /\ builderJobs' = [builderJobs EXCEPT ![j] = Idle]
      /\ mu' = Embed!Unlocked(j) /\ over' \in {over, over \cup {b}}
      /\ UNCHANGED <<builderSessions, content, shown, modals, stale, editedMessage, template>>
  BY DEF Embed!Tell, Embed!Ends, Embed!discord
<1>2. /\ Works(j) /\ builderJobs[j].step = "tell" /\ Sound(j) /\ Launched(b) /\ b \in Builders
  BY <1>1, BuilderAt DEF Launched
<1>3. b \notin builderSessions /\ \A c \in Builders : ~Replaces(j, c)
  BY <1>2 DEF Sound, Replaces
<1>4. SessionsSound' /\ over \subseteq over'
  BY <1>1, <1>2, <1>3 DEF BuilderInv, SessionsSound, Launched
<1>5. shown' \in [Builders -> EmbedOf \cup {Nothing, Cancelled}]
  BY <1>1 DEF BuilderInv, BuilderTypes
<1>6. \A c \in Builders :
        \/ c \in stale' \/ shown'[c] \in {Nothing, Cancelled, Embed!Viewed(content'[c])}
        \/ c \notin stale /\ shown'[c] = shown[c] /\ ~Replaces(j, c)
  BY <1>1, <1>3
<1> QED BY <1>1, <1>4, <1>5, <1>6, BuilderEnds

LEMMA SweepBuilderKeeps ==
  ASSUME BuilderInv, NEW b \in Builders, Embed!Sweep(b)
  PROVE  BuilderInv'
<1>1. /\ builderSessions' = builderSessions \ {b}
      /\ UNCHANGED <<content, shown, mu, modals, over, stale, editedMessage, template, builderJobs>>
  BY DEF Embed!Sweep, Embed!discord, Embed!ghosts
<1>2. BuilderTypes' /\ SessionsSound'
  BY <1>1 DEF BuilderInv, BuilderTypes, SessionsSound, Launched
<1>3. \A j \in Jobs : Sound(j)'
  BY <1>1 DEF BuilderInv, Sound, Works, Launched
<1>4. \A c \in Builders, j \in Jobs : mu'[c] = j => Holds(j, c)'
  BY <1>1 DEF BuilderInv, Holds, Works
<1>5. Replaced'
  BY <1>1 DEF BuilderInv, Replaced, Replaces, Works
<1> QED BY <1>2, <1>3, <1>4, <1>5 DEF BuilderInv

LEMMA BuilderRests ==
  ASSUME BuilderInv, UNCHANGED Embed!vars
  PROVE  BuilderInv'
<1>1. /\ UNCHANGED <<builderSessions, content, shown, mu, modals, over, stale, editedMessage>>
      /\ UNCHANGED <<template, builderJobs>>
  BY DEF Embed!vars, Embed!store, Embed!discord, Embed!bounds, Embed!ghosts
<1>2. BuilderTypes' /\ SessionsSound'
  BY <1>1 DEF BuilderInv, BuilderTypes, SessionsSound, Launched
<1>3. \A j \in Jobs : Sound(j)'
  BY <1>1 DEF BuilderInv, Sound, Works, Launched
<1>4. \A b \in Builders, j \in Jobs : mu'[b] = j => Holds(j, b)'
  BY <1>1 DEF BuilderInv, Holds, Works
<1>5. Replaced'
  BY <1>1 DEF BuilderInv, Replaced, Replaces, Works
<1> QED BY <1>2, <1>3, <1>4, <1>5 DEF BuilderInv

LEMMA BuilderKeeps ==
  ASSUME BuilderInv, BuildersAssumed, [Embed!Next]_(Embed!vars)
  PROVE  BuilderInv'
<1>1. ASSUME NEW j \in Jobs, Embed!Buttoned(j) PROVE BuilderInv'
  BY <1>1, ClickKeeps, AuthenticateKeeps, ReadPartKeeps, OpenModalKeeps, ClearKeeps, CancelKeeps, AnswerKeeps
     DEF Embed!Buttoned
<1>2. ASSUME NEW j \in Jobs, Embed!Modal(j) PROVE BuilderInv'
  BY <1>2, SubmitKeeps, ApplyKeeps, RefuseKeeps, SendEmbedKeeps, PostKeeps, TellKeeps DEF Embed!Modal
<1> QED BY <1>1, <1>2, CommandsKeep, SweepBuilderKeeps, BuilderRests DEF Embed!Next

LEMMA BuilderInit ==
  ASSUME Embed!Init, BuildersAssumed
  PROVE  BuilderInv
<1>1. /\ builderSessions = {} /\ content = [b \in Builders |-> Nothing] /\ mu = [b \in Builders |-> Idle]
      /\ modals = {} /\ shown = [b \in Builders |-> Nothing] /\ editedMessage = Embed!Default
      /\ template = Nothing /\ builderJobs = [j \in Jobs |-> Idle] /\ over = {}
  BY DEF Embed!Init
<1>2. BuilderTypes
  BY <1>1, PartsOfEmbeds DEF BuilderTypes
<1>3. SessionsSound /\ \A j \in Jobs : ~Works(j)
  BY <1>1 DEF SessionsSound, Works
<1>4. \A b \in Builders, j \in Jobs : mu[b] # j
  BY <1>1 DEF BuildersAssumed
<1>5. Replaced
  BY <1>1 DEF Replaced
<1> QED BY <1>2, <1>3, <1>4, <1>5 DEF BuilderInv, Sound

LEMMA BuilderFollows ==
  ASSUME BuilderInv, BuildersAssumed
  PROVE  Embed!OverIsOver /\ Embed!ShownIsCurrent
<1>1. Embed!OverIsOver
  BY DEF BuilderInv, Sound, Works, Embed!OverIsOver
<1>2. ASSUME NEW b \in Builders \ stale, shown[b] \notin {Nothing, Cancelled},
             \A j \in Jobs : builderJobs[j] # Idle => builderJobs[j].builder # b
      PROVE  shown[b] = Embed!Viewed(content[b])
  <2>1. \A j \in Jobs : ~Replaces(j, b)
    BY <1>2 DEF Replaces, Works
  <2> QED BY <1>2, <2>1 DEF BuilderInv, Replaced
<1>3. Embed!ShownIsCurrent
  BY <1>2 DEF Embed!ShownIsCurrent
<1> QED BY <1>1, <1>3

DialogsWhenRun == /\ focus = "embed builder" => BuilderInv
                  /\ focus = "pagination" => PageInv

\* An author who was told that a builder is over changes and sends nothing with it any more,
\* its message shows the embed that would be sent, without its custom buttons, unless the last
\* answer failed or was given after the mutex, and the buttons of a paginated message do not
\* outlive their timer, for any goroutines, sessions and pages: the handlers of
\* listeners/embed_builder.go and of pagination/pagination.go.
THEOREM DialogsFollowAlways ==
  ASSUME PagesAssumed, BuildersAssumed
  PROVE  MessagesSpec => []DialogsFollow
<1>1. ASSUME MessagesInit PROVE DialogsWhenRun
  BY <1>1, InitOfOne, BuilderInit, PageInit DEF DialogsWhenRun
<1>2. ASSUME DialogsWhenRun, [MessagesNext]_<<focus, From1, mcvars>> PROVE DialogsWhenRun'
  <2>1. CASE focus = "embed builder"
    BY <1>2, <2>1, StepOfOne, BuilderKeeps DEF DialogsWhenRun
  <2>2. CASE focus = "pagination"
    BY <1>2, <2>2, StepOfOne, PageKeeps DEF DialogsWhenRun
  <2>3. CASE focus \notin {"embed builder", "pagination"}
    BY <1>2, <2>3, StepOfOne DEF DialogsWhenRun
  <2> QED BY <2>1, <2>2, <2>3
<1>3. ASSUME DialogsWhenRun PROVE DialogsFollow
  BY <1>3, BuilderFollows, PageFollows DEF DialogsWhenRun, DialogsFollow
<1> QED BY <1>1, <1>2, <1>3, PTL DEF MessagesSpec

-----------------------------------------------------------------------------
(***************************************************************************)
(* Requests.  Who shows a prompt finishes it: until the handler and the    *)
(* timer are known to the prompt, the job that knows them is still there.  *)
(* A confirmed prompt is on its way to the queue at most once.  A ballot   *)
(* that is looked up stays its track's, since ballots are numbered anew.   *)
(***************************************************************************)

\* The variables by name.
askJob == s6
flight == s7
prompts == s8
voteKey == s10
votes == s11
ballots == s12
USE DEF askJob, flight, prompts, voteKey, votes, ballots

\* The jobs that have a prompt to finish, those that have none yet, and the others.
Owners == {"promptHandler", "promptTimer", "promptSetTimer"}
Early == {"free", "connect", "resolve", "fetching", "joined", "closing", "search", "menu", "check", "prompt"}
Late == {"menuHandler", "enqueue", "confirm", "cancel", "ballot", "count", "skip", "vote", "control"}
Searching == {"resolve", "fetching", "joined", "closing"}
Joining == {"join", "play", "playnext", "post", "playfile", "session", "find"}

JobFields == {"at", "cmd", "by", "tracks", "ref", "saw", "heard"}
PromptFields == {"by", "cmd", "tracks", "settled", "handler", "removable", "timer", "stoppable", "queued"}

IsList(s) == Len(s) \in Nat /\ s = [i \in 1..Len(s) |-> s[i]]

JobIs(r) ==
  /\ DOMAIN r = JobFields /\ r.at \in Early \cup Owners \cup Late
  /\ r.at \in Early => r.ref = 0
  /\ r.at = "connect" => r.cmd \in Joining
  /\ r.at \in Searching \/ (r.at = "connect" /\ r.cmd \in {"play", "playnext", "post"})
       => r.tracks[1] \in Songs

PromptIs(q) ==
  /\ DOMAIN q = PromptFields
  /\ q.settled \in {"no", "cancelled", "confirmed", "expired"}
  /\ q.timer \in {"none", "armed", "fired", "over"}
  /\ q.handler \in BOOLEAN /\ q.removable \in BOOLEAN /\ q.stoppable \in BOOLEAN
  /\ q.queued \in {0, 1} /\ (q.queued = 1 => q.settled = "confirmed")

RequestTypes ==
  /\ DOMAIN askJob = Jobs /\ \A j \in Jobs : JobIs(askJob[j])
  /\ IsList(prompts) /\ \A p \in DOMAIN prompts : PromptIs(prompts[p])
  /\ flight \in [Songs -> [by : Jobs \cup {None}, answer : {"none", "found", "failed"}]]
  /\ IsList(ballots) /\ votes \in 0..Len(ballots)

About(j, p, steps) == askJob[j].at \in steps /\ askJob[j].ref = p

\* The prompt q is finished, or one of these jobs does it.
FinishedBy(q, jobs, p) ==
  /\ \/ q.removable /\ q.settled = "no"
     \/ ~q.handler /\ q.settled # "no"
     \/ \E k \in Jobs : jobs[k].at = "promptHandler" /\ jobs[k].ref = p
  /\ \/ q.stoppable /\ q.settled = "no"
     \/ q.timer # "armed" /\ q.settled # "no"
     \/ \E k \in Jobs : jobs[k].at \in Owners /\ jobs[k].ref = p

Finishes(p) == FinishedBy(prompts[p], askJob, p)

OnItsWay(j) ==
  /\ askJob[j].at \in Owners \cup {"confirm", "cancel"} => askJob[j].ref \in DOMAIN prompts
  /\ askJob[j].at = "enqueue" /\ askJob[j].ref # 0 =>
       /\ askJob[j].ref \in DOMAIN prompts
       /\ prompts[askJob[j].ref].settled = "confirmed" /\ prompts[askJob[j].ref].queued = 0
       /\ \A k \in Jobs : About(k, askJob[j].ref, {"enqueue"}) => k = j

PromptsSound == (\A p \in DOMAIN prompts : Finishes(p)) /\ \A j \in Jobs : OnItsWay(j)

\* Who voted and who is about to vote in a ballot saw the same track.
Counting(j) == askJob[j].at \in {"count", "vote"} /\ askJob[j].ref # 0

AboutOneTrack ==
  /\ \A b \in DOMAIN ballots : \A v, w \in ballots[b] : v.key = w.key
  /\ \A j \in Jobs : Counting(j) => \A v \in ballots[askJob[j].ref] : v.key = askJob[j].saw.id
  /\ \A j, k \in Jobs :
       Counting(j) /\ Counting(k) /\ askJob[j].ref = askJob[k].ref => askJob[j].saw.id = askJob[k].saw.id

BallotsSound ==
  /\ AboutOneTrack
  /\ votes # 0 => \A v \in ballots[votes] : v.key = voteKey
  /\ \A j \in Jobs : askJob[j].at \in {"count", "vote"} =>
       /\ askJob[j].ref \in 0..Len(ballots)
       /\ askJob[j].ref # 0 /\ askJob[j].ref = votes => askJob[j].saw.id = voteKey

FlightsSound ==
  /\ \A t \in Songs : flight[t].by # None =>
       /\ askJob[flight[t].by].at \in {"fetching", "closing"}
       /\ askJob[flight[t].by].tracks[1] = t
  /\ \A j \in Jobs : askJob[j].at \in {"fetching", "closing"} => flight[askJob[j].tracks[1]].by = j

RequestInv == RequestTypes /\ PromptsSound /\ BallotsSound /\ FlightsSound

RequestsAssumed == None \notin Jobs

LEMMA FreeIs == JobIs(Ask!Free) /\ Ask!Free.at = "free" /\ Ask!Free.ref = 0
BY DEF JobIs, JobFields, Early, Owners, Late, Searching, Ask!Free

LEMMA AskMoves ==
  ASSUME RequestTypes, NEW j \in Jobs, NEW r, JobIs(r), askJob' = [askJob EXCEPT ![j] = r]
  PROVE  /\ DOMAIN askJob' = Jobs /\ \A k \in Jobs : JobIs(askJob'[k])
         /\ askJob'[j] = r /\ \A k \in Jobs \ {j} : askJob'[k] = askJob[k]
<1>1. DOMAIN askJob = Jobs /\ \A k \in Jobs : JobIs(askJob[k])
  BY DEF RequestTypes
<1>2. DOMAIN askJob' = Jobs /\ askJob'[j] = r /\ \A k \in Jobs \ {j} : askJob'[k] = askJob[k]
  BY <1>1
<1>3. \A k \in Jobs : JobIs(askJob'[k])
  <2>1. ASSUME NEW k \in Jobs PROVE JobIs(askJob'[k])
    <3>1. CASE k = j
      BY <1>2, <3>1
    <3>2. CASE k # j
      BY <1>1, <1>2, <3>2
    <3> QED BY <3>1, <3>2
  <2> QED BY <2>1
<1> QED BY <1>2, <1>3

LEMMA GotoIs ==
  ASSUME NEW r, NEW at, JobIs(r)
  PROVE  LET n == [r EXCEPT !.at = at] IN
         /\ DOMAIN n = JobFields /\ n.at = at /\ n.cmd = r.cmd /\ n.by = r.by
         /\ n.tracks = r.tracks /\ n.ref = r.ref /\ n.saw = r.saw
BY DEF JobIs, JobFields

\* What each part needs of the jobs and of what is not touched.
LEMMA PromptsFrame ==
  ASSUME PromptsSound, UNCHANGED prompts,
         \A k \in Jobs :
           \/ askJob'[k] = askJob[k]
           \/ /\ askJob[k].at \notin Owners /\ askJob'[k].at \notin Owners
              /\ askJob'[k].at = "enqueue" => askJob'[k].ref = 0
              /\ askJob'[k].at \in {"confirm", "cancel"} => askJob'[k].ref \in DOMAIN prompts
  PROVE  PromptsSound'
<1>1. \A k \in Jobs : askJob[k].at \in Owners => askJob'[k] = askJob[k]
  OBVIOUS
<1>2. \A p \in DOMAIN prompts : Finishes(p)'
  BY <1>1 DEF PromptsSound, Finishes, FinishedBy, Owners
<1>3. \A p : \A k \in Jobs : About(k, p, {"enqueue"})' => p = 0 \/ About(k, p, {"enqueue"})
  BY DEF About, Owners
<1>4. ASSUME NEW j \in Jobs PROVE OnItsWay(j)'
  <2>1. CASE askJob'[j] = askJob[j]
    <3>1. OnItsWay(j)
      BY DEF PromptsSound
    <3>2. \A p : p = askJob[j].ref /\ p # 0 /\ askJob[j].at = "enqueue" =>
            \A k \in Jobs : About(k, p, {"enqueue"})' => k = j
      BY <1>3, <3>1 DEF OnItsWay
    <3> QED BY <2>1, <3>1, <3>2 DEF OnItsWay
  <2>2. CASE askJob'[j] # askJob[j]
    BY <2>2 DEF OnItsWay
  <2> QED BY <2>1, <2>2
<1> QED BY <1>2, <1>4 DEF PromptsSound

LEMMA BallotsFrame ==
  ASSUME BallotsSound, UNCHANGED <<voteKey, votes, ballots>>,
         \A k \in Jobs :
           \/ askJob'[k] = askJob[k]
           \/ askJob'[k].at \notin {"count", "vote"}
           \/ askJob[k].at = "count" /\ askJob'[k].ref = askJob[k].ref /\ askJob'[k].saw = askJob[k].saw
  PROVE  BallotsSound'
<1>1. \A k \in Jobs : Counting(k)' => Counting(k) /\ askJob'[k].ref = askJob[k].ref /\ askJob'[k].saw = askJob[k].saw
  BY DEF Counting
<1>2. AboutOneTrack'
  BY <1>1 DEF BallotsSound, AboutOneTrack
<1> QED BY <1>2 DEF BallotsSound

LEMMA FlightsFrame ==
  ASSUME RequestsAssumed, flight \in [Songs -> [by : Jobs \cup {None}, answer : {"none", "found", "failed"}]],
         FlightsSound, \A t \in Songs : flight'[t].by = flight[t].by,
         \A k \in Jobs : askJob[k].at \in {"fetching", "closing"} => askJob[k].tracks[1] \in Songs,
         \A k \in Jobs :
           \/ askJob'[k] = askJob[k]
           \/ askJob[k].at \notin {"fetching", "closing"} /\ askJob'[k].at \notin {"fetching", "closing"}
           \/ /\ askJob[k].at \in {"fetching", "closing"} /\ askJob'[k].at \in {"fetching", "closing"}
              /\ askJob'[k].tracks = askJob[k].tracks
  PROVE  FlightsSound'
<1>1. ASSUME NEW t \in Songs, flight'[t].by # None
      PROVE  askJob'[flight'[t].by].at \in {"fetching", "closing"} /\ askJob'[flight'[t].by].tracks[1] = t
  <2>1. flight[t].by \in Jobs /\ flight'[t].by = flight[t].by
    BY <1>1
  <2>2. askJob[flight[t].by].at \in {"fetching", "closing"} /\ askJob[flight[t].by].tracks[1] = t
    BY <1>1, <2>1 DEF FlightsSound
  <2> QED BY <2>1, <2>2
<1>2. ASSUME NEW k \in Jobs, askJob'[k].at \in {"fetching", "closing"}
      PROVE  flight'[askJob'[k].tracks[1]].by = k
  <2>1. askJob[k].at \in {"fetching", "closing"} /\ askJob'[k].tracks[1] = askJob[k].tracks[1]
    BY <1>2
  <2>2. askJob[k].tracks[1] \in Songs /\ flight[askJob[k].tracks[1]].by = k
    BY <2>1 DEF FlightsSound
  <2> QED BY <2>1, <2>2
<1> QED BY <1>1, <1>2 DEF FlightsSound

LEMMA FlyingHaveSongs ==
  ASSUME RequestTypes
  PROVE  \A k \in Jobs : askJob[k].at \in {"fetching", "closing"} => askJob[k].tracks[1] \in Songs
BY DEF RequestTypes, JobIs, Searching

\* A job that moves on among the steps that no part is about, or enters one soundly.
LEMMA PlainKeeps ==
  ASSUME RequestInv, RequestsAssumed, NEW j \in Jobs, NEW r, JobIs(r), askJob' = [askJob EXCEPT ![j] = r],
         UNCHANGED <<flight, prompts, voteKey, votes, ballots>>,
         askJob[j].at \notin Owners \cup {"fetching", "closing"},
         r.at \notin Owners \cup {"fetching", "closing"},
         r.at = "enqueue" => r.ref = 0,
         r.at \in {"confirm", "cancel"} => r.ref \in DOMAIN prompts,
         r.at \in {"count", "vote"} => askJob[j].at = "count" /\ r.ref = askJob[j].ref /\ r.saw = askJob[j].saw
  PROVE  RequestInv'
<1>1. /\ DOMAIN askJob' = Jobs /\ \A k \in Jobs : JobIs(askJob'[k])
      /\ askJob'[j] = r /\ \A k \in Jobs \ {j} : askJob'[k] = askJob[k]
  BY AskMoves DEF RequestInv
<1>2. RequestTypes'
  BY <1>1 DEF RequestInv, RequestTypes
<1>3. PromptsSound'
  <2>1. \A k \in Jobs :
           \/ askJob'[k] = askJob[k]
           \/ /\ askJob[k].at \notin Owners /\ askJob'[k].at \notin Owners
              /\ askJob'[k].at = "enqueue" => askJob'[k].ref = 0
              /\ askJob'[k].at \in {"confirm", "cancel"} => askJob'[k].ref \in DOMAIN prompts
    BY <1>1
  <2> QED BY <2>1, PromptsFrame DEF RequestInv
<1>4. BallotsSound'
  BY <1>1, BallotsFrame DEF RequestInv
<1>5. FlightsSound'
  <2>1. \A k \in Jobs :
           \/ askJob'[k] = askJob[k]
           \/ askJob[k].at \notin {"fetching", "closing"} /\ askJob'[k].at \notin {"fetching", "closing"}
    BY <1>1
  <2>2. flight \in [Songs -> [by : Jobs \cup {None}, answer : {"none", "found", "failed"}]]
        /\ \A t \in Songs : flight'[t].by = flight[t].by
    BY DEF RequestInv, RequestTypes
  <2> QED BY <2>1, <2>2, FlyingHaveSongs, FlightsFrame DEF RequestInv
<1> QED BY <1>2, <1>3, <1>4, <1>5 DEF RequestInv

LEMMA SameRequests ==
  ASSUME RequestInv, UNCHANGED <<askJob, flight, prompts, voteKey, votes, ballots>>
  PROVE  RequestInv'
BY DEF RequestInv, RequestTypes, PromptsSound, Finishes, FinishedBy, OnItsWay, About, BallotsSound,
       AboutOneTrack, Counting, FlightsSound

\* The steps of most jobs.
LEMMA LeavesKeeps ==
  ASSUME RequestInv, RequestsAssumed, NEW j \in Jobs, Ask!Leave(j),
         askJob[j].at \notin Owners \cup {"fetching", "closing"},
         UNCHANGED <<flight, prompts, voteKey, votes, ballots>>
  PROVE  RequestInv'
<1>1. askJob' = [askJob EXCEPT ![j] = Ask!Free] /\ JobIs(Ask!Free)
      /\ Ask!Free.at \notin Owners \cup {"fetching", "closing", "enqueue", "confirm", "cancel", "count", "vote"}
  BY FreeIs DEF Ask!Leave, Owners
<1> QED BY <1>1, PlainKeeps

LEMMA GoesKeeps ==
  ASSUME RequestInv, RequestsAssumed, NEW j \in Jobs, NEW at,
         askJob' = [askJob EXCEPT ![j] = [askJob[j] EXCEPT !.at = at]],
         askJob[j].at \notin Owners \cup {"fetching", "closing"},
         \/ at \in Early \ {"fetching", "closing"} /\ askJob[j].at \in Early
         \/ at = "enqueue" /\ askJob[j].at \in Early
         \/ at \in {"control", "skip"}
         \/ at = "vote" /\ askJob[j].at = "count",
         at # "connect",
         at \in Searching => askJob[j].at \in Searching
                             \/ (askJob[j].at = "connect" /\ askJob[j].cmd \in {"play", "playnext", "post"}),
         UNCHANGED <<flight, prompts, voteKey, votes, ballots>>
  PROVE  RequestInv'
<1> DEFINE r == [askJob[j] EXCEPT !.at = at]
<1>1. JobIs(askJob[j])
  BY DEF RequestInv, RequestTypes
<1>2. /\ DOMAIN r = JobFields /\ r.at = at /\ r.cmd = askJob[j].cmd
      /\ r.tracks = askJob[j].tracks /\ r.ref = askJob[j].ref /\ r.saw = askJob[j].saw
  BY <1>1, GotoIs
<1>3. askJob' = [askJob EXCEPT ![j] = r]
  OBVIOUS
<1> HIDE DEF r
<1>4. at \in Early => askJob[j].ref = 0
  BY <1>1 DEF JobIs, Early, Late, Owners
<1>5. JobIs(r)
  <2>1. r.at \in Early => r.ref = 0
    BY <1>2, <1>4
  <2>2. r.at \in Early \cup Owners \cup Late
    BY <1>2 DEF Early, Late
  <2>3. r.at \in Searching \/ (r.at = "connect" /\ r.cmd \in {"play", "playnext", "post"})
          => r.tracks[1] \in Songs
    BY <1>1, <1>2 DEF JobIs
  <2> QED BY <1>2, <2>1, <2>2, <2>3 DEF JobIs
<1>6. /\ r.at \notin Owners \cup {"fetching", "closing", "confirm", "cancel", "count"}
      /\ r.at = "enqueue" => r.ref = 0
      /\ r.at \in {"count", "vote"} => askJob[j].at = "count" /\ r.ref = askJob[j].ref /\ r.saw = askJob[j].saw
  BY <1>1, <1>2 DEF JobIs, Early, Late, Owners
<1> QED BY <1>3, <1>5, <1>6, PlainKeeps

LEMMA JobStands ==
  ASSUME RequestInv, NEW j \in Jobs
  PROVE  /\ JobIs(askJob[j])
         /\ askJob[j].at \in Early => askJob[j].ref = 0
         /\ askJob[j].at \in Searching => askJob[j].tracks[1] \in Songs
BY DEF RequestInv, RequestTypes, JobIs

\* What is asked for.
LEMMA AsksKeeps ==
  ASSUME RequestInv, RequestsAssumed, NEW j \in Jobs, NEW u, NEW cmd, NEW tracks,
         cmd \in Joining, cmd \in {"play", "playnext", "post"} => tracks[1] \in Songs,
         Ask!Asks(j, u, cmd, "connect", tracks)
  PROVE  RequestInv'
<1> DEFINE r == [Ask!Free EXCEPT !.at = "connect", !.cmd = cmd, !.by = u, !.tracks = tracks]
<1>1. /\ askJob[j].at = "free" /\ askJob' = [askJob EXCEPT ![j] = r]
      /\ UNCHANGED <<flight, prompts, voteKey, votes, ballots>>
  BY DEF Ask!Asks, Ask!dialogs, Ask!voting
<1>2. DOMAIN r = JobFields /\ r.at = "connect" /\ r.cmd = cmd /\ r.tracks = tracks /\ r.ref = 0
  BY DEF Ask!Free, JobFields
<1> HIDE DEF r
<1>3. JobIs(r)
  BY <1>2 DEF JobIs, Early, Searching, Joining
<1>4. askJob[j].at \notin Owners \cup {"fetching", "closing"}
      /\ r.at \notin Owners \cup {"fetching", "closing", "enqueue", "confirm", "cancel", "count", "vote"}
  BY <1>1, <1>2 DEF Owners
<1> QED BY <1>1, <1>3, <1>4, PlainKeeps

LEMMA OrdersKeeps ==
  ASSUME RequestInv, RequestsAssumed, NEW j \in Jobs, NEW u, NEW act, Ask!Orders(j, u, act)
  PROVE  RequestInv'
<1> DEFINE r == [Ask!Free EXCEPT !.at = "control", !.cmd = act, !.by = u]
<1>1. /\ askJob[j].at = "free" /\ askJob' = [askJob EXCEPT ![j] = r]
      /\ UNCHANGED <<flight, prompts, voteKey, votes, ballots>>
  BY DEF Ask!Orders, Ask!dialogs, Ask!voting
<1>2. DOMAIN r = JobFields /\ r.at = "control" /\ r.ref = 0
  BY DEF Ask!Free, JobFields
<1> HIDE DEF r
<1>3. JobIs(r)
  BY <1>2 DEF JobIs, Early, Late, Searching
<1>4. askJob[j].at \notin Owners \cup {"fetching", "closing"}
      /\ r.at \notin Owners \cup {"fetching", "closing", "enqueue", "confirm", "cancel", "count", "vote"}
  BY <1>1, <1>2 DEF Owners
<1> QED BY <1>1, <1>3, <1>4, PlainKeeps

LEMMA AskSkipKeeps ==
  ASSUME RequestInv, RequestsAssumed, NEW j \in Jobs, NEW u, Ask!AskSkip(j, u)
  PROVE  RequestInv'
<1> DEFINE r == [Ask!Free EXCEPT !.at = "ballot", !.cmd = "skip", !.by = u,
                                 !.saw = [id |-> s1.current.id, by |-> s1.current.by, ch |-> s3]]
<1>1. /\ askJob[j].at = "free" /\ askJob' = [askJob EXCEPT ![j] = r]
      /\ UNCHANGED <<flight, prompts, voteKey, votes, ballots>>
  BY DEF Ask!AskSkip, Ask!dialogs, Ask!voting
<1>2. DOMAIN r = JobFields /\ r.at = "ballot" /\ r.ref = 0
  BY DEF Ask!Free, JobFields
<1> HIDE DEF r
<1>3. JobIs(r)
  BY <1>2 DEF JobIs, Early, Late, Searching
<1>4. askJob[j].at \notin Owners \cup {"fetching", "closing"}
      /\ r.at \notin Owners \cup {"fetching", "closing", "enqueue", "confirm", "cancel", "count", "vote"}
  BY <1>1, <1>2 DEF Owners
<1> QED BY <1>1, <1>3, <1>4, PlainKeeps

LEMMA AskKeeps ==
  ASSUME RequestInv, RequestsAssumed, NEW j \in Jobs, NEW u, Ask!Ask(j, u)
  PROVE  RequestInv'
<1>1. \/ Ask!Asks(j, u, "join", "connect", << >>)
      \/ \E t \in Songs : \/ Ask!Asks(j, u, "play", "connect", <<t>>)
                          \/ Ask!Asks(j, u, "playnext", "connect", <<t>>)
                          \/ Ask!Asks(j, u, "session", "connect", <<t>>)
                          \/ Ask!Asks(j, u, "post", "connect", <<t>>)
      \/ \E tracks : Ask!Asks(j, u, "playfile", "connect", tracks)
      \/ Ask!Asks(j, u, "find", "connect", << >>)
      \/ Ask!AskSkip(j, u)
      \/ \E act : Ask!Orders(j, u, act)
  BY DEF Ask!Ask, Ask!Join, Ask!Play, Ask!PlayNext, Ask!PlayFile, Ask!PlaySession, Ask!Search, Ask!Post,
         Ask!AskPrevious, Ask!AskPause, Ask!AskResume, Ask!AskLoop, Ask!AskShuffle, Ask!AskClear,
         Ask!AskLeave, Ask!AskForceLeave
<1>2. \A t \in Songs : <<t>>[1] \in Songs
  OBVIOUS
<1>3. ASSUME NEW cmd \in Joining \ {"play", "playnext", "post"}, NEW tracks,
             Ask!Asks(j, u, cmd, "connect", tracks)
      PROVE  RequestInv'
  BY <1>3, AsksKeeps
<1>4. ASSUME NEW cmd \in Joining, NEW t \in Songs, Ask!Asks(j, u, cmd, "connect", <<t>>)
      PROVE  RequestInv'
  BY <1>2, <1>4, AsksKeeps
<1>5. {"join", "playfile", "find"} \subseteq Joining \ {"play", "playnext", "post"}
      /\ {"play", "playnext", "session", "post"} \subseteq Joining
  BY DEF Joining
<1> QED BY <1>1, <1>3, <1>4, <1>5, AskSkipKeeps, OrdersKeeps

\* Joining and finding.
LEMMA ConnectsKeeps ==
  ASSUME RequestInv, RequestsAssumed, NEW j \in Jobs, Ask!Connects(j)
  PROVE  RequestInv'
<1>1. askJob[j].at = "connect" /\ UNCHANGED <<flight, prompts, voteKey, votes, ballots>>
      /\ \/ Ask!Leave(j)
         \/ askJob[j].cmd # "join" /\ Ask!Goto(j, Ask!AfterConnect(askJob[j].cmd))
  BY DEF Ask!Connects, Ask!dialogs, Ask!voting
<1>2. askJob[j].at \notin Owners \cup {"fetching", "closing"} /\ askJob[j].at \in Early
  BY <1>1 DEF Owners, Early
<1>3. CASE Ask!Leave(j)
  BY <1>1, <1>2, <1>3, LeavesKeeps
<1>4. CASE Ask!Goto(j, Ask!AfterConnect(askJob[j].cmd)) /\ askJob[j].cmd # "join"
  <2> DEFINE at == Ask!AfterConnect(askJob[j].cmd)
  <2>1. askJob[j].cmd \in Joining
    BY <1>1, JobStands DEF JobIs
  <2>2. /\ askJob[j].cmd \in {"play", "playnext", "post"} => at = "resolve"
        /\ askJob[j].cmd = "playfile" => at = "check"
        /\ askJob[j].cmd \in {"session", "find"} => at = "search"
    BY DEF Ask!AfterConnect
  <2>3. askJob' = [askJob EXCEPT ![j] = [askJob[j] EXCEPT !.at = at]]
    BY <1>4 DEF Ask!Goto
  <2> HIDE DEF at
  <2>4. at \in Early \ {"fetching", "closing"} /\ at # "connect"
        /\ (at \in Searching => askJob[j].cmd \in {"play", "playnext", "post"})
    BY <1>4, <2>1, <2>2 DEF Joining, Early, Searching
  <2> QED BY <1>1, <1>2, <2>3, <2>4, GoesKeeps
<1> QED BY <1>1, <1>3, <1>4

LEMMA ResolveKeeps ==
  ASSUME RequestInv, RequestsAssumed, NEW j \in Jobs, Ask!Resolve(j)
  PROVE  RequestInv'
<1> DEFINE t == askJob[j].tracks[1]
<1>1. askJob[j].at = "resolve" /\ UNCHANGED <<prompts, voteKey, votes, ballots>>
      /\ \/ /\ flight[t].by = None /\ flight' = [flight EXCEPT ![t].by = j] /\ Ask!Goto(j, "fetching")
         \/ /\ UNCHANGED flight
            /\ \/ Ask!Goto(j, "joined")
               \/ askJob' = [askJob EXCEPT ![j] = Ask!Answered(@, flight[t].answer)]
  BY DEF Ask!Resolve, Ask!dialogs, Ask!voting
<1>2. t \in Songs /\ JobIs(askJob[j]) /\ askJob[j].ref = 0
  BY <1>1, JobStands DEF Searching, Early
<1>3. askJob[j].at \notin Owners \cup {"fetching", "closing"} /\ askJob[j].at \in Early /\ askJob[j].at \in Searching
  BY <1>1 DEF Owners, Early, Searching
<1>4. CASE UNCHANGED flight /\ Ask!Goto(j, "joined")
  <2>1. askJob' = [askJob EXCEPT ![j] = [askJob[j] EXCEPT !.at = "joined"]]
    BY <1>4 DEF Ask!Goto
  <2> QED BY <1>1, <1>3, <1>4, <2>1, GoesKeeps DEF Early
<1>5. CASE UNCHANGED flight /\ askJob' = [askJob EXCEPT ![j] = Ask!Answered(@, flight[t].answer)]
  <2>1. \/ Ask!Leave(j)
        \/ askJob' = [askJob EXCEPT ![j] = [askJob[j] EXCEPT !.at = "enqueue"]]
        \/ askJob' = [askJob EXCEPT ![j] = [askJob[j] EXCEPT !.at = "check"]]
    BY <1>5 DEF Ask!Answered, Ask!Leave
  <2> QED BY <1>1, <1>3, <1>5, <2>1, GoesKeeps, LeavesKeeps DEF Early, Searching
<1>6. CASE flight[t].by = None /\ flight' = [flight EXCEPT ![t].by = j] /\ Ask!Goto(j, "fetching")
  <2> DEFINE r == [askJob[j] EXCEPT !.at = "fetching"]
  <2>1. /\ r.at = "fetching" /\ r.tracks = askJob[j].tracks /\ r.ref = 0 /\ DOMAIN r = JobFields
    BY <1>2, GotoIs
  <2>2. askJob' = [askJob EXCEPT ![j] = r]
    BY <1>6 DEF Ask!Goto
  <2> HIDE DEF r
  <2>3. JobIs(r)
    BY <1>2, <2>1 DEF JobIs, Early, Searching
  <2>4. /\ DOMAIN askJob' = Jobs /\ \A k \in Jobs : JobIs(askJob'[k])
        /\ askJob'[j] = r /\ \A k \in Jobs \ {j} : askJob'[k] = askJob[k]
    BY <2>2, <2>3, AskMoves DEF RequestInv
  <2>5. flight \in [Songs -> [by : Jobs \cup {None}, answer : {"none", "found", "failed"}]]
    BY DEF RequestInv, RequestTypes
  <2>6. /\ flight' \in [Songs -> [by : Jobs \cup {None}, answer : {"none", "found", "failed"}]]
        /\ flight'[t].by = j /\ \A s \in Songs \ {t} : flight'[s] = flight[s]
    BY <1>2, <1>6, <2>5
  <2>7. RequestTypes'
    BY <1>1, <2>4, <2>6 DEF RequestInv, RequestTypes
  <2>8. PromptsSound'
    BY <1>1, <1>3, <2>1, <2>4, PromptsFrame DEF RequestInv, Owners
  <2>9. BallotsSound'
    BY <1>1, <2>1, <2>4, BallotsFrame DEF RequestInv
  <2>10. FlightsSound'
    <3>1. ASSUME NEW s \in Songs, flight'[s].by # None
          PROVE  askJob'[flight'[s].by].at \in {"fetching", "closing"} /\ askJob'[flight'[s].by].tracks[1] = s
      <4>1. CASE s = t
        BY <2>1, <2>4, <2>6, <4>1
      <4>2. CASE s # t
        <5>1. flight'[s].by = flight[s].by /\ flight[s].by \in Jobs
          BY <2>5, <2>6, <3>1, <4>2
        <5>2. askJob[flight[s].by].at \in {"fetching", "closing"} /\ askJob[flight[s].by].tracks[1] = s
          BY <3>1, <5>1 DEF RequestInv, FlightsSound
        <5>3. flight[s].by # j
          BY <1>1, <5>2
        <5> QED BY <2>4, <5>1, <5>2, <5>3
      <4> QED BY <4>1, <4>2
    <3>2. ASSUME NEW k \in Jobs, askJob'[k].at \in {"fetching", "closing"}
          PROVE  flight'[askJob'[k].tracks[1]].by = k
      <4>1. CASE k = j
        BY <2>1, <2>4, <2>6, <4>1
      <4>2. CASE k # j
        <5>1. askJob'[k] = askJob[k] /\ askJob[k].tracks[1] \in Songs
          BY <2>4, <3>2, <4>2, FlyingHaveSongs DEF RequestInv
        <5>2. flight[askJob[k].tracks[1]].by = k
          BY <3>2, <5>1 DEF RequestInv, FlightsSound
        <5>3. askJob[k].tracks[1] # t
          BY <1>6, <5>2 DEF RequestsAssumed
        <5> QED BY <2>6, <5>1, <5>2, <5>3
      <4> QED BY <4>1, <4>2
    <3> QED BY <3>1, <3>2 DEF FlightsSound
  <2> QED BY <2>7, <2>8, <2>9, <2>10 DEF RequestInv
<1> QED BY <1>1, <1>4, <1>5, <1>6

LEMMA FetchedKeeps ==
  ASSUME RequestInv, RequestsAssumed, NEW j \in Jobs, Ask!Fetched(j)
  PROVE  RequestInv'
<1> DEFINE t == askJob[j].tracks[1]
<1>1. PICK answer \in {"found", "failed"} :
        /\ flight' = [flight EXCEPT ![t].answer = answer]
        /\ askJob' = [k \in Jobs |->
             IF k = j THEN [askJob[j] EXCEPT !.at = "closing"]
             ELSE IF askJob[k].at = "joined" /\ askJob[k].tracks[1] = t THEN Ask!Answered(askJob[k], answer)
             ELSE askJob[k]]
  BY DEF Ask!Fetched
<1>2. askJob[j].at = "fetching" /\ UNCHANGED <<prompts, voteKey, votes, ballots>>
  BY DEF Ask!Fetched, Ask!dialogs, Ask!voting
<1>3. t \in Songs /\ flight \in [Songs -> [by : Jobs \cup {None}, answer : {"none", "found", "failed"}]]
  BY <1>2, JobStands DEF Searching, RequestInv, RequestTypes
<1>4. /\ flight' \in [Songs -> [by : Jobs \cup {None}, answer : {"none", "found", "failed"}]]
      /\ \A s \in Songs : flight'[s].by = flight[s].by
  BY <1>1, <1>3
<1>5. /\ DOMAIN askJob'[j] = JobFields /\ askJob'[j].at = "closing" /\ askJob'[j].ref = 0
      /\ askJob'[j].tracks = askJob[j].tracks
  <2>1. JobIs(askJob[j]) /\ askJob[j].ref = 0
    BY <1>2, JobStands DEF Early
  <2>2. askJob'[j] = [askJob[j] EXCEPT !.at = "closing"]
    BY <1>1
  <2> QED BY <2>1, <2>2, GotoIs
<1>6. JobIs(askJob'[j])
  BY <1>3, <1>5 DEF JobIs, Early, Searching
<1>7. ASSUME NEW k \in Jobs \ {j}
      PROVE  /\ JobIs(askJob'[k])
             /\ \/ askJob'[k] = askJob[k]
                \/ /\ askJob[k].at = "joined" /\ askJob'[k].at \in {"free", "check", "enqueue"}
                   /\ askJob'[k].ref = 0
  <2>1. JobIs(askJob[k]) /\ (askJob[k].at = "joined" => askJob[k].ref = 0)
    BY JobStands DEF Early
  <2>2. CASE askJob'[k] = askJob[k]
    BY <2>1, <2>2
  <2>3. CASE askJob[k].at = "joined" /\ askJob'[k] = Ask!Free
    BY <2>3, FreeIs
  <2>4. ASSUME NEW at \in {"check", "enqueue"}, askJob[k].at = "joined",
               askJob'[k] = [askJob[k] EXCEPT !.at = at]
        PROVE  JobIs(askJob'[k]) /\ askJob'[k].at = at /\ askJob'[k].ref = 0
    <3>1. DOMAIN askJob'[k] = JobFields /\ askJob'[k].at = at /\ askJob'[k].ref = 0
      BY <2>1, <2>4, GotoIs
    <3> QED BY <3>1 DEF JobIs, Early, Late, Searching
  <2>5. \/ askJob'[k] = askJob[k]
        \/ askJob[k].at = "joined" /\ askJob'[k] = Ask!Free
        \/ askJob[k].at = "joined" /\ \E at \in {"check", "enqueue"} : askJob'[k] = [askJob[k] EXCEPT !.at = at]
    BY <1>1 DEF Ask!Answered
  <2> QED BY <2>2, <2>3, <2>4, <2>5
<1>8. DOMAIN askJob' = Jobs /\ \A k \in Jobs : JobIs(askJob'[k])
  <2>1. DOMAIN askJob' = Jobs
    BY <1>1
  <2>2. ASSUME NEW k \in Jobs PROVE JobIs(askJob'[k])
    <3>1. CASE k = j
      BY <1>6, <3>1
    <3>2. CASE k # j
      BY <1>7, <3>2
    <3> QED BY <3>1, <3>2
  <2> QED BY <2>1, <2>2
<1>9. RequestTypes'
  BY <1>2, <1>4, <1>8 DEF RequestInv, RequestTypes
<1>10. PromptsSound'
  <2>1. \A k \in Jobs :
           \/ askJob'[k] = askJob[k]
           \/ /\ askJob[k].at \notin Owners /\ askJob'[k].at \notin Owners
              /\ askJob'[k].at = "enqueue" => askJob'[k].ref = 0
              /\ askJob'[k].at \notin {"confirm", "cancel"}
    BY <1>2, <1>5, <1>7 DEF Owners
  <2> QED BY <1>2, <2>1, PromptsFrame DEF RequestInv
<1>11. BallotsSound'
  <2>1. \A k \in Jobs : askJob'[k] = askJob[k] \/ askJob'[k].at \notin {"count", "vote"}
    BY <1>5, <1>7
  <2> QED BY <1>2, <2>1, BallotsFrame DEF RequestInv
<1>12. FlightsSound'
  <2>1. \A k \in Jobs :
           \/ askJob'[k] = askJob[k]
           \/ askJob[k].at \notin {"fetching", "closing"} /\ askJob'[k].at \notin {"fetching", "closing"}
           \/ /\ askJob[k].at \in {"fetching", "closing"} /\ askJob'[k].at \in {"fetching", "closing"}
              /\ askJob'[k].tracks = askJob[k].tracks
    BY <1>2, <1>5, <1>7
  <2> QED BY <1>3, <1>4, <2>1, FlyingHaveSongs, FlightsFrame DEF RequestInv
<1> QED BY <1>9, <1>10, <1>11, <1>12 DEF RequestInv

LEMMA ForgetKeeps ==
  ASSUME RequestInv, RequestsAssumed, NEW j \in Jobs, Ask!Forget(j)
  PROVE  RequestInv'
<1> DEFINE t == askJob[j].tracks[1]
           r == Ask!Answered(askJob[j], flight[t].answer)
<1>1. /\ askJob[j].at = "closing" /\ UNCHANGED <<prompts, voteKey, votes, ballots>>
      /\ flight' = [flight EXCEPT ![t] = Ask!NoCall] /\ askJob' = [askJob EXCEPT ![j] = r]
  BY DEF Ask!Forget, Ask!dialogs, Ask!voting
<1>2. t \in Songs /\ JobIs(askJob[j]) /\ askJob[j].ref = 0
  BY <1>1, JobStands DEF Searching, Early
<1>3. JobIs(r) /\ r.at \in {"free", "check", "enqueue"} /\ r.ref = 0
  <2>1. ASSUME NEW at \in {"check", "enqueue"}, r = [askJob[j] EXCEPT !.at = at]
        PROVE  JobIs(r) /\ r.at = at /\ r.ref = 0
    <3>1. DOMAIN r = JobFields /\ r.at = at /\ r.ref = 0
      BY <1>2, <2>1, GotoIs
    <3> QED BY <3>1 DEF JobIs, Early, Late, Searching
  <2>2. r = Ask!Free \/ \E at \in {"check", "enqueue"} : r = [askJob[j] EXCEPT !.at = at]
    BY DEF Ask!Answered
  <2> QED BY <2>1, <2>2, FreeIs
<1> HIDE DEF r
<1>4. /\ DOMAIN askJob' = Jobs /\ \A k \in Jobs : JobIs(askJob'[k])
      /\ askJob'[j] = r /\ \A k \in Jobs \ {j} : askJob'[k] = askJob[k]
  BY <1>1, <1>3, AskMoves DEF RequestInv
<1>5. flight \in [Songs -> [by : Jobs \cup {None}, answer : {"none", "found", "failed"}]]
  BY DEF RequestInv, RequestTypes
<1>6. /\ flight' \in [Songs -> [by : Jobs \cup {None}, answer : {"none", "found", "failed"}]]
      /\ flight'[t].by = None /\ \A s \in Songs \ {t} : flight'[s] = flight[s]
  BY <1>1, <1>2, <1>5 DEF Ask!NoCall
<1>7. RequestTypes'
  BY <1>1, <1>4, <1>6 DEF RequestInv, RequestTypes
<1>8. PromptsSound'
  <2>1. \A k \in Jobs :
           \/ askJob'[k] = askJob[k]
           \/ /\ askJob[k].at \notin Owners /\ askJob'[k].at \notin Owners
              /\ askJob'[k].at = "enqueue" => askJob'[k].ref = 0
              /\ askJob'[k].at \notin {"confirm", "cancel"}
    BY <1>1, <1>3, <1>4 DEF Owners
  <2> QED BY <1>1, <2>1, PromptsFrame DEF RequestInv
<1>9. BallotsSound'
  BY <1>1, <1>3, <1>4, BallotsFrame DEF RequestInv
<1>10. ASSUME NEW s \in Songs, flight'[s].by # None
       PROVE  askJob'[flight'[s].by].at \in {"fetching", "closing"} /\ askJob'[flight'[s].by].tracks[1] = s
  <2>1. s # t /\ flight'[s].by = flight[s].by /\ flight[s].by \in Jobs
    BY <1>5, <1>6, <1>10
  <2>2. askJob[flight[s].by].at \in {"fetching", "closing"} /\ askJob[flight[s].by].tracks[1] = s
    BY <1>10, <2>1 DEF RequestInv, FlightsSound
  <2>3. flight[s].by # j
    BY <2>1, <2>2
  <2> QED BY <1>4, <2>1, <2>2, <2>3
<1>11. ASSUME NEW k \in Jobs, askJob'[k].at \in {"fetching", "closing"}
       PROVE  flight'[askJob'[k].tracks[1]].by = k
  <2>1. k # j
    BY <1>3, <1>4, <1>11
  <2>2. askJob'[k] = askJob[k] /\ askJob[k].tracks[1] \in Songs
    BY <1>4, <1>11, <2>1, FlyingHaveSongs DEF RequestInv
  <2>3. flight[askJob[k].tracks[1]].by = k /\ flight[t].by = j
    BY <1>1, <1>11, <2>2 DEF RequestInv, FlightsSound
  <2>4. askJob[k].tracks[1] # t
    BY <2>1, <2>3
  <2> QED BY <1>6, <2>2, <2>3, <2>4
<1>12. FlightsSound'
  BY <1>10, <1>11 DEF FlightsSound
<1> QED BY <1>7, <1>8, <1>9, <1>12 DEF RequestInv

\* The steps of a job that touch nothing of the parts.
LEMMA SimpleKeeps ==
  ASSUME RequestInv, RequestsAssumed, NEW j \in Jobs,
         \/ Ask!ConnectFails(j) \/ Ask!GiveUp(j) \/ Ask!Candidates(j) \/ Ask!SearchFinds(j)
         \/ Ask!MenuHandler(j) \/ Ask!Check(j) \/ Ask!Control(j)
  PROVE  RequestInv'
<1>1. UNCHANGED <<flight, prompts, voteKey, votes, ballots>>
      /\ \/ /\ Ask!Leave(j)
            /\ askJob[j].at \in {"connect", "joined", "search", "menuHandler", "control"}
         \/ /\ \E at \in {"menu", "check", "prompt", "enqueue"} : Ask!Goto(j, at)
            /\ askJob[j].at \in {"resolve", "search", "check"}
  BY DEF Ask!ConnectFails, Ask!GiveUp, Ask!Candidates, Ask!SearchFinds, Ask!MenuHandler, Ask!Check, Ask!Control,
         Ask!dialogs, Ask!voting
<1>2. CASE Ask!Leave(j) /\ askJob[j].at \in {"connect", "joined", "search", "menuHandler", "control"}
  <2>1. askJob[j].at \notin Owners \cup {"fetching", "closing"}
    BY <1>2 DEF Owners
  <2> QED BY <1>1, <1>2, <2>1, LeavesKeeps
<1>3. ASSUME NEW at \in {"menu", "check", "prompt", "enqueue"}, Ask!Goto(j, at),
             askJob[j].at \in {"resolve", "search", "check"}
      PROVE  RequestInv'
  <2>1. /\ askJob[j].at \notin Owners \cup {"fetching", "closing"} /\ askJob[j].at \in Early
        /\ at # "connect" /\ at \notin Searching /\ (at \in Early \ {"fetching", "closing"} \/ at = "enqueue")
    BY <1>3 DEF Owners, Early, Searching
  <2>2. askJob' = [askJob EXCEPT ![j] = [askJob[j] EXCEPT !.at = at]]
    BY <1>3 DEF Ask!Goto
  <2> QED BY <1>1, <2>1, <2>2, GoesKeeps
<1> QED BY <1>1, <1>2, <1>3

LEMMA ShowMenuKeeps ==
  ASSUME RequestInv, RequestsAssumed, NEW j \in Jobs, Ask!ShowMenu(j)
  PROVE  RequestInv'
<1> DEFINE r == [askJob[j] EXCEPT !.at = "menuHandler", !.ref = Len(s9) + 1]
<1>1. askJob[j].at = "menu" /\ UNCHANGED <<flight, prompts, voteKey, votes, ballots>>
      /\ (Ask!Leave(j) \/ askJob' = [askJob EXCEPT ![j] = r])
  BY DEF Ask!ShowMenu, Ask!dialogs, Ask!voting
<1>2. JobIs(askJob[j]) /\ askJob[j].at \notin Owners \cup {"fetching", "closing"}
  BY <1>1, JobStands DEF Owners
<1>3. DOMAIN r = JobFields /\ r.at = "menuHandler"
  BY <1>2 DEF JobIs, JobFields
<1> HIDE DEF r
<1>4. JobIs(r) /\ r.at \notin Owners \cup {"fetching", "closing", "enqueue", "confirm", "cancel", "count", "vote"}
  BY <1>3 DEF JobIs, Early, Late, Owners, Searching
<1> QED BY <1>1, <1>2, <1>4, LeavesKeeps, PlainKeeps

LEMMA SelectKeeps ==
  ASSUME RequestInv, RequestsAssumed, NEW j \in Jobs, NEW m, NEW t, Ask!Select(j, m, t)
  PROVE  RequestInv'
<1> DEFINE r == [Ask!Free EXCEPT !.at = "check", !.cmd = "select", !.by = s9[m].by, !.tracks = <<t>>]
<1>1. askJob[j].at = "free" /\ UNCHANGED <<flight, prompts, voteKey, votes, ballots>>
      /\ (UNCHANGED askJob \/ askJob' = [askJob EXCEPT ![j] = r])
  BY DEF Ask!Select, Ask!voting
<1>2. DOMAIN r = JobFields /\ r.at = "check" /\ r.ref = 0
  BY DEF Ask!Free, JobFields
<1> HIDE DEF r
<1>3. JobIs(r) /\ r.at \notin Owners \cup {"fetching", "closing", "enqueue", "confirm", "cancel", "count", "vote"}
      /\ askJob[j].at \notin Owners \cup {"fetching", "closing"}
  BY <1>1, <1>2 DEF JobIs, Early, Owners, Searching
<1> QED BY <1>1, <1>3, PlainKeeps, SameRequests

\* Prompts.  A list that is changed in one place, or grows.
LEMMA ListIs ==
  ASSUME NEW s, IsList(s)
  PROVE  DOMAIN s = 1..Len(s) /\ Len(s) \in Nat /\ s \in Seq({s[i] : i \in 1..Len(s)})
<1>1. /\ Len(s) \in Nat
      /\ s = [i \in 1..Len(s) |-> s[i]]
  BY DEF IsList
<1> DEFINE n == Len(s)
           S == {s[i] : i \in 1..n}
<1>2. s \in [1..n -> S] /\ DOMAIN s = 1..n
  BY <1>1, Zenon
<1> QED BY <1>1, <1>2, SeqDef

LEMMA AllOf ==
  ASSUME NEW S, NEW s \in Seq(S)
  PROVE  IsList(s)
BY DEF IsList

LEMMA ListChanges ==
  ASSUME NEW s, IsList(s), NEW p \in DOMAIN s, NEW e
  PROVE  LET n == [s EXCEPT ![p] = e] IN
         /\ IsList(n) /\ Len(n) = Len(s) /\ DOMAIN n = DOMAIN s
         /\ n[p] = e /\ \A i \in DOMAIN s \ {p} : n[i] = s[i]
<1> DEFINE n == [s EXCEPT ![p] = e]
           S == {s[i] : i \in 1..Len(s)} \cup {e}
<1>1. DOMAIN s = 1..Len(s) /\ Len(s) \in Nat /\ s \in [1..Len(s) -> S]
  <2>1. DOMAIN s = 1..Len(s) /\ Len(s) \in Nat
    BY ListIs
  <2>2. s = [i \in 1..Len(s) |-> s[i]]
    BY DEF IsList
  <2> QED BY <2>1, <2>2
<1>2. n \in [1..Len(s) -> S] /\ DOMAIN n = 1..Len(s)
      /\ n[p] = e /\ \A i \in DOMAIN s \ {p} : n[i] = s[i]
  BY <1>1
<1>3. n \in Seq(S)
  BY <1>1, <1>2, SeqDef
<1>4. Len(n) = Len(s)
  BY <1>1, <1>2, <1>3
<1> QED BY <1>1, <1>2, <1>3, <1>4, AllOf

LEMMA ListGrows ==
  ASSUME NEW s, IsList(s), NEW e
  PROVE  LET n == Append(s, e) IN
         /\ IsList(n) /\ Len(n) = Len(s) + 1 /\ DOMAIN n = 1..(Len(s) + 1) /\ DOMAIN s = 1..Len(s)
         /\ n[Len(s) + 1] = e /\ \A i \in DOMAIN s : n[i] = s[i]
<1> DEFINE n == Append(s, e)
           S == {s[i] : i \in 1..Len(s)} \cup {e}
<1>1. DOMAIN s = 1..Len(s) /\ Len(s) \in Nat /\ s \in Seq({s[i] : i \in 1..Len(s)})
  BY ListIs
<1>2. s \in Seq(S) /\ e \in S
  <2>1. s \in [1..Len(s) -> S]
    BY <1>1
  <2> QED BY <1>1, <2>1, SeqDef
<1>3. n \in Seq(S) /\ Len(n) = Len(s) + 1 /\ n[Len(s) + 1] = e /\ \A i \in 1..Len(s) : n[i] = s[i]
  BY <1>2, AppendProperties
<1>4. DOMAIN n = 1..Len(n)
  BY <1>3
<1> QED BY <1>1, <1>3, <1>4, AllOf

\* A step that changes one prompt, and perhaps the job that is about it.
LEMMA PromptStep ==
  ASSUME RequestInv, RequestsAssumed, NEW j, NEW p \in DOMAIN prompts, NEW q, PromptIs(q),
         prompts' = [prompts EXCEPT ![p] = q], UNCHANGED <<flight, voteKey, votes, ballots>>,
         DOMAIN askJob' = Jobs, \A k \in Jobs : JobIs(askJob'[k]),
         \A k \in Jobs \ {j} : askJob'[k] = askJob[k],
         j \in Jobs =>
           /\ askJob[j].at \notin {"fetching", "closing"}
           /\ askJob'[j].at \notin {"fetching", "closing", "count", "vote", "confirm", "cancel"}
           /\ askJob[j].at \in Owners => askJob[j].ref = p
           /\ askJob'[j].at \in Owners => askJob'[j].ref = p
           /\ askJob'[j].at = "enqueue" =>
                askJob'[j].ref = p /\ prompts[p].settled # "confirmed" /\ q.settled = "confirmed" /\ q.queued = 0,
         FinishedBy(q, askJob', p),
         \/ prompts[p].settled = "confirmed" => q.settled = "confirmed" /\ q.queued = prompts[p].queued
         \/ j \in Jobs /\ About(j, p, {"enqueue"}) /\ askJob'[j].at # "enqueue"
  PROVE  RequestInv'
<1>1. IsList(prompts) /\ \A i \in DOMAIN prompts : PromptIs(prompts[i])
  BY DEF RequestInv, RequestTypes
<1>2. /\ IsList(prompts') /\ DOMAIN prompts' = DOMAIN prompts
      /\ prompts'[p] = q /\ \A i \in DOMAIN prompts \ {p} : prompts'[i] = prompts[i]
  BY <1>1, ListChanges
<1>3. \A i \in DOMAIN prompts' : PromptIs(prompts'[i])
  <2>1. ASSUME NEW i \in DOMAIN prompts PROVE PromptIs(prompts'[i])
    <3>1. CASE i = p
      BY <1>2, <3>1
    <3>2. CASE i # p
      BY <1>1, <1>2, <3>2
    <3> QED BY <3>1, <3>2
  <2> QED BY <1>2, <2>1
<1>4. RequestTypes'
  BY <1>2, <1>3 DEF RequestInv, RequestTypes
<1>5. ASSUME NEW i \in DOMAIN prompts' PROVE Finishes(i)'
  <2>1. CASE i = p
    BY <1>2, <2>1 DEF Finishes
  <2>2. CASE i # p
    <3>1. Finishes(i) /\ prompts'[i] = prompts[i]
      BY <1>2, <1>5, <2>2 DEF RequestInv, PromptsSound
    <3>2. \A k \in Jobs : askJob[k].at \in Owners /\ askJob[k].ref = i => askJob'[k] = askJob[k]
      BY <2>2
    <3> QED BY <3>1, <3>2 DEF Finishes, FinishedBy, Owners
  <2> QED BY <2>1, <2>2
<1>6. ASSUME NEW k \in Jobs PROVE OnItsWay(k)'
  <2>1. CASE k = j
    <3>1. askJob'[j].at \in Owners \cup {"confirm", "cancel"} => askJob'[j].ref \in DOMAIN prompts'
      BY <1>2, <2>1
    <3>2. ASSUME askJob'[j].at = "enqueue"
          PROVE  /\ askJob'[j].ref = p /\ prompts'[p].settled = "confirmed" /\ prompts'[p].queued = 0
                 /\ \A l \in Jobs : askJob'[l].at \in {"enqueue"} /\ askJob'[l].ref = p => l = j
      <4>1. askJob'[j].ref = p /\ prompts[p].settled # "confirmed" /\ q.settled = "confirmed" /\ q.queued = 0
        BY <2>1, <3>2
      <4>2. \A l \in Jobs \ {j} : askJob[l].at = "enqueue" /\ askJob[l].ref = p => p = 0
        BY <4>1 DEF RequestInv, PromptsSound, OnItsWay
      <4>3. p # 0
        <5>1. DOMAIN prompts = 1..Len(prompts) /\ Len(prompts) \in Nat
          BY <1>1, ListIs
        <5> QED BY <5>1
      <4> QED BY <1>2, <2>1, <4>1, <4>2, <4>3
    <3> QED BY <1>2, <2>1, <3>1, <3>2 DEF OnItsWay, About
  <2>2. CASE k # j
    <3>1. askJob'[k] = askJob[k] /\ OnItsWay(k)
      BY <2>2 DEF RequestInv, PromptsSound
    <3>2. ASSUME askJob[k].at = "enqueue", askJob[k].ref # 0
          PROVE  /\ askJob[k].ref \in DOMAIN prompts
                 /\ prompts'[askJob[k].ref].settled = "confirmed" /\ prompts'[askJob[k].ref].queued = 0
                 /\ \A l \in Jobs : askJob'[l].at \in {"enqueue"} /\ askJob'[l].ref = askJob[k].ref => l = k
      <4>1. /\ askJob[k].ref \in DOMAIN prompts
            /\ prompts[askJob[k].ref].settled = "confirmed" /\ prompts[askJob[k].ref].queued = 0
            /\ \A l \in Jobs : askJob[l].at \in {"enqueue"} /\ askJob[l].ref = askJob[k].ref => l = k
        BY <3>1, <3>2 DEF OnItsWay, About
      <4>2. CASE askJob[k].ref # p
        BY <1>2, <2>2, <4>1, <4>2
      <4>3. CASE askJob[k].ref = p
        <5>1. ~(j \in Jobs /\ About(j, p, {"enqueue"}))
          BY <2>2, <4>1, <4>3 DEF About
        <5>2. q.settled = "confirmed" /\ q.queued = 0
          BY <4>1, <4>3, <5>1
        <5>3. j \in Jobs => askJob'[j].at # "enqueue"
          BY <4>1, <4>3
        <5> QED BY <1>2, <2>2, <4>1, <4>3, <5>2, <5>3
      <4> QED BY <4>2, <4>3
    <3> QED BY <1>2, <3>1, <3>2 DEF OnItsWay, About
  <2> QED BY <2>1, <2>2
<1>7. BallotsSound'
  <2>1. \A k \in Jobs : askJob'[k] = askJob[k] \/ askJob'[k].at \notin {"count", "vote"}
    OBVIOUS
  <2> QED BY <2>1, BallotsFrame DEF RequestInv
<1>8. FlightsSound'
  <2>1. \A k \in Jobs :
           \/ askJob'[k] = askJob[k]
           \/ askJob[k].at \notin {"fetching", "closing"} /\ askJob'[k].at \notin {"fetching", "closing"}
    OBVIOUS
  <2>2. flight \in [Songs -> [by : Jobs \cup {None}, answer : {"none", "found", "failed"}]]
        /\ \A t \in Songs : flight'[t].by = flight[t].by
    BY DEF RequestInv, RequestTypes
  <2> QED BY <2>1, <2>2, FlyingHaveSongs, FlightsFrame DEF RequestInv
<1> QED BY <1>4, <1>5, <1>6, <1>7, <1>8 DEF RequestInv, PromptsSound

\* A prompt is settled, by a click or by the timer.
LEMMA SettlesKeeps ==
  ASSUME RequestInv, RequestsAssumed, NEW j, NEW p \in DOMAIN prompts, NEW q, PromptIs(q),
         prompts[p].settled = "no", q.settled # "no", q.queued = 0,
         prompts[p].removable => ~q.handler, prompts[p].stoppable => q.timer # "armed",
         prompts' = [prompts EXCEPT ![p] = q], UNCHANGED <<flight, voteKey, votes, ballots>>,
         DOMAIN askJob' = Jobs, \A k \in Jobs : JobIs(askJob'[k]),
         \A k \in Jobs \ {j} : askJob'[k] = askJob[k],
         j \in Jobs => /\ askJob[j].at \notin Owners \cup {"fetching", "closing"}
                       /\ askJob'[j].at \notin Owners \cup {"fetching", "closing", "count", "vote", "confirm", "cancel"}
                       /\ askJob'[j].at = "enqueue" => askJob'[j].ref = p /\ q.settled = "confirmed"
  PROVE  RequestInv'
<1>1. Finishes(p)
  BY DEF RequestInv, PromptsSound
<1>2. \A k \in Jobs : askJob[k].at \in Owners => askJob'[k] = askJob[k]
  OBVIOUS
<1>3. FinishedBy(q, askJob', p)
  BY <1>1, <1>2 DEF Finishes, FinishedBy, Owners
<1> QED BY <1>3, PromptStep

LEMMA SettledIs ==
  ASSUME NEW q, PromptIs(q), NEW outcome \in {"cancelled", "confirmed", "expired"}, q.settled = "no"
  PROVE  LET n == Ask!Settled(q, outcome) IN
         /\ PromptIs(n) /\ n.settled = outcome /\ n.queued = 0 /\ (q.removable => ~n.handler)
         /\ q.stoppable => n.timer # "armed"
<1> DEFINE n == Ask!Settled(q, outcome)
<1>1. /\ DOMAIN n = PromptFields /\ n.settled = outcome /\ n.queued = q.queued
      /\ n.removable = q.removable /\ n.stoppable = q.stoppable
      /\ n.timer = IF q.stoppable THEN Ask!Disarmed(q.timer) ELSE q.timer
  BY DEF Ask!Settled, PromptIs, PromptFields
<1>2. n.handler = (q.handler /\ ~q.removable)
  BY DEF Ask!Settled, PromptIs, PromptFields
<1> HIDE DEF n
<1>3. n.timer \in {"none", "armed", "fired", "over"} /\ (q.stoppable => n.timer # "armed")
  BY <1>1 DEF Ask!Disarmed, PromptIs
<1>4. n.queued = 0
  BY <1>1 DEF PromptIs
<1> QED BY <1>1, <1>2, <1>3, <1>4 DEF PromptIs, n

LEMMA PromptStands ==
  ASSUME RequestInv, NEW p \in DOMAIN prompts
  PROVE  PromptIs(prompts[p]) /\ Finishes(p)
BY DEF RequestInv, RequestTypes, PromptsSound

LEMMA HasPrompt ==
  ASSUME RequestInv, NEW j \in Jobs, askJob[j].at \in Owners \cup {"confirm", "cancel"}
  PROVE  askJob[j].ref \in DOMAIN prompts
BY DEF RequestInv, PromptsSound, OnItsWay

LEMMA PromptPressKeeps ==
  ASSUME RequestInv, RequestsAssumed, NEW j \in Jobs, NEW p \in DOMAIN prompts,
         NEW button \in {"confirm", "cancel"}, Ask!Press(j, p, button)
  PROVE  RequestInv'
<1> DEFINE r == [Ask!Free EXCEPT !.at = button, !.cmd = prompts[p].cmd, !.by = prompts[p].by,
                                 !.tracks = prompts[p].tracks, !.ref = p]
<1>1. /\ askJob[j].at = "free" /\ askJob' = [askJob EXCEPT ![j] = r]
      /\ UNCHANGED <<flight, prompts, voteKey, votes, ballots>>
  BY DEF Ask!Press, Ask!dialogs, Ask!voting
<1>2. DOMAIN r = JobFields /\ r.at = button /\ r.ref = p
  BY DEF Ask!Free, JobFields
<1> HIDE DEF r
<1>3. JobIs(r) /\ r.at \notin Owners \cup {"fetching", "closing", "enqueue", "count", "vote"}
      /\ askJob[j].at \notin Owners \cup {"fetching", "closing"}
  BY <1>1, <1>2 DEF JobIs, Early, Late, Owners, Searching
<1> QED BY <1>1, <1>2, <1>3, PlainKeeps

LEMMA PromptCancelKeeps ==
  ASSUME RequestInv, RequestsAssumed, NEW j \in Jobs, Ask!Cancel(j)
  PROVE  RequestInv'
<1>1. askJob[j].at = "cancel" /\ askJob[j].ref \in DOMAIN prompts
  BY HasPrompt DEF Ask!Cancel
<1>2. PICK p \in DOMAIN prompts : p = askJob[j].ref
  BY <1>1
<1>3. UNCHANGED <<flight, voteKey, votes, ballots>> /\ Ask!Leave(j)
      /\ prompts' = IF prompts[p].settled = "no" THEN [prompts EXCEPT ![p] = Ask!Settled(@, "cancelled")]
                    ELSE prompts
  BY <1>2 DEF Ask!Cancel, Ask!voting
<1>4. askJob[j].at \notin Owners \cup {"fetching", "closing"}
  BY <1>1 DEF Owners
<1>5. CASE prompts[p].settled # "no"
  BY <1>3, <1>4, <1>5, LeavesKeeps
<1>6. CASE prompts[p].settled = "no"
  <2> DEFINE q == Ask!Settled(prompts[p], "cancelled")
  <2>1. PromptIs(q) /\ q.settled = "cancelled" /\ q.queued = 0
        /\ (prompts[p].removable => ~q.handler) /\ (prompts[p].stoppable => q.timer # "armed")
    BY <1>6, PromptStands, SettledIs
  <2>2. prompts' = [prompts EXCEPT ![p] = q]
    BY <1>3, <1>6
  <2> HIDE DEF q
  <2>3. /\ DOMAIN askJob' = Jobs /\ \A k \in Jobs : JobIs(askJob'[k])
        /\ askJob'[j] = Ask!Free /\ \A k \in Jobs \ {j} : askJob'[k] = askJob[k]
    BY <1>3, FreeIs, AskMoves DEF Ask!Leave, RequestInv
  <2>4. askJob'[j].at \notin Owners \cup {"fetching", "closing", "count", "vote", "confirm", "cancel", "enqueue"}
    BY <2>3, FreeIs DEF Owners
  <2> QED BY <1>3, <1>4, <1>6, <2>1, <2>2, <2>3, <2>4, SettlesKeeps
<1> QED BY <1>5, <1>6

LEMMA ConfirmKeeps ==
  ASSUME RequestInv, RequestsAssumed, NEW j \in Jobs, Ask!Confirm(j)
  PROVE  RequestInv'
<1>1. askJob[j].at = "confirm" /\ askJob[j].ref \in DOMAIN prompts
  BY HasPrompt DEF Ask!Confirm
<1>2. PICK p \in DOMAIN prompts : p = askJob[j].ref
  BY <1>1
<1>3. UNCHANGED <<flight, voteKey, votes, ballots>>
      /\ IF prompts[p].settled = "no"
         THEN /\ prompts' = [prompts EXCEPT ![p] = Ask!Settled(@, "confirmed")]
              /\ Ask!Goto(j, "enqueue") \/ Ask!Leave(j)
         ELSE UNCHANGED prompts /\ Ask!Leave(j)
  BY <1>2 DEF Ask!Confirm, Ask!voting
<1>4. askJob[j].at \notin Owners \cup {"fetching", "closing"}
  BY <1>1 DEF Owners
<1>5. CASE prompts[p].settled # "no"
  BY <1>3, <1>4, <1>5, LeavesKeeps
<1>6. CASE prompts[p].settled = "no"
  <2> DEFINE q == Ask!Settled(prompts[p], "confirmed")
             r == [askJob[j] EXCEPT !.at = "enqueue"]
  <2>1. PromptIs(q) /\ q.settled = "confirmed" /\ q.queued = 0
        /\ (prompts[p].removable => ~q.handler) /\ (prompts[p].stoppable => q.timer # "armed")
    BY <1>6, PromptStands, SettledIs
  <2>2. prompts' = [prompts EXCEPT ![p] = q]
        /\ (askJob' = [askJob EXCEPT ![j] = r] \/ askJob' = [askJob EXCEPT ![j] = Ask!Free])
    BY <1>3, <1>6 DEF Ask!Goto, Ask!Leave
  <2>3. DOMAIN r = JobFields /\ r.at = "enqueue" /\ r.ref = p
    BY <1>2, JobStands, GotoIs
  <2> HIDE DEF q, r
  <2>4. JobIs(r)
    BY <2>3 DEF JobIs, Early, Late, Searching
  <2>5. ASSUME NEW n, JobIs(n), askJob' = [askJob EXCEPT ![j] = n],
               n.at = "free" \/ (n.at = "enqueue" /\ n.ref = p)
        PROVE  RequestInv'
    <3>1. /\ DOMAIN askJob' = Jobs /\ \A k \in Jobs : JobIs(askJob'[k])
          /\ askJob'[j] = n /\ \A k \in Jobs \ {j} : askJob'[k] = askJob[k]
      BY <2>5, AskMoves DEF RequestInv
    <3>2. askJob'[j].at \notin Owners \cup {"fetching", "closing", "count", "vote", "confirm", "cancel"}
          /\ (askJob'[j].at = "enqueue" => askJob'[j].ref = p)
      BY <2>5, <3>1 DEF Owners
    <3> QED BY <1>3, <1>4, <1>6, <2>1, <2>2, <3>1, <3>2, SettlesKeeps
  <2> QED BY <2>2, <2>3, <2>4, <2>5, FreeIs
<1> QED BY <1>5, <1>6

LEMMA TimerOverIs ==
  ASSUME NEW q, PromptIs(q), NEW run \in {"armed", "fired", "over"}
  PROVE  LET n == [q EXCEPT !.timer = run] IN
         /\ PromptIs(n) /\ n.timer = run /\ n.settled = q.settled /\ n.queued = q.queued
         /\ n.handler = q.handler /\ n.removable = q.removable /\ n.stoppable = q.stoppable
BY DEF PromptIs, PromptFields

LEMMA TimerRunsKeeps ==
  ASSUME RequestInv, RequestsAssumed, NEW p \in DOMAIN prompts, Ask!PromptFires(p) \/ Ask!PromptExpires(p)
  PROVE  RequestInv'
<1>1. UNCHANGED <<askJob, flight, voteKey, votes, ballots>>
  BY DEF Ask!PromptFires, Ask!PromptExpires, Ask!voting
<1>2. DOMAIN askJob' = Jobs /\ \A k \in Jobs : JobIs(askJob'[k])
  BY <1>1 DEF RequestInv, RequestTypes
<1>3. PromptIs(prompts[p]) /\ Finishes(p)
  BY PromptStands
<1>4. CASE Ask!PromptExpires(p) /\ prompts[p].settled = "no"
  <2> DEFINE s == Ask!Settled(prompts[p], "expired")
             q == [s EXCEPT !.timer = "over"]
  <2>1. PromptIs(s) /\ s.settled = "expired" /\ s.queued = 0 /\ (prompts[p].removable => ~s.handler)
    BY <1>3, <1>4, SettledIs
  <2>2. prompts' = [prompts EXCEPT ![p] = q]
    BY <1>4 DEF Ask!PromptExpires
  <2> HIDE DEF s
  <2>3. PromptIs(q) /\ q.settled = "expired" /\ q.queued = 0 /\ q.handler = s.handler /\ q.timer = "over"
    BY <2>1, TimerOverIs
  <2> HIDE DEF q
  <2> QED BY <1>1, <1>2, <1>4, <2>1, <2>2, <2>3, SettlesKeeps DEF RequestsAssumed
<1>5. ASSUME NEW run \in {"fired", "over"},
             prompts' = [prompts EXCEPT ![p] = [prompts[p] EXCEPT !.timer = run]]
      PROVE  RequestInv'
  <2> DEFINE q == [prompts[p] EXCEPT !.timer = run]
  <2>1. /\ PromptIs(q) /\ q.timer = run /\ q.settled = prompts[p].settled /\ q.queued = prompts[p].queued
        /\ q.handler = prompts[p].handler /\ q.removable = prompts[p].removable
        /\ q.stoppable = prompts[p].stoppable
    <3>1. run \in {"armed", "fired", "over"}
      OBVIOUS
    <3> QED BY <1>3, <3>1, TimerOverIs
  <2>2. prompts' = [prompts EXCEPT ![p] = q]
    BY <1>5
  <2> HIDE DEF q
  <2>3. FinishedBy(q, askJob', p)
    BY <1>1, <1>3, <2>1 DEF Finishes, FinishedBy
  <2>5. None \notin Jobs /\ \A k \in Jobs \ {None} : askJob'[k] = askJob[k]
    BY <1>1 DEF RequestsAssumed
  <2> QED BY <1>1, <1>2, <2>1, <2>2, <2>3, <2>5, PromptStep
<1>6. \/ Ask!PromptExpires(p) /\ prompts[p].settled = "no"
      \/ \E run \in {"fired", "over"} : prompts' = [prompts EXCEPT ![p] = [prompts[p] EXCEPT !.timer = run]]
  BY DEF Ask!PromptFires, Ask!PromptExpires
<1> QED BY <1>4, <1>5, <1>6

\* The job that shows a prompt: the handler, the timer, and what is known of them.
LEMMA OwnerStep ==
  ASSUME RequestInv, RequestsAssumed, NEW j \in Jobs, NEW p \in DOMAIN prompts, p = askJob[j].ref,
         askJob[j].at \in Owners, askJob'[j].at \in Owners \cup {"free"},
         askJob'[j].at \in Owners => askJob'[j].ref = p,
         DOMAIN askJob' = Jobs, \A k \in Jobs : JobIs(askJob'[k]),
         \A k \in Jobs \ {j} : askJob'[k] = askJob[k],
         NEW q, PromptIs(q), prompts' = [prompts EXCEPT ![p] = q],
         q.settled = prompts[p].settled, q.queued = prompts[p].queued,
         UNCHANGED <<flight, voteKey, votes, ballots>>,
         \/ q.removable /\ q.settled = "no"
         \/ ~q.handler /\ q.settled # "no"
         \/ q.handler = prompts[p].handler /\ q.removable = prompts[p].removable
            /\ askJob[j].at # "promptHandler",
         \/ q.stoppable /\ q.settled = "no"
         \/ q.timer # "armed" /\ q.settled # "no"
         \/ askJob'[j].at \in Owners
  PROVE  RequestInv'
<1>2. Finishes(p)
  BY PromptStands
<1>3. FinishedBy(q, askJob', p)
  <2>1. CASE q.handler = prompts[p].handler /\ q.removable = prompts[p].removable
             /\ askJob[j].at # "promptHandler"
    <3>1. \A k \in Jobs : askJob[k].at = "promptHandler" => askJob'[k] = askJob[k]
      BY <2>1
    <3> QED BY <1>2, <2>1, <3>1 DEF Finishes, FinishedBy
  <2>2. CASE (q.removable /\ q.settled = "no") \/ (~q.handler /\ q.settled # "no")
    BY <2>2 DEF FinishedBy
  <2> QED BY <2>1, <2>2
<1>5. /\ askJob[j].at \notin {"fetching", "closing"}
      /\ askJob'[j].at \notin {"fetching", "closing", "count", "vote", "confirm", "cancel", "enqueue"}
      /\ askJob'[j].at \in Owners => askJob'[j].ref = p
  BY DEF Owners
<1>6. \/ prompts[p].settled = "confirmed" => q.settled = "confirmed" /\ q.queued = prompts[p].queued
      \/ j \in Jobs /\ About(j, p, {"enqueue"}) /\ askJob'[j].at # "enqueue"
  OBVIOUS
<1>7. j \in Jobs =>
        /\ askJob[j].at \notin {"fetching", "closing"}
        /\ askJob'[j].at \notin {"fetching", "closing", "count", "vote", "confirm", "cancel"}
        /\ askJob[j].at \in Owners => askJob[j].ref = p
        /\ askJob'[j].at \in Owners => askJob'[j].ref = p
        /\ askJob'[j].at = "enqueue" =>
             askJob'[j].ref = p /\ prompts[p].settled # "confirmed" /\ q.settled = "confirmed" /\ q.queued = 0
  BY <1>5
<1> HIDE DEF askJob, prompts, flight, voteKey, votes, ballots
<1> QED BY <1>3, <1>6, <1>7, PromptStep

LEMMA OwnerGoes ==
  ASSUME NEW r, JobIs(r), NEW at \in Owners
  PROVE  LET n == [r EXCEPT !.at = at] IN JobIs(n) /\ n.at = at /\ n.ref = r.ref
<1> DEFINE n == [r EXCEPT !.at = at]
<1>1. DOMAIN n = JobFields /\ n.at = at /\ n.ref = r.ref
  BY GotoIs
<1> HIDE DEF n
<1>2. JobIs(n)
  BY <1>1 DEF JobIs, Owners, Early, Searching
<1> QED BY <1>1, <1>2 DEF n

LEMMA PromptHandlerKeeps ==
  ASSUME RequestInv, RequestsAssumed, NEW j \in Jobs, Ask!PromptHandler(j)
  PROVE  RequestInv'
<1>1. askJob[j].at = "promptHandler" /\ askJob[j].at \in Owners /\ askJob[j].ref \in DOMAIN prompts
  BY HasPrompt DEF Ask!PromptHandler, Owners
<1>2. PICK p \in DOMAIN prompts : p = askJob[j].ref
  BY <1>1
<1> DEFINE r == [askJob[j] EXCEPT !.at = "promptTimer"]
           q == IF prompts[p].settled = "no" THEN [prompts[p] EXCEPT !.removable = TRUE]
                ELSE [prompts[p] EXCEPT !.handler = FALSE]
<1>3. UNCHANGED <<flight, voteKey, votes, ballots>> /\ askJob' = [askJob EXCEPT ![j] = r]
      /\ prompts' = [prompts EXCEPT ![p] = q]
  BY <1>2 DEF Ask!PromptHandler, Ask!Goto, Ask!voting
<1>4. PromptIs(prompts[p])
  BY PromptStands
<1>5. /\ PromptIs(q) /\ q.settled = prompts[p].settled /\ q.queued = prompts[p].queued
      /\ (q.removable /\ q.settled = "no") \/ (~q.handler /\ q.settled # "no")
  <2>1. CASE prompts[p].settled = "no"
    BY <1>4, <2>1 DEF PromptIs, PromptFields
  <2>2. CASE prompts[p].settled # "no"
    BY <1>4, <2>2 DEF PromptIs, PromptFields
  <2> QED BY <2>1, <2>2
<1>6. JobIs(r) /\ r.at = "promptTimer" /\ r.ref = p
  BY <1>2, JobStands, OwnerGoes DEF Owners
<1> HIDE DEF q, r
<1>7. r.at \in Owners
  BY <1>6 DEF Owners
<1>8. /\ DOMAIN askJob' = Jobs /\ \A k \in Jobs : JobIs(askJob'[k])
      /\ askJob'[j] = r /\ \A k \in Jobs \ {j} : askJob'[k] = askJob[k]
  BY <1>3, <1>6, AskMoves DEF RequestInv
<1>9. askJob'[j].at \in Owners /\ askJob'[j].ref = p
  BY <1>6, <1>7, <1>8
<1> QED BY <1>1, <1>2, <1>3, <1>5, <1>8, <1>9, OwnerStep

LEMMA PromptTimerKeeps ==
  ASSUME RequestInv, RequestsAssumed, NEW j \in Jobs, Ask!PromptTimer(j)
  PROVE  RequestInv'
<1>1. askJob[j].at = "promptTimer" /\ askJob[j].at \in Owners /\ askJob[j].ref \in DOMAIN prompts
  BY HasPrompt DEF Ask!PromptTimer, Owners
<1>2. PICK p \in DOMAIN prompts : p = askJob[j].ref
  BY <1>1
<1> DEFINE r == [askJob[j] EXCEPT !.at = "promptSetTimer"]
           q == [prompts[p] EXCEPT !.timer = "armed"]
<1>3. UNCHANGED <<flight, voteKey, votes, ballots>> /\ askJob' = [askJob EXCEPT ![j] = r]
      /\ prompts' = [prompts EXCEPT ![p] = q]
  BY <1>2 DEF Ask!PromptTimer, Ask!Goto, Ask!voting
<1>4. PromptIs(prompts[p])
  BY PromptStands
<1>5. /\ PromptIs(q) /\ q.settled = prompts[p].settled /\ q.queued = prompts[p].queued
      /\ q.handler = prompts[p].handler /\ q.removable = prompts[p].removable
  BY <1>4, TimerOverIs
<1>6. JobIs(r) /\ r.at = "promptSetTimer" /\ r.ref = p
  BY <1>2, JobStands, OwnerGoes DEF Owners
<1> HIDE DEF q, r
<1>7. r.at \in Owners
  BY <1>6 DEF Owners
<1>8. /\ DOMAIN askJob' = Jobs /\ \A k \in Jobs : JobIs(askJob'[k])
      /\ askJob'[j] = r /\ \A k \in Jobs \ {j} : askJob'[k] = askJob[k]
  BY <1>3, <1>6, AskMoves DEF RequestInv
<1>9. askJob'[j].at \in Owners /\ askJob'[j].ref = p
  BY <1>6, <1>7, <1>8
<1> QED BY <1>1, <1>2, <1>3, <1>5, <1>8, <1>9, OwnerStep

LEMMA PromptSetTimerKeeps ==
  ASSUME RequestInv, RequestsAssumed, NEW j \in Jobs, Ask!PromptSetTimer(j)
  PROVE  RequestInv'
<1>1. askJob[j].at = "promptSetTimer" /\ askJob[j].at \in Owners /\ askJob[j].ref \in DOMAIN prompts
  BY HasPrompt DEF Ask!PromptSetTimer, Owners
<1>2. PICK p \in DOMAIN prompts : p = askJob[j].ref
  BY <1>1
<1> DEFINE q == IF prompts[p].settled = "no" THEN [prompts[p] EXCEPT !.stoppable = TRUE]
                ELSE [prompts[p] EXCEPT !.timer = Ask!Disarmed(prompts[p].timer)]
<1>3. UNCHANGED <<flight, voteKey, votes, ballots>> /\ askJob' = [askJob EXCEPT ![j] = Ask!Free]
      /\ prompts' = [prompts EXCEPT ![p] = q]
  BY <1>2 DEF Ask!PromptSetTimer, Ask!Leave, Ask!voting
<1>4. PromptIs(prompts[p])
  BY PromptStands
<1>5. /\ PromptIs(q) /\ q.settled = prompts[p].settled /\ q.queued = prompts[p].queued
      /\ q.handler = prompts[p].handler /\ q.removable = prompts[p].removable
      /\ (q.stoppable /\ q.settled = "no") \/ (q.timer # "armed" /\ q.settled # "no")
  <2>1. CASE prompts[p].settled = "no"
    BY <1>4, <2>1 DEF PromptIs, PromptFields
  <2>2. CASE prompts[p].settled # "no"
    <3>1. Ask!Disarmed(prompts[p].timer) \in {"none", "fired", "over"}
      BY <1>4 DEF Ask!Disarmed, PromptIs
    <3> QED BY <1>4, <2>2, <3>1 DEF PromptIs, PromptFields
  <2> QED BY <2>1, <2>2
<1> HIDE DEF q
<1>6. Ask!Free.at \in Owners \cup {"free"} /\ Ask!Free.at \notin Owners
  BY FreeIs DEF Owners
<1>7. /\ DOMAIN askJob' = Jobs /\ \A k \in Jobs : JobIs(askJob'[k])
      /\ askJob'[j] = Ask!Free /\ \A k \in Jobs \ {j} : askJob'[k] = askJob[k]
  BY <1>3, FreeIs, AskMoves DEF RequestInv
<1>8. askJob'[j].at \in Owners \cup {"free"} /\ askJob'[j].at \notin Owners
  BY <1>6, <1>7
<1> QED BY <1>1, <1>2, <1>3, <1>5, <1>7, <1>8, OwnerStep

LEMMA EnqueueKeeps ==
  ASSUME RequestInv, RequestsAssumed, NEW j \in Jobs, Ask!Enqueue(j)
  PROVE  RequestInv'
<1>1. /\ askJob[j].at = "enqueue" /\ askJob' = [askJob EXCEPT ![j] = Ask!Free]
      /\ UNCHANGED <<flight, voteKey, votes, ballots>>
      /\ \/ UNCHANGED prompts
         \/ askJob[j].ref # 0 /\ prompts' = [prompts EXCEPT ![askJob[j].ref].queued = @ + 1]
  BY DEF Ask!Enqueue, Ask!Leave, Ask!voting
<1>2. askJob[j].at \notin Owners \cup {"fetching", "closing"}
  BY <1>1 DEF Owners
<1>3. CASE UNCHANGED prompts
  BY <1>1, <1>2, <1>3, LeavesKeeps DEF Ask!Leave
<1>4. CASE askJob[j].ref # 0 /\ prompts' = [prompts EXCEPT ![askJob[j].ref].queued = @ + 1]
  <2>1. OnItsWay(j)
    BY DEF RequestInv, PromptsSound
  <2>2. /\ askJob[j].ref \in DOMAIN prompts /\ prompts[askJob[j].ref].settled = "confirmed"
        /\ prompts[askJob[j].ref].queued = 0
    BY <1>1, <1>4, <2>1 DEF OnItsWay
  <2>3. PICK p \in DOMAIN prompts : p = askJob[j].ref
    BY <2>2
  <2> DEFINE q == [prompts[p] EXCEPT !.queued = @ + 1]
  <2>4. PromptIs(prompts[p]) /\ Finishes(p)
    BY PromptStands
  <2>5. /\ PromptIs(q) /\ q.settled = "confirmed"
        /\ q.handler = prompts[p].handler /\ q.removable = prompts[p].removable
        /\ q.stoppable = prompts[p].stoppable /\ q.timer = prompts[p].timer
    <3>1. prompts[p].queued + 1 = 1
      BY <2>2, <2>3
    <3>2. q = [prompts[p] EXCEPT !.queued = 1]
      BY <3>1
    <3> QED BY <2>2, <2>3, <2>4, <3>2 DEF PromptIs, PromptFields
  <2>6. prompts' = [prompts EXCEPT ![p] = q]
    BY <1>4, <2>3
  <2> HIDE DEF q
  <2>7. /\ DOMAIN askJob' = Jobs /\ \A k \in Jobs : JobIs(askJob'[k])
        /\ askJob'[j] = Ask!Free /\ \A k \in Jobs \ {j} : askJob'[k] = askJob[k]
    BY <1>1, FreeIs, AskMoves DEF RequestInv
  <2>8. \A k \in Jobs : askJob[k].at \in Owners => askJob'[k] = askJob[k]
    BY <1>2, <2>7
  <2>9. FinishedBy(q, askJob', p)
    BY <2>2, <2>3, <2>4, <2>5, <2>8 DEF Finishes, FinishedBy, Owners
  <2>11. About(j, p, {"enqueue"})
    BY <1>1, <2>3 DEF About
  <2>12. /\ askJob[j].at \notin Owners \cup {"fetching", "closing"}
         /\ askJob'[j].at \notin Owners
              \cup {"fetching", "closing", "count", "vote", "confirm", "cancel", "enqueue"}
    BY <1>2, <2>7, FreeIs DEF Owners
  <2>13. /\ askJob[j].at \notin {"fetching", "closing"}
         /\ askJob'[j].at \notin {"fetching", "closing", "count", "vote", "confirm", "cancel"}
         /\ askJob[j].at \in Owners => askJob[j].ref = p
         /\ askJob'[j].at \in Owners => askJob'[j].ref = p
         /\ askJob'[j].at # "enqueue"
    BY <2>12
  <2> HIDE DEF askJob, prompts
  <2> QED BY <1>1, <2>5, <2>6, <2>7, <2>9, <2>11, <2>13, PromptStep
<1> QED BY <1>1, <1>3, <1>4

LEMMA ShowPromptKeeps ==
  ASSUME RequestInv, RequestsAssumed, NEW j \in Jobs, Ask!ShowPrompt(j)
  PROVE  RequestInv'
<1> DEFINE q == [by |-> askJob[j].by, cmd |-> askJob[j].cmd, tracks |-> askJob[j].tracks,
                 settled |-> "no", handler |-> TRUE, removable |-> FALSE,
                 timer |-> "none", stoppable |-> FALSE, queued |-> 0]
           r == [askJob[j] EXCEPT !.at = "promptHandler", !.ref = Len(prompts) + 1]
<1>1. /\ askJob[j].at = "prompt" /\ UNCHANGED <<flight, voteKey, votes, ballots>>
      /\ \/ Ask!Leave(j) /\ UNCHANGED prompts
         \/ prompts' = Append(prompts, q) /\ askJob' = [askJob EXCEPT ![j] = r]
  BY DEF Ask!ShowPrompt, Ask!voting
<1>2. askJob[j].at \notin Owners \cup {"fetching", "closing", "enqueue"}
  BY <1>1 DEF Owners
<1>3. CASE Ask!Leave(j) /\ UNCHANGED prompts
  BY <1>1, <1>2, <1>3, LeavesKeeps
<1>4. CASE prompts' = Append(prompts, q) /\ askJob' = [askJob EXCEPT ![j] = r]
  <2> DEFINE n == Len(prompts) + 1
  <2>1. PromptIs(q) /\ q.settled = "no"
    BY DEF PromptIs, PromptFields
  <2>2. DOMAIN r = JobFields /\ r.at = "promptHandler" /\ r.ref = n
    BY JobStands DEF JobIs, JobFields
  <2> HIDE DEF r
  <2>3. JobIs(r) /\ r.at \in Owners
    BY <2>2 DEF JobIs, Owners, Early, Searching
  <2>4. /\ DOMAIN askJob' = Jobs /\ \A k \in Jobs : JobIs(askJob'[k])
        /\ askJob'[j] = r /\ \A k \in Jobs \ {j} : askJob'[k] = askJob[k]
    BY <1>4, <2>3, AskMoves DEF RequestInv
  <2> HIDE DEF q
  <2>5. IsList(prompts) /\ Len(prompts) \in Nat /\ DOMAIN prompts = 1..Len(prompts)
    BY ListIs DEF RequestInv, RequestTypes
  <2>6. /\ IsList(prompts') /\ DOMAIN prompts' = 1..n /\ prompts'[n] = q
        /\ \A i \in DOMAIN prompts : prompts'[i] = prompts[i]
    <3>1. /\ IsList(Append(prompts, q)) /\ DOMAIN Append(prompts, q) = 1..(Len(prompts) + 1)
          /\ Append(prompts, q)[Len(prompts) + 1] = q
          /\ \A i \in DOMAIN prompts : Append(prompts, q)[i] = prompts[i]
      BY <2>5, ListGrows
    <3> QED BY <1>4, <3>1
  <2>7. DOMAIN prompts' = DOMAIN prompts \cup {n} /\ n \notin DOMAIN prompts
    BY <2>5, <2>6
  <2>8. \A i \in DOMAIN prompts' : PromptIs(prompts'[i])
    <3>1. \A i \in DOMAIN prompts : PromptIs(prompts[i])
      BY DEF RequestInv, RequestTypes
    <3> QED BY <2>1, <2>6, <2>7, <3>1
  <2>9. RequestTypes'
    BY <1>1, <2>4, <2>6, <2>8 DEF RequestInv, RequestTypes
  <2>10. ASSUME NEW i \in DOMAIN prompts' PROVE Finishes(i)'
    <3>1. CASE i = n
      <4>1. askJob'[j].at \in {"promptHandler"} /\ askJob'[j].at \in Owners /\ askJob'[j].ref = i
        BY <2>2, <2>3, <2>4, <3>1
      <4> QED BY <4>1 DEF Finishes, FinishedBy
    <3>2. CASE i # n
      <4>1. Finishes(i) /\ prompts'[i] = prompts[i]
        BY <2>6, <2>7, <2>10, <3>2 DEF RequestInv, PromptsSound
      <4>2. \A k \in Jobs : askJob[k].at \in Owners => askJob'[k] = askJob[k]
        BY <1>2, <2>4
      <4> QED BY <4>1, <4>2 DEF Finishes, FinishedBy, Owners
    <3> QED BY <3>1, <3>2
  <2>11. ASSUME NEW k \in Jobs PROVE OnItsWay(k)'
    <3>1. CASE k = j
      BY <2>2, <2>4, <2>7, <3>1 DEF OnItsWay
    <3>2. CASE k # j
      <4>1. OnItsWay(k) /\ askJob'[k] = askJob[k]
        BY <2>4, <3>2 DEF RequestInv, PromptsSound
      <4>2. \A l \in Jobs : askJob'[l].at \in {"enqueue"} => askJob'[l] = askJob[l]
        BY <2>2, <2>4
      <4> QED BY <2>6, <2>7, <4>1, <4>2 DEF OnItsWay, About
    <3> QED BY <3>1, <3>2
  <2>12. BallotsSound'
    BY <1>1, <2>2, <2>4, BallotsFrame DEF RequestInv
  <2>13. FlightsSound'
    <3>1. \A k \in Jobs :
             \/ askJob'[k] = askJob[k]
             \/ askJob[k].at \notin {"fetching", "closing"} /\ askJob'[k].at \notin {"fetching", "closing"}
      BY <1>2, <2>2, <2>4
    <3>2. flight \in [Songs -> [by : Jobs \cup {None}, answer : {"none", "found", "failed"}]]
          /\ \A t \in Songs : flight'[t].by = flight[t].by
      BY <1>1 DEF RequestInv, RequestTypes
    <3> QED BY <3>1, <3>2, FlyingHaveSongs, FlightsFrame DEF RequestInv
  <2> QED BY <2>9, <2>10, <2>11, <2>12, <2>13 DEF RequestInv, PromptsSound
<1> QED BY <1>1, <1>3, <1>4

\* Ballots.
LEMMA BallotKeeps ==
  ASSUME RequestInv, RequestsAssumed, NEW j \in Jobs, Ask!Ballot(j)
  PROVE  RequestInv'
<1> DEFINE key == askJob[j].saw.id
           r == [askJob[j] EXCEPT !.at = "count", !.ref = votes']
<1>1. /\ askJob[j].at = "ballot" /\ UNCHANGED <<flight, prompts>> /\ askJob' = [askJob EXCEPT ![j] = r]
      /\ \/ voteKey = key /\ UNCHANGED <<voteKey, votes, ballots>>
         \/ voteKey # key /\ voteKey' = key /\ votes' = Len(ballots) + 1 /\ ballots' = Append(ballots, {})
  BY DEF Ask!Ballot, Ask!dialogs, Ask!voting
<1>2. DOMAIN r = JobFields /\ r.at = "count" /\ r.ref = votes' /\ r.saw = askJob[j].saw
  BY JobStands DEF JobIs, JobFields
<1> HIDE DEF r
<1>3. JobIs(r)
  BY <1>2 DEF JobIs, Early, Late, Searching
<1>4. /\ DOMAIN askJob' = Jobs /\ \A k \in Jobs : JobIs(askJob'[k])
      /\ askJob'[j] = r /\ \A k \in Jobs \ {j} : askJob'[k] = askJob[k]
  BY <1>1, <1>3, AskMoves DEF RequestInv
<1>5. IsList(ballots) /\ Len(ballots) \in Nat /\ DOMAIN ballots = 1..Len(ballots) /\ votes \in 0..Len(ballots)
  BY ListIs DEF RequestInv, RequestTypes
<1>6. /\ IsList(ballots') /\ votes' \in 0..Len(ballots') /\ Len(ballots') \in Nat /\ Len(ballots') >= Len(ballots)
      /\ voteKey' = key
      /\ \/ votes' = votes /\ voteKey' = voteKey /\ ballots' = ballots
         \/ votes' = Len(ballots) + 1 /\ ballots'[votes'] = {}
  <2>1. CASE UNCHANGED <<voteKey, votes, ballots>> /\ voteKey = key
    BY <1>5, <2>1
  <2>2. CASE voteKey' = key /\ votes' = Len(ballots) + 1 /\ ballots' = Append(ballots, {})
    <3>1. /\ IsList(Append(ballots, {})) /\ Len(Append(ballots, {})) = Len(ballots) + 1
          /\ Append(ballots, {})[Len(ballots) + 1] = {}
      BY <1>5, ListGrows
    <3>2. /\ IsList(ballots') /\ Len(ballots') = Len(ballots) + 1
          /\ votes' = Len(ballots) + 1 /\ ballots'[votes'] = {}
      BY <2>2, <3>1
    <3>3. votes' \in 0..Len(ballots') /\ Len(ballots') \in Nat /\ Len(ballots') >= Len(ballots)
      BY <1>5, <3>2
    <3>4. voteKey' = key
      BY <2>2
    <3> QED BY <3>2, <3>3, <3>4
  <2> QED BY <1>1, <2>1, <2>2
<1>7. RequestTypes'
  BY <1>1, <1>4, <1>6 DEF RequestInv, RequestTypes
<1>8. PromptsSound'
  <2>1. askJob[j].at \notin Owners /\ askJob'[j].at \notin Owners \cup {"enqueue", "confirm", "cancel"}
    BY <1>1, <1>2, <1>4 DEF Owners
  <2> QED BY <1>1, <1>4, <2>1, PromptsFrame DEF RequestInv
<1>9. ASSUME votes' # 0 PROVE \A v \in ballots'[votes'] : v.key = voteKey'
  BY <1>5, <1>6, <1>9 DEF RequestInv, BallotsSound
<1>10. ASSUME NEW k \in Jobs, askJob'[k].at \in {"count", "vote"}
       PROVE  /\ askJob'[k].ref \in 0..Len(ballots')
              /\ askJob'[k].ref # 0 /\ askJob'[k].ref = votes' => askJob'[k].saw.id = voteKey'
  <2>1. CASE k = j
    BY <1>2, <1>4, <1>6, <2>1
  <2>2. CASE k # j
    <3>1. /\ askJob'[k] = askJob[k] /\ askJob[k].ref \in 0..Len(ballots)
          /\ askJob[k].ref # 0 /\ askJob[k].ref = votes => askJob[k].saw.id = voteKey
      BY <1>4, <1>10, <2>2 DEF RequestInv, BallotsSound
    <3>2. askJob[k].ref \in 0..Len(ballots')
      BY <1>5, <1>6, <3>1
    <3>3. CASE votes' = votes /\ voteKey' = voteKey
      BY <3>1, <3>2, <3>3
    <3>4. CASE votes' = Len(ballots) + 1
      <4>1. askJob[k].ref # votes'
        BY <1>5, <3>1, <3>4
      <4> QED BY <3>1, <3>2, <4>1
    <3> QED BY <1>6, <3>3, <3>4
  <2> QED BY <2>1, <2>2
<1>13. AboutOneTrack'
  <2>1. \A c \in DOMAIN ballots : c \in DOMAIN ballots' /\ ballots'[c] = ballots[c]
    BY <1>1, <1>5, ListGrows
  <2>2. \A c \in DOMAIN ballots' : c \in DOMAIN ballots \/ (c = votes' /\ ballots'[c] = {})
    <3>1. CASE UNCHANGED ballots
      BY <3>1
    <3>2. CASE votes' = Len(ballots) + 1 /\ ballots' = Append(ballots, {})
      BY <1>5, <3>2, ListGrows
    <3> QED BY <1>1, <3>1, <3>2
  <2>3. \A k \in Jobs \ {j} : Counting(k)' =>
          Counting(k) /\ askJob'[k] = askJob[k] /\ askJob[k].ref \in DOMAIN ballots
    BY <1>4, <1>5 DEF Counting, RequestInv, BallotsSound
  <2>4. Counting(j)' => askJob'[j].ref = votes' /\ votes' # 0 /\ askJob'[j].saw.id = key
    BY <1>2, <1>4 DEF Counting
  <2>5. \A v \in ballots'[votes'] : votes' # 0 => v.key = key
    BY <1>6, <1>9
  <2>6. \A k \in Jobs \ {j} : Counting(k)' /\ askJob[k].ref = votes' => askJob[k].saw.id = key
    BY <1>4, <1>6, <1>10 DEF Counting
  <2>7. \A c \in DOMAIN ballots' : \A v, w \in ballots'[c] : v.key = w.key
    BY <2>1, <2>2 DEF RequestInv, BallotsSound, AboutOneTrack
  <2>8. \A k \in Jobs : Counting(k)' => \A v \in ballots'[askJob'[k].ref] : v.key = askJob'[k].saw.id
    <3> SUFFICES ASSUME NEW k \in Jobs, Counting(k)' PROVE \A v \in ballots'[askJob'[k].ref] : v.key = askJob'[k].saw.id
      OBVIOUS
    <3>1. CASE k = j
      BY <2>4, <2>5, <3>1
    <3>2. CASE k # j
      <4>1. Counting(k) /\ askJob'[k] = askJob[k] /\ ballots'[askJob[k].ref] = ballots[askJob[k].ref]
        BY <2>1, <2>3, <3>2
      <4>2. \A v \in ballots[askJob[k].ref] : v.key = askJob[k].saw.id
        BY <4>1 DEF RequestInv, BallotsSound, AboutOneTrack
      <4> QED BY <4>1, <4>2
    <3> QED BY <3>1, <3>2
  <2>9. \A k, l \in Jobs : Counting(k)' /\ Counting(l)' /\ askJob'[k].ref = askJob'[l].ref
          => askJob'[k].saw.id = askJob'[l].saw.id
    <3>1. \A k, l \in Jobs \ {j} : Counting(k)' /\ Counting(l)' /\ askJob'[k].ref = askJob'[l].ref
            => askJob'[k].saw.id = askJob'[l].saw.id
      BY <2>3 DEF RequestInv, BallotsSound, AboutOneTrack
    <3>2. \A k \in Jobs \ {j} : Counting(k)' /\ Counting(j)' /\ askJob'[k].ref = askJob'[j].ref
            => askJob'[k].saw.id = askJob'[j].saw.id
      BY <2>3, <2>4, <2>6
    <3> QED BY <3>1, <3>2
  <2> QED BY <2>7, <2>8, <2>9 DEF AboutOneTrack
<1>11. BallotsSound'
  BY <1>9, <1>10, <1>13 DEF BallotsSound
<1>12. FlightsSound'
  <2>1. \A k \in Jobs :
           \/ askJob'[k] = askJob[k]
           \/ askJob[k].at \notin {"fetching", "closing"} /\ askJob'[k].at \notin {"fetching", "closing"}
    BY <1>1, <1>2, <1>4
  <2>2. flight \in [Songs -> [by : Jobs \cup {None}, answer : {"none", "found", "failed"}]]
        /\ \A t \in Songs : flight'[t].by = flight[t].by
    BY <1>1 DEF RequestInv, RequestTypes
  <2> QED BY <2>1, <2>2, FlyingHaveSongs, FlightsFrame DEF RequestInv
<1> QED BY <1>7, <1>8, <1>11, <1>12 DEF RequestInv

LEMMA CountKeeps ==
  ASSUME RequestInv, RequestsAssumed, NEW j \in Jobs, Ask!Count(j)
  PROVE  RequestInv'
<1>1. askJob[j].at = "count" /\ UNCHANGED <<flight, prompts, voteKey, votes, ballots>>
  BY DEF Ask!Count, Ask!dialogs, Ask!voting
<1> DEFINE n == Ask!Listeners(askJob[j].saw.ch)
<1>2. PICK at \in {"skip", "vote"} : askJob' = [askJob EXCEPT ![j] = [askJob[j] EXCEPT !.at = at, !.heard = n]]
  BY DEF Ask!Count
<1> HIDE DEF n
<1> DEFINE r == [askJob[j] EXCEPT !.at = at, !.heard = n]
<1>3. DOMAIN r = JobFields /\ r.at = at /\ r.ref = askJob[j].ref /\ r.saw = askJob[j].saw
  BY JobStands DEF JobIs, JobFields
<1>4. askJob' = [askJob EXCEPT ![j] = r]
  BY <1>2
<1> HIDE DEF r
<1>5. JobIs(r) /\ r.at \notin Owners \cup {"fetching", "closing", "enqueue", "confirm", "cancel"}
      /\ askJob[j].at \notin Owners \cup {"fetching", "closing"}
  BY <1>1, <1>3 DEF JobIs, Early, Late, Owners, Searching
<1> QED BY <1>1, <1>3, <1>4, <1>5, PlainKeeps

\* A step of a voter that leaves, or goes on to skip; a vote may close its ballot.
LEMMA VotesKeeps ==
  ASSUME RequestInv, RequestsAssumed, NEW j \in Jobs, askJob[j].at \in {"skip", "vote"},
         NEW r, JobIs(r), r.at \in {"free", "control"}, askJob' = [askJob EXCEPT ![j] = r],
         UNCHANGED <<flight, prompts, voteKey>>, votes' \in {0, votes},
         IsList(ballots'), Len(ballots') = Len(ballots),
         votes # 0 => \A v \in ballots'[votes] : v.key = voteKey,
         \A c \in DOMAIN ballots :
           \/ ballots'[c] = ballots[c]
           \/ /\ askJob[j].at = "vote" /\ askJob[j].ref = c /\ c # 0
              /\ \A v \in ballots'[c] : v \in ballots[c] \/ v.key = askJob[j].saw.id
  PROVE  RequestInv'
<1>1. /\ DOMAIN askJob' = Jobs /\ \A k \in Jobs : JobIs(askJob'[k])
      /\ askJob'[j] = r /\ \A k \in Jobs \ {j} : askJob'[k] = askJob[k]
  BY AskMoves DEF RequestInv
<1>2. Len(ballots) \in Nat /\ votes \in 0..Len(ballots)
  BY DEF RequestInv, RequestTypes, IsList
<1>3. RequestTypes'
  BY <1>1, <1>2 DEF RequestInv, RequestTypes
<1>4. PromptsSound'
  <2>1. askJob[j].at \notin Owners /\ askJob'[j].at \notin Owners \cup {"enqueue", "confirm", "cancel"}
    BY <1>1 DEF Owners
  <2> QED BY <1>1, <2>1, PromptsFrame DEF RequestInv
<1>5. BallotsSound'
  <2>1. \A k \in Jobs : askJob'[k].at \in {"count", "vote"} => askJob'[k] = askJob[k]
    BY <1>1
  <2>2. votes' # 0 => votes' = votes /\ \A v \in ballots'[votes'] : v.key = voteKey'
    OBVIOUS
  <2>3. DOMAIN ballots' = DOMAIN ballots /\ DOMAIN ballots = 1..Len(ballots)
    BY <1>2, ListIs DEF RequestInv, RequestTypes
  <2>4. \A k \in Jobs : Counting(k)' => k # j /\ Counting(k) /\ askJob'[k] = askJob[k] /\ askJob[k].ref \in DOMAIN ballots
    BY <1>1, <1>2, <2>3 DEF Counting, RequestInv, BallotsSound
  <2>5. ASSUME NEW c \in DOMAIN ballots, NEW v \in ballots'[c], NEW w \in ballots'[c] PROVE v.key = w.key
    <3>1. CASE ballots'[c] = ballots[c]
      BY <2>5, <3>1 DEF RequestInv, BallotsSound, AboutOneTrack
    <3>2. CASE ballots'[c] # ballots[c]
      <4>1. /\ Counting(j) /\ askJob[j].ref = c
            /\ \A u \in ballots'[c] : u \in ballots[c] \/ u.key = askJob[j].saw.id
        BY <3>2 DEF Counting
      <4>2. \A u \in ballots[c] : u.key = askJob[j].saw.id
        BY <4>1 DEF RequestInv, BallotsSound, AboutOneTrack
      <4> QED BY <2>5, <4>1, <4>2
    <3> QED BY <3>1, <3>2
  <2>6. ASSUME NEW k \in Jobs, Counting(k)', NEW v \in ballots'[askJob'[k].ref] PROVE v.key = askJob'[k].saw.id
    <3>1. Counting(k) /\ askJob'[k] = askJob[k] /\ askJob[k].ref \in DOMAIN ballots
      BY <2>4, <2>6
    <3>2. \A u \in ballots[askJob[k].ref] : u.key = askJob[k].saw.id
      BY <3>1 DEF RequestInv, BallotsSound, AboutOneTrack
    <3>3. CASE ballots'[askJob[k].ref] = ballots[askJob[k].ref]
      BY <2>6, <3>1, <3>2, <3>3
    <3>4. CASE ballots'[askJob[k].ref] # ballots[askJob[k].ref]
      <4>1. /\ Counting(j) /\ askJob[j].ref = askJob[k].ref
            /\ v \in ballots[askJob[k].ref] \/ v.key = askJob[j].saw.id
        BY <2>6, <3>1, <3>4 DEF Counting
      <4>2. askJob[j].saw.id = askJob[k].saw.id
        BY <3>1, <4>1 DEF RequestInv, BallotsSound, AboutOneTrack
      <4> QED BY <3>1, <3>2, <4>1, <4>2
    <3> QED BY <3>3, <3>4
  <2>7. \A k, l \in Jobs : Counting(k)' /\ Counting(l)' /\ askJob'[k].ref = askJob'[l].ref
          => askJob'[k].saw.id = askJob'[l].saw.id
    BY <2>4 DEF RequestInv, BallotsSound, AboutOneTrack
  <2>8. AboutOneTrack'
    BY <2>3, <2>5, <2>6, <2>7 DEF AboutOneTrack
  <2> QED BY <2>1, <2>2, <2>8 DEF RequestInv, BallotsSound
<1>6. FlightsSound'
  <2>1. \A k \in Jobs :
           \/ askJob'[k] = askJob[k]
           \/ askJob[k].at \notin {"fetching", "closing"} /\ askJob'[k].at \notin {"fetching", "closing"}
    BY <1>1
  <2>2. flight \in [Songs -> [by : Jobs \cup {None}, answer : {"none", "found", "failed"}]]
        /\ \A t \in Songs : flight'[t].by = flight[t].by
    BY DEF RequestInv, RequestTypes
  <2> QED BY <2>1, <2>2, FlyingHaveSongs, FlightsFrame DEF RequestInv
<1> QED BY <1>3, <1>4, <1>5, <1>6 DEF RequestInv

LEMMA SkipAloneKeeps ==
  ASSUME RequestInv, RequestsAssumed, NEW j \in Jobs, Ask!SkipAlone(j)
  PROVE  RequestInv'
<1> DEFINE r == [askJob[j] EXCEPT !.at = "control"]
<1>1. /\ askJob[j].at = "skip" /\ askJob' = [askJob EXCEPT ![j] = r] /\ votes' = 0
      /\ UNCHANGED <<flight, prompts, voteKey, ballots>>
  BY DEF Ask!SkipAlone, Ask!Goto, Ask!dialogs
<1>2. DOMAIN r = JobFields /\ r.at = "control"
  BY JobStands, GotoIs
<1> HIDE DEF r
<1>3. JobIs(r)
  BY <1>2 DEF JobIs, Early, Late, Searching
<1>4. IsList(ballots') /\ Len(ballots') = Len(ballots) /\ (votes # 0 => \A v \in ballots'[votes] : v.key = voteKey)
  BY <1>1 DEF RequestInv, RequestTypes, BallotsSound
<1> QED BY <1>1, <1>2, <1>3, <1>4, VotesKeeps

LEMMA VoteKeeps ==
  ASSUME RequestInv, RequestsAssumed, NEW j \in Jobs, Ask!Vote(j)
  PROVE  RequestInv'
<1> DEFINE b == askJob[j].ref
<1>1. /\ askJob[j].at = "vote" /\ askJob' = [askJob EXCEPT ![j] = Ask!Free] /\ UNCHANGED <<flight, prompts, voteKey>>
      /\ votes' \in {0, votes}
      /\ \/ UNCHANGED ballots
         \/ b # 0 /\ ballots' = [ballots EXCEPT ![b] = @ \cup {Ask!Slip(j)}]
  BY DEF Ask!Vote, Ask!Leave, Ask!dialogs
<1>2. /\ IsList(ballots) /\ Len(ballots) \in Nat /\ DOMAIN ballots = 1..Len(ballots)
      /\ votes # 0 => \A v \in ballots[votes] : v.key = voteKey
  BY ListIs DEF RequestInv, RequestTypes, BallotsSound
<1>3. /\ IsList(ballots') /\ Len(ballots') = Len(ballots) /\ (votes # 0 => \A v \in ballots'[votes] : v.key = voteKey)
      /\ \A c \in DOMAIN ballots :
           \/ ballots'[c] = ballots[c]
           \/ /\ askJob[j].at = "vote" /\ askJob[j].ref = c /\ c # 0
              /\ \A v \in ballots'[c] : v \in ballots[c] \/ v.key = askJob[j].saw.id
  <2>1. CASE UNCHANGED ballots
    BY <1>2, <2>1
  <2>2. CASE b # 0 /\ ballots' = [ballots EXCEPT ![b] = @ \cup {Ask!Slip(j)}]
    <3>1. b \in DOMAIN ballots /\ (b = votes => askJob[j].saw.id = voteKey)
      BY <1>1, <1>2, <2>2 DEF RequestInv, BallotsSound
    <3>2. PICK c \in DOMAIN ballots : c = b
      BY <3>1
    <3> DEFINE e == ballots[c] \cup {Ask!Slip(j)}
    <3>3. ballots' = [ballots EXCEPT ![c] = e]
      BY <2>2, <3>2
    <3>4. Ask!Slip(j).key = askJob[j].saw.id
      BY DEF Ask!Slip
    <3>5. c = votes /\ votes # 0 => \A v \in e : v.key = voteKey
      BY <1>2, <3>1, <3>2, <3>4
    <3>8. \A v \in e : v \in ballots[c] \/ v.key = askJob[j].saw.id
      BY <3>4
    <3> HIDE DEF e
    <3>6. /\ IsList(ballots') /\ Len(ballots') = Len(ballots) /\ ballots'[c] = e
          /\ \A i \in DOMAIN ballots \ {c} : ballots'[i] = ballots[i]
      <4> DEFINE n == [ballots EXCEPT ![c] = e]
      <4>1. /\ IsList(n) /\ Len(n) = Len(ballots) /\ n[c] = e
            /\ \A i \in DOMAIN ballots \ {c} : n[i] = ballots[i]
        BY <1>2, ListChanges
      <4> QED BY <3>3, <4>1
    <3>7. votes # 0 => votes \in DOMAIN ballots
      BY <1>2 DEF RequestInv, RequestTypes
    <3> QED BY <1>1, <1>2, <2>2, <3>2, <3>5, <3>6, <3>7, <3>8
  <2> QED BY <1>1, <2>1, <2>2
<1> QED BY <1>1, <1>3, FreeIs, VotesKeeps

LEMMA RequestKeeps ==
  ASSUME RequestInv, RequestsAssumed, [Ask!Next]_(Ask!vars)
  PROVE  RequestInv'
<1>1. ASSUME NEW j \in Jobs, Ask!JobStep(j) PROVE RequestInv'
  BY <1>1, SimpleKeeps, ConnectsKeeps, ResolveKeeps, FetchedKeeps, ForgetKeeps, ShowMenuKeeps, EnqueueKeeps,
     ShowPromptKeeps, PromptHandlerKeeps, PromptTimerKeeps, PromptSetTimerKeeps, PromptCancelKeeps, ConfirmKeeps,
     BallotKeeps, CountKeeps, SkipAloneKeeps, VoteKeeps DEF Ask!JobStep
<1>2. ASSUME \/ \E m \in DOMAIN s9 : Ask!MenuExpires(m)
             \/ Ask!StartNext \/ Ask!TrackEnds \/ \E t \in Songs : Ask!Autoplay(t)
             \/ \E u \in Users, c \in VoiceChannels \cup {None} : Ask!Moves(u, c)
             \/ \E mode \in Ask!Modes : Ask!SetRestriction(mode)
             \/ UNCHANGED Ask!vars
      PROVE  RequestInv'
  <2>1. UNCHANGED <<askJob, flight, prompts, voteKey, votes, ballots>>
    BY <1>2 DEF Ask!MenuExpires, Ask!StartNext, Ask!TrackEnds, Ask!Autoplay, Ask!Moves, Ask!SetRestriction,
                Ask!dialogs, Ask!voting, Ask!vars
  <2> QED BY <2>1, SameRequests
<1> QED BY <1>1, <1>2, AskKeeps, SelectKeeps, PromptPressKeeps, TimerRunsKeeps DEF Ask!Next

LEMMA RequestInit ==
  ASSUME RequestsAssumed, Ask!Init
  PROVE  RequestInv
<1>1. /\ askJob = [j \in Jobs |-> Ask!Free] /\ flight = [t \in Songs |-> Ask!NoCall]
      /\ prompts = << >> /\ votes = 0 /\ ballots = << >>
  BY DEF Ask!Init
<1>2. \A j \in Jobs : JobIs(askJob[j]) /\ askJob[j].at = "free"
  BY <1>1, FreeIs
<1>3. IsList(<< >>) /\ DOMAIN << >> = {} /\ Len(<< >>) = 0
  BY DEF IsList
<1>4. RequestTypes
  BY <1>1, <1>2, <1>3 DEF RequestTypes, Ask!NoCall
<1>5. PromptsSound /\ BallotsSound
  BY <1>1, <1>2, <1>3 DEF PromptsSound, OnItsWay, Owners, BallotsSound, AboutOneTrack, Counting
<1>6. FlightsSound
  BY <1>1, <1>2 DEF FlightsSound, Ask!NoCall
<1> QED BY <1>4, <1>5, <1>6 DEF RequestInv

LEMMA RequestFollows ==
  ASSUME RequestInv
  PROVE  Ask!ConfirmedOnce /\ Ask!NothingLeft /\ Ask!BallotIsForItsTrack /\ Ask!FlightsAreOwned
<1>1. \A p \in DOMAIN prompts : PromptIs(prompts[p]) /\ Finishes(p)
  BY PromptStands
<1>2. Ask!ConfirmedOnce
  <2>1. \A p \in DOMAIN prompts : prompts[p].queued > 0 => prompts[p].queued = 1 /\ prompts[p].settled = "confirmed"
    BY <1>1 DEF PromptIs
  <2> QED BY <2>1 DEF Ask!ConfirmedOnce
<1>3. Ask!NothingLeft
  BY <1>1 DEF Finishes, FinishedBy, Owners, Ask!NothingLeft
<1>4. Ask!BallotIsForItsTrack /\ Ask!FlightsAreOwned
  BY DEF RequestInv, BallotsSound, AboutOneTrack, FlightsSound, Ask!BallotIsForItsTrack, Ask!FlightsAreOwned
<1> QED BY <1>2, <1>3, <1>4

RequestsWhenRun == focus = "requests" => RequestInv

\* For any members, tracks, queries and goroutines: a prompt is queued at most once and leaves
\* nothing behind once it is settled, the votes of a ballot, open or not, are about one track,
\* which need not be the one that plays when they are counted, and a query in the table is
\* worked on (duplicate_confirmation.go, vote_skip.go, resolver.go).
THEOREM RequestsAreServedOnceAlways ==
  ASSUME RequestsAssumed
  PROVE  MessagesSpec => []RequestsAreServedOnce
<1>1. MessagesInit => RequestsWhenRun
  BY InitOfOne, RequestInit DEF RequestsWhenRun
<1>2. RequestsWhenRun /\ [MessagesNext]_<<focus, From1, mcvars>> => RequestsWhenRun'
  BY StepOfOne, RequestKeeps DEF RequestsWhenRun
<1>3. RequestsWhenRun => RequestsAreServedOnce
  BY RequestFollows DEF RequestsWhenRun, RequestsAreServedOnce
<1> QED BY <1>1, <1>2, <1>3, PTL DEF MessagesSpec

-----------------------------------------------------------------------------
(***************************************************************************)
(* Voice transport.  What is open is a field of the connection, or taken   *)
(* by whoever closes it, or in the hands of the goroutine that made it.    *)
(* The gateway is told of a ready connection only while it is not closed,  *)
(* so one that was handed over was closed by its owner or by its loss.     *)
(* Once a write has failed all others do, the next heartbeat's too.        *)
(***************************************************************************)

\* The variables by name.
setup == s1
isClosed == s2
isEstablished == s3
readyChan == s4
wsConn == s5
udpConn == s6
daveSess == s7
handlers == s8
sockets == s9
broken == s10
closing == s11
reader == s12
beats == s13
loss == s14
voiceLossOnce == s15
reported == s16
outstanding == s17
version == s18
e2ee == s19
invalid == s20
gatewayAsked == s21
speaking == s22
heard == s23
speakingMu == s24
saying == s25
ownerClosed == s26
unwritable == s27
USE DEF setup, isClosed, isEstablished, readyChan, wsConn, udpConn, daveSess, handlers, sockets, broken,
        closing, reader, beats, loss, voiceLossOnce, reported, outstanding, version, e2ee, invalid,
        gatewayAsked, speaking, heard, speakingMu, saying, ownerClosed, unwritable

Closing == [by : {"setup", "reader", "loss", "owner"}, next : 1..4, ws : BOOLEAN, udp : BOOLEAN]

TransportTypes ==
  /\ setup \in {"handlers", "wait", "dial", "adopt", "start", "identify", "ready", "dave", "open", "error"}
  /\ isClosed \in BOOLEAN /\ readyChan \in BOOLEAN /\ voiceLossOnce \in BOOLEAN /\ ownerClosed \in BOOLEAN
  /\ wsConn \in BOOLEAN /\ udpConn \in BOOLEAN /\ daveSess \in BOOLEAN /\ handlers \in BOOLEAN
  /\ sockets \subseteq {"ws", "udp"} /\ closing \in Closing \cup {Nobody}
  /\ reader \in {"none", "read", "adopt", "discover", "describe", "resend", "saying", "done"}
  /\ loss \in {"none", "close", "report", "done"}

\* Who closes has closed the connection, and holds what the fields held.
HeldByCloser(what) ==
  closing # Nobody /\ \/ what = "handlers" /\ closing.next = 1
                      \/ what = "ws" /\ closing.ws /\ closing.next <= 3
                      \/ what = "udp" /\ closing.udp

Open ==
  /\ closing # Nobody => isClosed
  /\ isClosed => ~wsConn /\ ~udpConn /\ setup # "handlers"
  /\ setup = "error" => isClosed
  /\ setup \in {"start", "identify", "ready", "dave", "open"} => wsConn \/ isClosed
  /\ wsConn \/ (setup = "adopt" /\ ~isClosed) => "ws" \in sockets
  /\ handlers => ~isClosed \/ HeldByCloser("handlers")
  /\ "ws" \in sockets => setup = "adopt" \/ wsConn \/ HeldByCloser("ws")
  /\ "udp" \in sockets => reader = "adopt" \/ udpConn \/ HeldByCloser("udp")

\* What the gateway was asked, and what it has answered.
Asked ==
  /\ setup \in {"handlers", "wait", "dial", "adopt", "start"} => reader = "none"
  /\ setup \in {"handlers", "wait", "dial", "adopt", "start", "identify"} => gatewayAsked = 0
  /\ readyChan \/ reader = "describe" => gatewayAsked = 2
  /\ reader \in {"adopt", "discover"} => gatewayAsked = 1
  /\ setup = "identify" /\ reader = "none" => isClosed
  /\ setup \in {"ready", "dave", "open"} => reader # "none"
  /\ setup \in {"dave", "open"} => readyChan

Noticed ==
  /\ setup = "handlers" => loss = "none" /\ beats = "none" /\ ~handlers
  /\ reader = "done" => isClosed \/ voiceLossOnce
  /\ voiceLossOnce => isClosed \/ loss # "none"
  /\ loss \in {"report", "done"} => isClosed
  /\ beats = "done" => isClosed \/ loss # "none"
  /\ reported = IF loss = "done" THEN 1 ELSE 0
  /\ isClosed => ownerClosed \/ setup = "error" \/ loss \in {"report", "done"} \/ ~readyChan

Spoken ==
  /\ speaking # "unset" => setup = "open"
  /\ speakingMu # Nobody => saying = speaking
  /\ speakingMu = "reader" => reader = "saying"
  /\ speaking # "unset" /\ speakingMu = Nobody /\ wsConn => heard = speaking \/ unwritable
  /\ unwritable \in BOOLEAN /\ beats \in {"none", "on", "done"}

TransportInv == TransportTypes /\ Open /\ Asked /\ Noticed /\ Spoken

TransportAssumed == Nobody \notin Closing /\ Nobody \notin {"reader", "owner"}

\* Closing takes the fields.
LEMMA CloseIs ==
  ASSUME TransportInv, TransportAssumed, NEW who \in {"setup", "reader", "loss", "owner"}, Transport!Close(who)
  PROVE  /\ isClosed' = TRUE /\ wsConn' = FALSE /\ udpConn' = FALSE /\ daveSess' \in BOOLEAN
         /\ closing' \in Closing \cup {Nobody} /\ (isClosed => closing' = closing)
         /\ ~isClosed => /\ closing' \in Closing /\ closing' # Nobody /\ closing'.next = 1
                         /\ closing'.ws = wsConn /\ closing'.udp = udpConn
<1>1. CASE isClosed
  BY <1>1 DEF TransportInv, TransportTypes, Open, Transport!Close, Transport!closed, Transport!fields
<1>2. CASE ~isClosed
  <2>1. /\ isClosed' = TRUE /\ wsConn' = FALSE /\ udpConn' = FALSE /\ daveSess' = FALSE
        /\ closing' = [by |-> who, next |-> 1, ws |-> wsConn, udp |-> udpConn]
    BY <1>2 DEF Transport!Close
  <2>2. 1 \in 1..4
    OBVIOUS
  <2>3. closing' \in Closing
    BY <2>1, <2>2 DEF TransportInv, TransportTypes, Closing
  <2>4. closing' # Nobody
    BY <2>3 DEF TransportAssumed
  <2>5. closing'.next = 1 /\ closing'.ws = wsConn /\ closing'.udp = udpConn
    BY <2>1
  <2> QED BY <1>2, <2>1, <2>3, <2>4, <2>5
<1> QED BY <1>1, <1>2

LEMMA LossIs ==
  ASSUME TransportInv, Transport!TriggerVoiceLoss
  PROVE  /\ voiceLossOnce' = TRUE /\ reported' = reported
         /\ loss' = IF voiceLossOnce \/ isClosed THEN loss ELSE "close"
BY DEF Transport!TriggerVoiceLoss

\* A step of the setup.
LEMMA SetupKeeps ==
  ASSUME TransportInv, TransportAssumed,
         \/ Transport!AddHandlers \/ Transport!GatewayAnswers \/ Transport!Dial \/ Transport!Adopt
         \/ Transport!StartReader \/ Transport!Identify \/ Transport!Established \/ Transport!DaveReady
  PROVE  TransportInv'
<1> USE DEF TransportInv, TransportTypes, Open, HeldByCloser, Asked, Noticed, Spoken, Transport!closed,
            Transport!fields, Transport!SetupRest, Transport!lost, Transport!dave, Transport!speech,
            Transport!network
<1>1. CASE Transport!AddHandlers
  BY <1>1 DEF Transport!AddHandlers
<1>2. CASE Transport!GatewayAnswers
  BY <1>2 DEF Transport!GatewayAnswers
<1>3. CASE Transport!Dial
  BY <1>3 DEF Transport!Dial
<1>4. CASE Transport!Adopt
  <2>1. CASE isClosed
    <3>1. setup' = "error" /\ sockets' = sockets \ {"ws"} /\ wsConn' = wsConn
      BY <1>4, <2>1 DEF Transport!Adopt
    <3> QED BY <1>4, <2>1, <3>1 DEF Transport!Adopt
  <2>2. CASE ~isClosed
    <3>1. setup' = "start" /\ wsConn' = TRUE /\ sockets' = sockets
      BY <1>4, <2>2 DEF Transport!Adopt
    <3>2. UNCHANGED <<readyChan, isClosed, udpConn, daveSess, closing, handlers, reader, gatewayAsked, beats,
                      voiceLossOnce, loss, reported, speaking, heard, speakingMu, saying, ownerClosed, unwritable>>
      BY <1>4 DEF Transport!Adopt
    <3>3. setup = "adopt"
      BY <1>4 DEF Transport!Adopt
    <3>6. closing = Nobody /\ closing' = Nobody /\ ~isClosed'
      BY <2>2, <3>2
    <3>7. "ws" \in sockets
      BY <2>2, <3>3
    <3>4. Open'
      BY <3>1, <3>2, <3>3, <3>6, <3>7
    <3>5. speaking = "unset"
      BY <3>3
    <3> QED BY <2>2, <3>1, <3>2, <3>3, <3>4, <3>5
  <2> QED BY <2>1, <2>2
<1>5. CASE Transport!StartReader
  BY <1>5 DEF Transport!StartReader
<1>6. CASE Transport!Identify
  BY <1>6 DEF Transport!Identify, Transport!Writes, Transport!Sends
<1>7. CASE Transport!Established
  BY <1>7 DEF Transport!Established
<1>8. CASE Transport!DaveReady
  BY <1>8 DEF Transport!DaveReady
<1> QED BY <1>1, <1>2, <1>3, <1>4, <1>5, <1>6, <1>7, <1>8

LEMMA CloseNextKeeps ==
  ASSUME TransportInv, TransportAssumed, Transport!CloseNext
  PROVE  TransportInv'
<1>1. /\ closing # Nobody /\ closing \in Closing
      /\ UNCHANGED <<setup, readyChan, isClosed, wsConn, udpConn, daveSess, reader, beats, voiceLossOnce, loss, reported,
                     gatewayAsked, speaking, heard, speakingMu, saying, ownerClosed, unwritable>>
  BY DEF TransportInv, TransportTypes, Transport!CloseNext, Transport!fields, Transport!lost, Transport!speech, Transport!network
<1>2. closing.next \in {1, 2, 3, 4} /\ closing.ws \in BOOLEAN /\ closing.udp \in BOOLEAN
  BY <1>1 DEF Closing
<1>3. /\ Transport!Resources[1] = "handlers" /\ Transport!Resources[2] = "dave"
      /\ Transport!Resources[3] = "ws" /\ Transport!Resources[4] = "udp"
  BY DEF Transport!Resources
<1>4. /\ handlers' = (handlers /\ Transport!Resources[closing.next] # "handlers")
      /\ sockets' = IF Transport!Resources[closing.next] \in {"ws", "udp"} /\ closing[Transport!Resources[closing.next]]
                    THEN sockets \ {Transport!Resources[closing.next]} ELSE sockets
      /\ closing' = IF closing.next = 4 THEN Nobody ELSE [closing EXCEPT !.next = @ + 1]
  BY DEF Transport!CloseNext
<1>5. handlers' \in BOOLEAN /\ (handlers' => handlers) /\ sockets' \subseteq {"ws", "udp"}
  BY <1>4 DEF TransportInv, TransportTypes
<1>6. closing' \in Closing \cup {Nobody}
  <2>1. CASE closing.next = 4
    BY <1>4, <2>1
  <2>2. CASE closing.next # 4
    <3>1. closing.next + 1 \in 1..4
      BY <1>2, <2>2
    <3> QED BY <1>1, <1>4, <2>2, <3>1 DEF Closing
  <2> QED BY <2>1, <2>2
<1>7. closing.next # 4 => /\ closing' # Nobody /\ closing'.next = closing.next + 1
                          /\ closing'.ws = closing.ws /\ closing'.udp = closing.udp
  <2>1. CASE closing.next # 4
    <3>1. closing' = [closing EXCEPT !.next = closing.next + 1]
      BY <1>4, <2>1
    <3>2. closing.next + 1 \in 1..4
      BY <1>2, <2>1
    <3>3. closing' \in Closing
      BY <1>1, <3>1, <3>2 DEF Closing
    <3> QED BY <1>1, <3>1, <3>3 DEF Closing, TransportAssumed
  <2> QED BY <2>1
<1>8. TransportTypes' /\ Asked' /\ Noticed' /\ Spoken'
  BY <1>1, <1>5, <1>6 DEF TransportInv, TransportTypes, Asked, Noticed, Spoken
<1>9. Open'
  <2>1. CASE closing.next = 1
    <3>1. Transport!Resources[closing.next] = "handlers"
      BY <1>3, <2>1
    <3>2. ~handlers' /\ sockets' = sockets
      BY <1>4, <3>1
    <3>3. closing'.next = 2
      BY <1>7, <2>1
    <3> QED BY <1>1, <1>7, <2>1, <3>2, <3>3 DEF TransportInv, Open, HeldByCloser
  <2>2. CASE closing.next = 2
    <3>1. handlers' = handlers /\ sockets' = sockets /\ closing'.next = 3
      BY <1>3, <1>4, <1>7, <2>2 DEF TransportInv, TransportTypes
    <3> QED BY <1>1, <1>7, <2>2, <3>1 DEF TransportInv, Open, HeldByCloser
  <2>3. CASE closing.next = 3
    <3>1. handlers' = handlers /\ closing'.next = 4
      BY <1>3, <1>4, <1>7, <2>3 DEF TransportInv, TransportTypes
    <3>2. sockets' = IF closing.ws THEN sockets \ {"ws"} ELSE sockets
      BY <1>3, <1>4, <2>3
    <3> QED BY <1>1, <1>2, <1>7, <2>3, <3>1, <3>2 DEF TransportInv, Open, HeldByCloser
  <2>4. CASE closing.next = 4
    <3>1. handlers' = handlers /\ closing' = Nobody
      BY <1>3, <1>4, <2>4 DEF TransportInv, TransportTypes
    <3>2. sockets' = IF closing.udp THEN sockets \ {"udp"} ELSE sockets
      BY <1>3, <1>4, <2>4
    <3> QED BY <1>1, <1>2, <2>4, <3>1, <3>2 DEF TransportInv, Open, HeldByCloser
  <2> QED BY <1>2, <2>1, <2>2, <2>3, <2>4
<1> QED BY <1>8, <1>9 DEF TransportInv

\* Closing, as whoever closes does it, leaves the invariant of what is open.
LEMMA ClosedIsOpen ==
  ASSUME TransportInv, TransportAssumed, NEW who \in {"setup", "reader", "loss", "owner"}, Transport!Close(who),
         setup' \in {setup, "error"}, setup = "handlers" => setup' = "error", setup = "adopt" => setup' = "adopt",
         reader' = reader \/ (reader = "discover" /\ reader' = "read"),
         sockets' = sockets, handlers' = handlers
  PROVE  Open'
<1>1. /\ isClosed' = TRUE /\ wsConn' = FALSE /\ udpConn' = FALSE
      /\ (isClosed => closing' = closing)
      /\ ~isClosed => closing' # Nobody /\ closing'.next = 1 /\ closing'.ws = wsConn /\ closing'.udp = udpConn
  BY CloseIs
<1>2. CASE isClosed
  BY <1>1, <1>2 DEF TransportInv, TransportTypes, Open, HeldByCloser
<1>3. CASE ~isClosed
  BY <1>1, <1>3 DEF TransportInv, TransportTypes, Open, HeldByCloser
<1> QED BY <1>2, <1>3

LEMMA ClosesKeep ==
  ASSUME TransportInv, TransportAssumed,
         \/ Transport!SetupFails \/ Transport!LossCloses \/ Transport!ReaderCloses \/ Transport!OwnerCloses
  PROVE  TransportInv'
<1>1. CASE Transport!SetupFails
  <2>1. /\ setup' = "error" /\ Transport!Close("setup")
        /\ UNCHANGED <<readyChan, handlers, sockets, reader, beats, voiceLossOnce, loss, reported, gatewayAsked, speaking,
                       heard, speakingMu, saying, ownerClosed, unwritable>>
    BY <1>1 DEF Transport!SetupFails, Transport!SetupRest, Transport!lost, Transport!speech, Transport!network
  <2>5. setup \in {"handlers", "wait", "dial", "identify", "ready", "dave"}
    BY <1>1 DEF Transport!SetupFails
  <2>2. Open'
    BY <2>1, <2>5, ClosedIsOpen
  <2>3. isClosed' = TRUE /\ wsConn' = FALSE /\ udpConn' = FALSE /\ daveSess' \in BOOLEAN
        /\ closing' \in Closing \cup {Nobody}
    BY <2>1, CloseIs
  <2>4. TransportTypes'
    BY <2>1, <2>3 DEF TransportInv, TransportTypes
  <2>6. Asked' /\ Noticed' /\ Spoken'
    BY <2>1, <2>3, <2>5 DEF TransportInv, TransportTypes, Asked, Noticed, Spoken
  <2> QED BY <2>2, <2>4, <2>6 DEF TransportInv
<1>2. CASE Transport!LossCloses
  <2>1. /\ loss = "close" /\ loss' = "report" /\ Transport!Close("loss")
        /\ UNCHANGED <<setup, readyChan, handlers, sockets, reader, beats, voiceLossOnce, reported, gatewayAsked, speaking,
                       heard, speakingMu, saying, ownerClosed, unwritable>>
    BY <1>2 DEF Transport!LossCloses, Transport!speech, Transport!network
  <2>2. setup # "handlers"
    BY <2>1 DEF TransportInv, TransportTypes, Noticed, Asked
  <2>3. Open'
    BY <2>1, <2>2, ClosedIsOpen
  <2>4. isClosed' = TRUE /\ wsConn' = FALSE /\ udpConn' = FALSE /\ daveSess' \in BOOLEAN
        /\ closing' \in Closing \cup {Nobody}
    BY <2>1, CloseIs
  <2>5. TransportTypes'
    BY <2>1, <2>4 DEF TransportInv, TransportTypes
  <2>6. Asked' /\ Noticed' /\ Spoken'
    BY <2>1, <2>4 DEF TransportInv, TransportTypes, Asked, Noticed, Spoken
  <2> QED BY <2>3, <2>5, <2>6 DEF TransportInv
<1>3. CASE Transport!ReaderCloses
  <2>1. /\ reader = "discover" \/ (Transport!Reads /\ gatewayAsked = 2 /\ ~readyChan)
        /\ reader' = "read" /\ Transport!Close("reader")
        /\ UNCHANGED <<setup, readyChan, handlers, sockets, beats, voiceLossOnce, loss, reported, gatewayAsked, speaking,
                       heard, speakingMu, saying, ownerClosed, unwritable>>
    BY <1>3 DEF Transport!ReaderCloses, Transport!ReaderRest, Transport!WriterRest, Transport!lost, Transport!speech
  <2>2. setup # "handlers" /\ ~readyChan /\ (reader = "read" \/ reader = "discover")
    BY <2>1 DEF TransportInv, TransportTypes, Asked, Transport!Reads, Transport!Reading
  <2>3. Open'
    BY <2>1, <2>2, ClosedIsOpen
  <2>4. isClosed' = TRUE /\ wsConn' = FALSE /\ udpConn' = FALSE /\ daveSess' \in BOOLEAN
        /\ closing' \in Closing \cup {Nobody}
    BY <2>1, CloseIs
  <2>5. TransportTypes'
    BY <2>1, <2>4 DEF TransportInv, TransportTypes
  <2>6. Asked' /\ Noticed' /\ Spoken'
    BY <2>1, <2>2, <2>4 DEF TransportInv, TransportTypes, Asked, Noticed, Spoken
  <2> QED BY <2>3, <2>5, <2>6 DEF TransportInv
<1>4. CASE Transport!OwnerCloses
  <2>1. /\ setup = "open" /\ ownerClosed' = TRUE /\ Transport!Close("owner")
        /\ UNCHANGED <<setup, readyChan, handlers, sockets, reader, beats, voiceLossOnce, loss, reported, gatewayAsked,
                       speaking, heard, speakingMu, saying, unwritable>>
    BY <1>4 DEF Transport!OwnerCloses, Transport!lost, Transport!speech, Transport!network
  <2>2. Open'
    BY <2>1, ClosedIsOpen
  <2>3. isClosed' = TRUE /\ wsConn' = FALSE /\ udpConn' = FALSE /\ daveSess' \in BOOLEAN
        /\ closing' \in Closing \cup {Nobody}
    BY <2>1, CloseIs
  <2>4. TransportTypes'
    BY <2>1, <2>3 DEF TransportInv, TransportTypes
  <2>5. Asked' /\ Noticed' /\ Spoken'
    BY <2>1, <2>3 DEF TransportInv, TransportTypes, Asked, Noticed, Spoken
  <2> QED BY <2>2, <2>4, <2>5 DEF TransportInv
<1> QED BY <1>1, <1>2, <1>3, <1>4

\* A connection that cannot be written to stays so.
Unwritten == unwritable' \in BOOLEAN /\ (unwritable => unwritable')

\* A step that leaves alone what the invariant is about; heartbeats may start.
LEMMA TransportStands ==
  ASSUME TransportInv, beats' = beats \/ (setup # "handlers" /\ beats' = "on"),
         Unwritten,
         UNCHANGED <<setup, readyChan, isClosed, wsConn, udpConn, daveSess, closing, handlers, sockets, reader, loss,
                     voiceLossOnce, reported, gatewayAsked, speaking, heard, speakingMu, saying, ownerClosed>>
  PROVE  TransportInv'
BY DEF TransportInv, TransportTypes, Open, HeldByCloser, Asked, Noticed, Spoken, Unwritten

LEMMA ReadingIs ==
  ASSUME TransportInv, Transport!Reads
  PROVE  reader = "read" /\ wsConn /\ ~isClosed /\ "ws" \in sockets /\ setup # "handlers"
BY DEF TransportInv, TransportTypes, Open, Asked, Transport!Reads, Transport!Reading

LEMMA LossLeaves ==
  ASSUME TransportInv, Transport!TriggerVoiceLoss, setup # "handlers", Unwritten, beats' \in {beats, "done"},
         UNCHANGED <<setup, readyChan, isClosed, wsConn, udpConn, daveSess, closing, handlers, sockets,
                     gatewayAsked, speaking, heard, speakingMu, saying, ownerClosed>>,
         reader' = reader \/ (reader = "read" /\ reader' = "done")
  PROVE  TransportInv'
<1>1. /\ voiceLossOnce' = TRUE /\ reported' = reported
      /\ loss' = IF voiceLossOnce \/ isClosed THEN loss ELSE "close"
  BY LossIs
<1>2. TransportTypes'
  BY <1>1 DEF TransportInv, TransportTypes
<1>3. Open'
  BY DEF TransportInv, Open, HeldByCloser
<1>4. Asked' /\ Spoken'
  BY DEF TransportInv, TransportTypes, Asked, Spoken, Unwritten
<1>5. Noticed'
  <2>1. CASE voiceLossOnce \/ isClosed
    BY <1>1, <2>1 DEF TransportInv, TransportTypes, Noticed
  <2>2. CASE ~voiceLossOnce /\ ~isClosed
    <3>1. loss' = "close" /\ loss # "done"
      BY <1>1, <2>2 DEF TransportInv, Noticed
    <3> QED BY <1>1, <2>2, <3>1 DEF TransportInv, TransportTypes, Noticed
  <2> QED BY <2>1, <2>2
<1> QED BY <1>2, <1>3, <1>4, <1>5 DEF TransportInv

LEMMA LossesKeep ==
  ASSUME TransportInv, TransportAssumed,
         \/ Transport!LossReports \/ Transport!ServerMoves \/ Transport!ReaderEnds \/ Transport!InvalidCommit
         \/ Transport!HeartbeatFails
  PROVE  TransportInv'
<1>1. CASE Transport!LossReports
  <2>1. /\ loss = "report" /\ loss' = "done" /\ reported' = reported + 1
        /\ UNCHANGED <<setup, readyChan, isClosed, wsConn, udpConn, daveSess, closing, handlers, sockets, reader, beats,
                       voiceLossOnce, gatewayAsked, speaking, heard, speakingMu, saying, ownerClosed, unwritable>>
    BY <1>1 DEF Transport!LossReports, Transport!closed, Transport!fields, Transport!speech,
                Transport!network, Transport!WriterRest
  <2>2. TransportTypes' /\ Asked' /\ Noticed' /\ Spoken'
    BY <2>1 DEF TransportInv, TransportTypes, Asked, Noticed, Spoken
  <2>3. Open'
    BY <2>1 DEF TransportInv, Open, HeldByCloser
  <2> QED BY <2>2, <2>3 DEF TransportInv
<1>2. CASE Transport!ServerMoves
  <2>1. /\ Transport!TriggerVoiceLoss /\ handlers
        /\ UNCHANGED <<setup, readyChan, isClosed, wsConn, udpConn, daveSess, closing, handlers, sockets, reader, beats,
                       gatewayAsked, speaking, heard, speakingMu, saying, ownerClosed, unwritable>>
    BY <1>2 DEF Transport!ServerMoves, Transport!closed, Transport!fields, Transport!speech,
                Transport!network, Transport!WriterRest
  <2> QED BY <2>1, LossLeaves DEF TransportInv, Noticed, Spoken, Unwritten
<1>3. CASE Transport!ReaderEnds
  <2>1. /\ reader = "read" /\ reader' = "done"
        /\ UNCHANGED <<setup, readyChan, isClosed, wsConn, udpConn, daveSess, closing, handlers, sockets, beats,
                       gatewayAsked, speaking, heard, speakingMu, saying, ownerClosed, unwritable>>
    BY <1>3 DEF Transport!ReaderEnds, Transport!ReaderRest, Transport!closed, Transport!fields, Transport!speech,
                Transport!network, Transport!WriterRest
  <2>2. setup \notin {"handlers", "wait", "dial", "adopt", "start"}
    BY <2>1 DEF TransportInv, TransportTypes, Asked
  <2>3. CASE Transport!TriggerVoiceLoss
    BY <2>1, <2>2, <2>3, LossLeaves DEF TransportInv, Spoken, Unwritten
  <2>4. CASE UNCHANGED Transport!lost /\ (~wsConn \/ isClosed)
    <3>1. isClosed
      BY <2>2, <2>4 DEF TransportInv, TransportTypes, Open
    <3>2. UNCHANGED <<loss, voiceLossOnce, reported>>
      BY <2>4 DEF Transport!lost
    <3>3. TransportTypes' /\ Asked' /\ Noticed' /\ Spoken'
      BY <2>1, <2>2, <3>1, <3>2 DEF TransportInv, TransportTypes, Asked, Noticed, Spoken
    <3>4. Open'
      BY <2>1 DEF TransportInv, Open, HeldByCloser
    <3> QED BY <3>3, <3>4 DEF TransportInv
  <2> QED BY <1>3, <2>3, <2>4 DEF Transport!ReaderEnds
<1>4. CASE Transport!InvalidCommit
  <2>1. /\ Transport!Reads /\ Unwritten /\ (Transport!TriggerVoiceLoss \/ UNCHANGED Transport!lost)
        /\ UNCHANGED <<setup, readyChan, isClosed, wsConn, udpConn, daveSess, closing, handlers, sockets, reader, beats,
                       gatewayAsked, speaking, heard, speakingMu, saying, ownerClosed>>
    BY <1>4 DEF Transport!InvalidCommit, Transport!WriterRest, Transport!WriteFails, TransportInv, Spoken, Unwritten, Transport!closed, Transport!fields, Transport!speech
  <2>2. CASE Transport!TriggerVoiceLoss
    BY <2>1, <2>2, ReadingIs, LossLeaves
  <2>3. CASE UNCHANGED Transport!lost
    BY <2>1, <2>3, TransportStands DEF Transport!lost
  <2> QED BY <2>1, <2>2, <2>3
<1>5. CASE Transport!HeartbeatFails
  <2>1. /\ beats = "on" /\ beats' = "done" /\ Unwritten /\ (Transport!TriggerVoiceLoss \/ (isClosed /\ UNCHANGED Transport!lost))
        /\ UNCHANGED <<setup, readyChan, isClosed, wsConn, udpConn, daveSess, closing, handlers, sockets, reader,
                       gatewayAsked, speaking, heard, speakingMu, saying, ownerClosed>>
    BY <1>5 DEF Transport!HeartbeatFails, Transport!WriteFails, TransportInv, Spoken, Unwritten, Transport!BeatRest, Transport!closed, Transport!fields, Transport!speech
  <2>2. setup # "handlers"
    BY <2>1 DEF TransportInv, Noticed
  <2>3. CASE Transport!TriggerVoiceLoss
    BY <2>1, <2>2, <2>3, LossLeaves
  <2>4. CASE isClosed /\ UNCHANGED Transport!lost
    <3>1. TransportTypes' /\ Asked' /\ Noticed' /\ Spoken'
      BY <2>1, <2>2, <2>4 DEF TransportInv, TransportTypes, Asked, Noticed, Spoken, Unwritten, Transport!lost
    <3>2. Open'
      BY <2>1 DEF TransportInv, Open, HeldByCloser
    <3> QED BY <3>1, <3>2 DEF TransportInv
  <2> QED BY <2>1, <2>3, <2>4
<1> QED BY <1>1, <1>2, <1>3, <1>4, <1>5

LEMMA ReaderKeeps ==
  ASSUME TransportInv, TransportAssumed,
         \/ Transport!Ready \/ Transport!AdoptUDP \/ Transport!SelectProtocol \/ Transport!ClearUDP
         \/ Transport!SessionDescription \/ Transport!CloseReadyChan \/ Transport!ExecuteTransition
  PROVE  TransportInv'
<1>1. /\ UNCHANGED <<setup, isClosed, wsConn, daveSess, closing, handlers, beats, loss, voiceLossOnce, reported, speaking,
                     heard, speakingMu, saying, ownerClosed>>
      /\ Unwritten /\ speakingMu # "reader" /\ setup \notin {"handlers", "wait", "dial", "adopt", "start"}
  BY ReadingIs DEF TransportInv, TransportTypes, Asked, Spoken, Unwritten, Transport!WriterRest, Transport!WriteFails,
     Transport!Ready, Transport!AdoptUDP, Transport!SelectProtocol, Transport!ClearUDP, Transport!SessionDescription,
     Transport!CloseReadyChan, Transport!ExecuteTransition, Transport!ReaderRest, Transport!closed, Transport!fields,
     Transport!speech, Transport!lost
<1>2. CASE Transport!Ready
  <2>1. /\ reader = "read" /\ reader' = "adopt" /\ sockets' = sockets \cup {"udp"} /\ gatewayAsked = 1
        /\ UNCHANGED <<udpConn, readyChan, gatewayAsked>>
    BY <1>2, ReadingIs DEF Transport!Ready, Transport!closed, Transport!fields
  <2>2. TransportTypes' /\ Asked' /\ Noticed' /\ Spoken'
    BY <1>1, <2>1 DEF TransportInv, TransportTypes, Asked, Noticed, Spoken, Unwritten
  <2>3. Open'
    BY <1>1, <2>1 DEF TransportInv, TransportTypes, Open, HeldByCloser
  <2> QED BY <2>2, <2>3 DEF TransportInv
<1>3. CASE Transport!AdoptUDP
  <2>1. /\ reader = "adopt" /\ UNCHANGED <<readyChan, gatewayAsked>>
        /\ IF isClosed THEN sockets' = sockets \ {"udp"} /\ reader' = "read" /\ udpConn' = udpConn
                       ELSE udpConn' = TRUE /\ reader' = "discover" /\ sockets' = sockets
    BY <1>3 DEF Transport!AdoptUDP
  <2>2. sockets' \subseteq {"ws", "udp"} /\ udpConn' \in BOOLEAN /\ reader' \in {"read", "discover"}
    BY <2>1 DEF TransportInv, TransportTypes
  <2>3. TransportTypes'
    BY <1>1, <2>1, <2>2 DEF TransportInv, TransportTypes
  <2>4. Asked' /\ Noticed' /\ Spoken'
    BY <1>1, <2>1, <2>2 DEF TransportInv, Asked, Noticed, Spoken, Unwritten
  <2>5. Open'
    BY <1>1, <2>1 DEF TransportInv, TransportTypes, Open, HeldByCloser
  <2> QED BY <2>3, <2>4, <2>5 DEF TransportInv
<1>4. CASE Transport!SelectProtocol
  <2>1. reader = "discover" /\ reader' = "read" /\ gatewayAsked' = 2 /\ UNCHANGED <<udpConn, sockets, readyChan>>
    BY <1>4 DEF Transport!SelectProtocol, Transport!closed, Transport!fields
  <2>2. setup # "identify" \/ isClosed
    BY <2>1 DEF TransportInv, TransportTypes, Asked
  <2>3. TransportTypes' /\ Asked' /\ Noticed' /\ Spoken'
    BY <1>1, <2>1, <2>2 DEF TransportInv, TransportTypes, Asked, Noticed, Spoken, Unwritten
  <2>4. Open'
    BY <1>1, <2>1 DEF TransportInv, TransportTypes, Open, HeldByCloser
  <2> QED BY <2>3, <2>4 DEF TransportInv
<1>5. CASE Transport!ClearUDP
  <2>1. /\ reader = "discover" /\ reader' = "read" /\ udpConn' = FALSE /\ sockets' = sockets \ {"udp"}
        /\ UNCHANGED <<readyChan, gatewayAsked>>
    BY <1>5 DEF Transport!ClearUDP
  <2>2. sockets' \subseteq {"ws", "udp"} /\ udpConn' \in BOOLEAN /\ reader' \in {"read", "discover"}
    BY <2>1 DEF TransportInv, TransportTypes
  <2>3. TransportTypes'
    BY <1>1, <2>1, <2>2 DEF TransportInv, TransportTypes
  <2>4. Asked' /\ Noticed' /\ Spoken'
    BY <1>1, <2>1, <2>2 DEF TransportInv, Asked, Noticed, Spoken, Unwritten
  <2>5. Open'
    BY <1>1, <2>1 DEF TransportInv, TransportTypes, Open, HeldByCloser
  <2> QED BY <2>3, <2>4, <2>5 DEF TransportInv
<1>6. CASE Transport!SessionDescription
  <2>1. /\ reader = "read" /\ reader' = "describe" /\ gatewayAsked = 2
        /\ UNCHANGED <<udpConn, sockets, readyChan, gatewayAsked>>
    BY <1>6, ReadingIs DEF Transport!SessionDescription, Transport!closed, Transport!fields
  <2>2. TransportTypes' /\ Asked' /\ Noticed' /\ Spoken'
    BY <1>1, <2>1 DEF TransportInv, TransportTypes, Asked, Noticed, Spoken, Unwritten
  <2>3. Open'
    BY <1>1, <2>1 DEF TransportInv, TransportTypes, Open, HeldByCloser
  <2> QED BY <2>2, <2>3 DEF TransportInv
<1>7. CASE Transport!CloseReadyChan
  <2>1. /\ reader = "describe" /\ reader' = "read" /\ readyChan' = (readyChan \/ ~isClosed)
        /\ UNCHANGED <<udpConn, sockets, gatewayAsked>>
    BY <1>7 DEF Transport!CloseReadyChan, Transport!closed, Transport!fields
  <2>2. readyChan' \in BOOLEAN /\ (readyChan => readyChan') /\ (isClosed /\ readyChan' => readyChan)
    BY <2>1 DEF TransportInv, TransportTypes
  <2>3. TransportTypes' /\ Asked' /\ Noticed' /\ Spoken'
    BY <1>1, <2>1, <2>2 DEF TransportInv, TransportTypes, Asked, Noticed, Spoken, Unwritten
  <2>4. Open'
    BY <1>1, <2>1 DEF TransportInv, TransportTypes, Open, HeldByCloser
  <2> QED BY <2>3, <2>4 DEF TransportInv
<1>8. CASE Transport!ExecuteTransition
  <2>1. /\ reader = "read" /\ reader' = "resend" /\ UNCHANGED <<udpConn, sockets, readyChan, gatewayAsked>>
    BY <1>8, ReadingIs DEF Transport!ExecuteTransition, Transport!closed, Transport!fields
  <2>2. TransportTypes' /\ Asked' /\ Noticed' /\ Spoken'
    BY <1>1, <2>1 DEF TransportInv, TransportTypes, Asked, Noticed, Spoken, Unwritten
  <2>3. Open'
    BY <1>1, <2>1 DEF TransportInv, TransportTypes, Open, HeldByCloser
  <2> QED BY <2>2, <2>3 DEF TransportInv
<1> QED BY <1>2, <1>3, <1>4, <1>5, <1>6, <1>7, <1>8

LEMMA SpeechKeeps ==
  ASSUME TransportInv, TransportAssumed,
         \/ \E b \in {"yes", "no"} : Transport!SetSpeaking(b)
         \/ Transport!ResendSpeaking
         \/ \E who \in {"owner", "reader"} : Transport!Say(who)
  PROVE  TransportInv'
<1>1. Unwritten /\ UNCHANGED <<setup, readyChan, isClosed, wsConn, udpConn, daveSess, closing, handlers, sockets, beats, loss,
                  voiceLossOnce, reported, gatewayAsked, ownerClosed>>
  BY DEF TransportInv, Spoken, Unwritten, Transport!WriteFails,
         Transport!SetSpeaking, Transport!ResendSpeaking, Transport!Say, Transport!SpeechRest, Transport!closed,
         Transport!fields, Transport!lost
<1>2. reader' = reader \/ (reader \in {"resend", "saying"} /\ reader' \in {"saying", "read"})
  BY DEF TransportInv, Spoken, Transport!SetSpeaking, Transport!ResendSpeaking, Transport!Say
<1>3. TransportTypes' /\ Asked' /\ Noticed'
  BY <1>1, <1>2 DEF TransportInv, TransportTypes, Asked, Noticed
<1>4. Open'
  BY <1>1, <1>2 DEF TransportInv, TransportTypes, Open, HeldByCloser
<1>5. Spoken'
  <2>1. ASSUME NEW b \in {"yes", "no"}, Transport!SetSpeaking(b) PROVE Spoken'
    BY <1>1, <2>1 DEF TransportInv, Spoken, Unwritten, TransportAssumed, Transport!SetSpeaking
  <2>2. CASE Transport!ResendSpeaking
    BY <1>1, <2>2 DEF TransportInv, Spoken, Unwritten, TransportAssumed, Transport!ResendSpeaking, Transport!speech,
                      Transport!Unset
  <2>3. ASSUME NEW who \in {"owner", "reader"}, Transport!Say(who) PROVE Spoken'
    <3>1. heard' = saying \/ unwritable' \/ ~wsConn
      BY <2>3 DEF TransportInv, TransportTypes, Open, Transport!Say, Transport!WriteFails, Transport!Sends
    <3> QED BY <1>1, <2>3, <3>1 DEF TransportInv, Spoken, Unwritten, TransportAssumed, Transport!Say
  <2> QED BY <2>1, <2>2, <2>3
<1> QED BY <1>3, <1>4, <1>5 DEF TransportInv

LEMMA TransportKeeps ==
  ASSUME TransportInv, TransportAssumed, [Transport!Next]_(Transport!vars)
  PROVE  TransportInv'
<1>1. CASE UNCHANGED Transport!vars
  BY <1>1, TransportStands DEF TransportInv, Spoken, Unwritten, Transport!vars, Transport!closed, Transport!fields,
     Transport!lost, Transport!speech, Transport!network
<1>2. CASE Transport!Hello \/ Transport!Ack \/ Transport!Transition \/ Transport!Heartbeat \/ Transport!Break
  <2>1. beats' = beats \/ (setup # "handlers" /\ beats' = "on")
    BY <1>2, ReadingIs DEF Transport!Hello, Transport!Ack, Transport!Transition, Transport!Heartbeat, Transport!Break
  <2>2. UNCHANGED <<setup, readyChan, isClosed, wsConn, udpConn, daveSess, closing, handlers, sockets, reader, loss,
                    voiceLossOnce, reported, gatewayAsked, speaking, heard, speakingMu, saying, ownerClosed>>
    BY <1>2 DEF Transport!Hello, Transport!Ack, Transport!Transition, Transport!Heartbeat, Transport!Break,
                Transport!ReaderRest, Transport!WriterRest, Transport!BeatRest, Transport!closed, Transport!fields, Transport!lost,
                Transport!speech
  <2>3. Unwritten
    BY <1>2 DEF TransportInv, Spoken, Unwritten, Transport!Hello, Transport!Ack, Transport!Transition, Transport!Heartbeat,
                Transport!Break, Transport!ReaderRest, Transport!WriteFails
  <2> QED BY <2>1, <2>2, <2>3, TransportStands
<1> QED BY <1>1, <1>2, CloseNextKeeps, ClosesKeep, SetupKeeps, LossesKeep, ReaderKeeps, SpeechKeeps DEF Transport!Next

LEMMA TransportInit ==
  ASSUME TransportAssumed, Transport!Init
  PROVE  TransportInv
BY DEF TransportAssumed, Transport!Init, TransportInv, TransportTypes, Open, HeldByCloser, Asked, Noticed, Spoken,
       Transport!Unset

LEMMA TransportFollows ==
  ASSUME TransportInv
  PROVE  Transport!NothingStaysOpen /\ Transport!LossIsReported /\ Transport!SpeakingIsCurrent
<1>1. Transport!NothingStaysOpen
  BY DEF TransportInv, TransportTypes, Open, HeldByCloser, Transport!NothingStaysOpen, Transport!Stopped
<1>2. Transport!LossIsReported
  BY DEF TransportInv, TransportTypes, Asked, Noticed, Transport!LossIsReported, Transport!Stopped
<1>3. Transport!SpeakingIsCurrent
  BY DEF TransportInv, TransportTypes, Noticed, Spoken, Transport!SpeakingIsCurrent, Transport!Unset
<1> QED BY <1>1, <1>2, <1>3
-----------------------------------------------------------------------------
(***************************************************************************)
(* Idle sessions.  What a goroutine captured of a session lies in its      *)
(* past: a join or a start with its epoch finds it as it was.  A session   *)
(* that was given up is in nobody's hands but those of a command that had  *)
(* looked it up, and so cannot be connected again.                         *)
(***************************************************************************)

\* The variables by name.
radios == s2
humans == s1
made == s3
current == s4
noted == s5
alarms == s6
idleJobs == s7
sweeper == s8
shutdown == s9
missed == s12
held == s13
USE DEF humans, radios, made, current, noted, alarms, idleJobs, sweeper, shutdown, missed, held

Radios == 1..MaxSessions

Radio == [epoch : Nat \ {0}, phase : {"idle", "playing", "paused"}, cause : {"none", "manual", "empty channel"},
          connected : BOOLEAN, stay : BOOLEAN, old : BOOLEAN]
IdleJob == [pc : {"resting", "evaluate", "callback", "timeout", "got", "join", "start"},
            session : 0..MaxSessions, epoch : Nat, empty : BOOLEAN]

IdleTypes ==
  /\ made \in 0..MaxSessions /\ current \in 0..made
  /\ radios \in [Radios -> Radio] /\ idleJobs \in [Jobs -> IdleJob]
  /\ noted \in 0..MaxTimers /\ alarms \in [1..MaxTimers -> Nat]
  /\ sweeper \in {"waits", "drops", "ended"}
  /\ shutdown \in {"up", "closed", "stopped", "done", "gave up"}

RadioIs(id) ==
  /\ radios[id].connected => id <= made
  /\ ~radios[id].connected => radios[id].phase = "idle" /\ radios[id].cause = "none"
  /\ radios[id].phase = "playing" => radios[id].cause = "none"

\* What a goroutine knows of the session it works for.
Captured(j) ==
  LET q == idleJobs[j] IN
  /\ q.pc \in {"evaluate", "got", "join", "start"} => q.session >= 1 /\ q.session <= made
  /\ q.pc = "evaluate" => /\ q.session = current /\ sweeper # "drops"
                          /\ ~radios[q.session].old \/ radios[q.session].connected
  /\ q.pc = "join" => /\ ~radios[q.session].old /\ q.epoch <= radios[q.session].epoch
                      /\ q.epoch = radios[q.session].epoch => ~radios[q.session].connected
  /\ q.pc = "start" => /\ q.epoch <= radios[q.session].epoch
                       /\ q.epoch = radios[q.session].epoch => radios[q.session].connected

Ended == {"stopped", "done", "gave up"}
GivenUp(id) == id <= made /\ (id # current \/ sweeper = "drops" \/ shutdown \in Ended)
\* Nobody is going to connect the session.
Abandoned(id) ==
  /\ ~radios[id].connected
  /\ \A j \in Jobs : idleJobs[j].session = id
       => idleJobs[j].pc # "got" /\ (idleJobs[j].pc = "join" => idleJobs[j].epoch # radios[id].epoch)

\* An epoch whose timer runs, or has fired and is being handled.
Timed(e) ==
  \/ \E t \in 1..MaxTimers : alarms[t] = e
  \/ \E j \in Jobs : idleJobs[j].pc \in {"callback", "timeout"} /\ idleJobs[j].epoch = e
Bounded ==
  current # 0 /\ radios[current].cause = "empty channel" /\ shutdown = "up" /\ current \notin missed
    => Timed(radios[current].epoch)

Quiet ==
  shutdown = "done" => sweeper = "ended" /\ \A j \in Jobs : idleJobs[j].pc \notin {"timeout", "start"}

IdleInv ==
  /\ IdleTypes /\ Bounded /\ Quiet
  /\ \A id \in Radios : RadioIs(id) /\ (GivenUp(id) /\ id \notin held => Abandoned(id))
  /\ \A j \in Jobs : Captured(j)

IdleAssumed == MaxSessions \in Nat /\ MaxTimers \in Nat

\* A session goes on as it was, perhaps pausing or resuming, or it is stopped.
GoesOn(id) ==
  /\ radios'[id].epoch = radios[id].epoch /\ radios'[id].connected = radios[id].connected
  /\ radios'[id].old => radios[id].old
  /\ radios'[id].phase = "playing" => radios'[id].cause = "none"
  /\ ~radios[id].connected => radios'[id].phase = "idle" /\ radios'[id].cause = "none"
IsStopped(id) ==
  /\ radios'[id].epoch > radios[id].epoch /\ ~radios'[id].connected /\ ~radios'[id].old
  /\ radios'[id].phase = "idle" /\ radios'[id].cause = "none"

LEMMA TypesOfRadio ==
  ASSUME IdleInv, NEW id \in Radios
  PROVE  /\ radios[id] \in Radio /\ radios[id].epoch \in Nat /\ radios[id].epoch # 0
         /\ radios[id].connected \in BOOLEAN /\ radios[id].old \in BOOLEAN /\ radios[id].stay \in BOOLEAN
BY DEF IdleInv, IdleTypes, Radio

LEMMA TypesOfJob ==
  ASSUME IdleInv, IdleAssumed, NEW j \in Jobs
  PROVE  /\ idleJobs[j] \in IdleJob /\ idleJobs[j].session \in Nat /\ idleJobs[j].epoch \in Nat
         /\ idleJobs[j].empty \in BOOLEAN
         /\ made \in Nat /\ made <= MaxSessions
         /\ idleJobs[j].pc \in {"evaluate", "got", "join", "start"} => idleJobs[j].session \in Radios
<1>1. idleJobs[j] \in IdleJob /\ made \in 0..MaxSessions /\ Captured(j)
  BY DEF IdleInv, IdleTypes
<1>2. idleJobs[j].session \in 0..MaxSessions /\ idleJobs[j].epoch \in Nat /\ idleJobs[j].empty \in BOOLEAN
  BY <1>1 DEF IdleJob
<1> QED BY <1>1, <1>2 DEF Captured, Radios, IdleAssumed

LEMMA SettledKeeps ==
  ASSUME IdleInv, IdleAssumed, radios' \in [Radios -> Radio], \A id \in Radios : GoesOn(id) \/ IsStopped(id),
         idleJobs' \in [Jobs -> IdleJob],
         \A j \in Jobs : \/ idleJobs'[j] = idleJobs[j]
                         \/ idleJobs'[j].pc \in {"resting", "callback"}
                         \/ idleJobs'[j].pc = "timeout" /\ shutdown = "up",
         noted' \in 0..MaxTimers, alarms' \in [1..MaxTimers -> Nat],
         UNCHANGED <<made, current, sweeper, shutdown, held>>, Bounded'
  PROVE  IdleInv'
<1>1. IdleTypes'
  BY DEF IdleInv, IdleTypes
<1>2. Quiet'
  BY DEF IdleInv, Quiet
<1>3. ASSUME NEW id \in Radios PROVE RadioIs(id)'
  BY <1>3, TypesOfRadio DEF IdleInv, RadioIs, GoesOn, IsStopped
<1>4. ASSUME NEW j \in Jobs PROVE Captured(j)'
  <2>1. CASE idleJobs'[j].pc \notin {"evaluate", "got", "join", "start"}
    BY <2>1 DEF Captured
  <2>2. CASE idleJobs'[j].pc \in {"evaluate", "got", "join", "start"}
    <3>1. idleJobs'[j] = idleJobs[j] /\ Captured(j)
      BY <2>2 DEF IdleInv
    <3> DEFINE id == idleJobs[j].session
    <3>2. id \in Radios /\ idleJobs[j].epoch \in Nat
      BY <2>2, <3>1, TypesOfJob
    <3>3. /\ radios[id].epoch \in Nat /\ radios'[id].epoch \in Nat
          /\ radios[id].connected \in BOOLEAN /\ radios'[id].connected \in BOOLEAN
          /\ GoesOn(id) \/ IsStopped(id)
      BY <3>2, TypesOfRadio DEF Radio
    <3> HIDE DEF id
    <3>4. idleJobs[j].session = id
      BY DEF id
    <3>5. CASE GoesOn(id)
      BY <3>1, <3>3, <3>4, <3>5 DEF Captured, GoesOn
    <3>6. CASE IsStopped(id)
      BY <3>1, <3>2, <3>3, <3>4, <3>6 DEF Captured, IsStopped
    <3> QED BY <3>3, <3>5, <3>6
  <2> QED BY <2>1, <2>2
<1>5. ASSUME NEW id \in Radios, GivenUp(id)', id \notin held' PROVE Abandoned(id)'
  <2>1. Abandoned(id)
    BY <1>5 DEF IdleInv, GivenUp
  <2>2. ~radios'[id].connected
    BY <2>1 DEF Abandoned, GoesOn, IsStopped
  <2>3. ASSUME NEW j \in Jobs, idleJobs'[j].session = id
        PROVE  idleJobs'[j].pc # "got" /\ (idleJobs'[j].pc = "join" => idleJobs'[j].epoch # radios'[id].epoch)
    <3>1. CASE idleJobs'[j] = idleJobs[j]
      <4>1. idleJobs[j].pc # "got" /\ (idleJobs[j].pc = "join" => idleJobs[j].epoch # radios[id].epoch)
        BY <2>1, <2>3, <3>1 DEF Abandoned
      <4>2. idleJobs[j].pc = "join" => idleJobs[j].epoch <= radios[id].epoch
        BY <2>3, <3>1 DEF IdleInv, Captured
      <4>3. radios[id].epoch \in Nat /\ radios'[id].epoch \in Nat /\ idleJobs[j].epoch \in Nat
        BY TypesOfRadio, TypesOfJob DEF Radio
      <4> QED BY <3>1, <4>1, <4>2, <4>3 DEF GoesOn, IsStopped
    <3> QED BY <3>1
  <2> QED BY <2>2, <2>3 DEF Abandoned
<1> QED BY <1>1, <1>2, <1>3, <1>4, <1>5 DEF IdleInv

LEMMA RestingIs == ASSUME IdleAssumed PROVE Leaving!Resting \in IdleJob /\ Leaving!Resting.pc = "resting"
BY DEF IdleAssumed, Leaving!Resting, IdleJob

LEMMA StoppedIs ==
  ASSUME IdleInv, NEW id \in Radios
  PROVE  /\ Leaving!Stopped(id) \in Radio /\ Leaving!Stopped(id).epoch = radios[id].epoch + 1
         /\ ~Leaving!Stopped(id).connected /\ ~Leaving!Stopped(id).old
         /\ Leaving!Stopped(id).phase = "idle" /\ Leaving!Stopped(id).cause = "none"
<1> DEFINE e == radios[id].epoch + 1
<1>1. e \in Nat \ {0}
  BY TypesOfRadio
<1>2. Leaving!Stopped(id) = [epoch |-> e, phase |-> "idle", cause |-> "none", connected |-> FALSE, stay |-> FALSE,
                             old |-> FALSE]
  <2>1. Leaving!Stopped(id) = [Leaving!NewSession EXCEPT !.epoch = e]
    BY DEF Leaving!Stopped
  <2> HIDE DEF e
  <2> QED BY <2>1 DEF Leaving!NewSession
<1> HIDE DEF e
<1>3. Leaving!Stopped(id) \in Radio
  BY <1>1, <1>2 DEF Radio
<1>4. e = radios[id].epoch + 1
  BY DEF e
<1> QED BY <1>2, <1>3, <1>4

\* A session that changes so, and nothing else that a timer is for.
LEMMA OneRadio ==
  ASSUME IdleInv, IdleAssumed, NEW id \in Radios, NEW s \in Radio, radios' = [radios EXCEPT ![id] = s],
         GoesOn(id) \/ IsStopped(id)
  PROVE  /\ radios' \in [Radios -> Radio] /\ \A i \in Radios : GoesOn(i) \/ IsStopped(i)
         /\ radios'[id] = s /\ \A i \in Radios \ {id} : radios'[i] = radios[i]
<1>1. /\ radios' \in [Radios -> Radio]
      /\ radios'[id] = s /\ \A i \in Radios \ {id} : radios'[i] = radios[i]
  BY DEF IdleInv, IdleTypes
<1>2. ASSUME NEW i \in Radios \ {id} PROVE GoesOn(i)
  BY <1>1, TypesOfRadio DEF IdleInv, RadioIs, GoesOn
<1> QED BY <1>1, <1>2

LEMMA SameRadios ==
  ASSUME IdleInv, UNCHANGED radios
  PROVE  radios' \in [Radios -> Radio] /\ \A id \in Radios : GoesOn(id) \/ IsStopped(id)
BY TypesOfRadio DEF IdleInv, IdleTypes, RadioIs, GoesOn

\* Nothing changes of the timers, and who handles one still does.
LEMMA BoundedStays ==
  ASSUME IdleInv, IdleAssumed, UNCHANGED <<current, alarms, shutdown>>, missed \subseteq missed',
         \A j \in Jobs : idleJobs[j].pc \in {"callback", "timeout"} => idleJobs'[j] = idleJobs[j],
         current # 0 => \/ radios'[current].cause # "empty channel"
                        \/ /\ radios'[current].cause = radios[current].cause
                           /\ radios'[current].epoch = radios[current].epoch
  PROVE  Bounded'
<1>1. Bounded
  BY DEF IdleInv
<1>2. ASSUME current # 0, radios'[current].cause = "empty channel", shutdown = "up", current \notin missed'
      PROVE  Timed(radios[current].epoch) /\ radios'[current].epoch = radios[current].epoch
  BY <1>1, <1>2 DEF Bounded
<1>3. ASSUME NEW e, Timed(e) PROVE \/ \E t \in 1..MaxTimers : alarms'[t] = e
                                   \/ \E j \in Jobs : idleJobs'[j].pc \in {"callback", "timeout"} /\ idleJobs'[j].epoch = e
  BY <1>3 DEF Timed
<1> QED BY <1>2, <1>3 DEF Bounded, Timed

\* A goroutine comes to rest.
LEMMA Rests ==
  ASSUME IdleInv, IdleAssumed, NEW j \in Jobs, Leaving!End(j)
  PROVE  /\ idleJobs' \in [Jobs -> IdleJob] /\ idleJobs'[j].pc = "resting"
         /\ \A k \in Jobs \ {j} : idleJobs'[k] = idleJobs[k]
BY RestingIs DEF IdleInv, IdleTypes, Leaving!End

LEMMA TimersStay ==
  ASSUME IdleInv, UNCHANGED <<noted, alarms>>
  PROVE  noted' \in 0..MaxTimers /\ alarms' \in [1..MaxTimers -> Nat]
BY DEF IdleInv, IdleTypes

\* A command, the end of a track, or a start changes a session.
LEMMA CurrentIs == ASSUME IdleInv, IdleAssumed, current # 0 PROVE current \in Radios /\ current <= made
<1>1. made \in 0..MaxSessions /\ current \in 0..made
  BY DEF IdleInv, IdleTypes
<1> QED BY <1>1 DEF IdleAssumed, Radios

LEMMA SessionKeeps ==
  ASSUME IdleInv, IdleAssumed, NEW id \in Radios, NEW s \in Radio, radios' = [radios EXCEPT ![id] = s],
         GoesOn(id) \/ IsStopped(id), s.cause # "empty channel" \/ s.cause = radios[id].cause,
         idleJobs' \in [Jobs -> IdleJob],
         \A j \in Jobs : idleJobs'[j] = idleJobs[j]
                           \/ (idleJobs'[j].pc = "resting" /\ idleJobs[j].pc \notin {"callback", "timeout"}),
         UNCHANGED <<made, current, noted, alarms, sweeper, shutdown, missed, held>>
  PROVE  IdleInv'
<1>1. /\ radios' \in [Radios -> Radio] /\ \A i \in Radios : GoesOn(i) \/ IsStopped(i)
      /\ radios'[id] = s /\ \A i \in Radios \ {id} : radios'[i] = radios[i]
  BY OneRadio
<1>2. current # 0 => \/ radios'[current].cause # "empty channel"
                     \/ /\ radios'[current].cause = radios[current].cause
                        /\ radios'[current].epoch = radios[current].epoch
  BY <1>1, CurrentIs DEF IsStopped, GoesOn
<1>3. Bounded'
  BY <1>2, BoundedStays
<1>4. noted' \in 0..MaxTimers /\ alarms' \in [1..MaxTimers -> Nat]
  BY TimersStay
<1> QED BY <1>1, <1>3, <1>4, SettledKeeps

LEMMA ControlKeeps ==
  ASSUME IdleInv, IdleAssumed, NEW j \in Jobs, Leaving!Control(j)
  PROVE  IdleInv'
<1> DEFINE id == idleJobs[j].session
<1>1. /\ idleJobs[j].pc = "got" /\ Leaving!End(j)
      /\ Leaving!Pause(id) \/ Leaving!Resume(id) \/ Leaving!Leave(id) \/ Leaving!Toggle247(id)
      /\ UNCHANGED <<made, current, noted, alarms, sweeper, shutdown, missed, held>>
  BY DEF Leaving!Control, Leaving!At, Leaving!map, Leaving!manager
<1>2. id \in Radios
  BY <1>1, TypesOfJob
<1>3. /\ idleJobs' \in [Jobs -> IdleJob]
      /\ \A k \in Jobs : idleJobs'[k] = idleJobs[k]
                           \/ (idleJobs'[k].pc = "resting" /\ idleJobs[k].pc \notin {"callback", "timeout"})
  BY <1>1, Rests
<1> HIDE DEF id
<1>4. radios[id] \in Radio /\ RadioIs(id)
  BY <1>2, TypesOfRadio DEF IdleInv
<1>5. PICK s \in Radio : /\ radios' = [radios EXCEPT ![id] = s]
                         /\ s.cause # "empty channel" \/ s.cause = radios[id].cause
                         /\ \/ /\ s.epoch = radios[id].epoch /\ s.connected = radios[id].connected
                               /\ s.old => radios[id].old
                               /\ s.phase = "playing" => s.cause = "none"
                               /\ ~radios[id].connected => s.phase = "idle" /\ s.cause = "none"
                            \/ s = Leaving!Stopped(id)
  <2>1. CASE Leaving!Pause(id)
    <3> DEFINE s == [radios[id] EXCEPT !.phase = "paused", !.cause = "manual", !.old = FALSE]
    <3>1. radios' = [radios EXCEPT ![id] = s] /\ radios[id].phase = "playing"
      BY <2>1 DEF Leaving!Pause
    <3>2. s \in Radio /\ s.cause = "manual" /\ s.phase = "paused" /\ s.epoch = radios[id].epoch
          /\ s.connected = radios[id].connected /\ ~s.old
      BY <1>4 DEF Radio
    <3> HIDE DEF s
    <3> QED BY <1>4, <3>1, <3>2 DEF RadioIs
  <2>2. CASE Leaving!Resume(id)
    <3> DEFINE s == [radios[id] EXCEPT !.phase = "playing", !.cause = "none", !.old = FALSE]
    <3>1. radios' = [radios EXCEPT ![id] = s] /\ radios[id].phase = "paused"
      BY <2>2 DEF Leaving!Resume
    <3>2. s \in Radio /\ s.cause = "none" /\ s.phase = "playing" /\ s.epoch = radios[id].epoch
          /\ s.connected = radios[id].connected /\ ~s.old
      BY <1>4 DEF Radio
    <3> HIDE DEF s
    <3> QED BY <1>4, <3>1, <3>2 DEF RadioIs
  <2>3. CASE Leaving!Leave(id)
    BY <1>2, <2>3, StoppedIs DEF Leaving!Leave
  <2>4. CASE Leaving!Toggle247(id)
    <3> DEFINE s == [radios[id] EXCEPT !.stay = ~radios[id].stay, !.old = FALSE]
    <3>1. radios' = [radios EXCEPT ![id] = s]
      BY <2>4 DEF Leaving!Toggle247
    <3>2. s \in Radio
      BY <1>4 DEF Radio
    <3>3. s.cause = radios[id].cause /\ s.phase = radios[id].phase /\ s.epoch = radios[id].epoch
          /\ s.connected = radios[id].connected /\ ~s.old
      BY <1>4 DEF Radio
    <3> HIDE DEF s
    <3> QED BY <1>4, <3>1, <3>2, <3>3 DEF RadioIs
  <2> QED BY <1>1, <2>1, <2>2, <2>3, <2>4
<1>6. radios'[id] = s
  BY <1>2, <1>5 DEF IdleInv, IdleTypes
<1>7. GoesOn(id) \/ IsStopped(id)
  <2>1. CASE s = Leaving!Stopped(id)
    <3>1. /\ s.epoch = radios[id].epoch + 1 /\ radios[id].epoch \in Nat
          /\ ~s.connected /\ ~s.old /\ s.phase = "idle" /\ s.cause = "none"
      BY <1>2, <2>1, StoppedIs, TypesOfRadio
    <3> QED BY <1>6, <3>1 DEF IsStopped
  <2>2. CASE s # Leaving!Stopped(id)
    BY <1>5, <1>6, <2>2 DEF GoesOn
  <2> QED BY <2>1, <2>2
<1> QED BY <1>1, <1>2, <1>3, <1>5, <1>7, SessionKeeps

LEMMA FinishKeeps ==
  ASSUME IdleInv, IdleAssumed, NEW id \in Radios, Leaving!Finish(id)
  PROVE  IdleInv'
<1> DEFINE s == [radios[id] EXCEPT !.phase = "idle"]
<1>1. /\ radios' = [radios EXCEPT ![id] = s] /\ radios[id].phase = "playing"
      /\ UNCHANGED <<made, current, noted, alarms, idleJobs, sweeper, shutdown, missed, held>>
  BY DEF Leaving!Finish, Leaving!map, Leaving!manager
<1>2. radios[id] \in Radio /\ RadioIs(id)
  BY TypesOfRadio DEF IdleInv
<1>3. s \in Radio /\ s.phase = "idle" /\ s.cause = radios[id].cause /\ s.epoch = radios[id].epoch
      /\ s.connected = radios[id].connected /\ s.old = radios[id].old
  BY <1>2 DEF Radio
<1> HIDE DEF s
<1>4. radios'[id] = s
  BY <1>1 DEF IdleInv, IdleTypes
<1>5. GoesOn(id)
  BY <1>2, <1>3, <1>4 DEF RadioIs, GoesOn
<1>6. idleJobs' \in [Jobs -> IdleJob] /\ \A k \in Jobs : idleJobs'[k] = idleJobs[k]
  BY <1>1 DEF IdleInv, IdleTypes
<1> QED BY <1>1, <1>3, <1>5, <1>6, SessionKeeps

LEMMA StartedKeeps ==
  ASSUME IdleInv, IdleAssumed, NEW j \in Jobs, Leaving!Started(j)
  PROVE  IdleInv'
<1> DEFINE id == idleJobs[j].session
           s == IF radios[id].epoch = idleJobs[j].epoch
                THEN [radios[id] EXCEPT !.phase = "playing", !.cause = "none"] ELSE radios[id]
<1>1. /\ idleJobs[j].pc = "start" /\ Leaving!End(j)
      /\ radios' = IF radios[id].epoch = idleJobs[j].epoch
                   THEN [radios EXCEPT ![id] = [radios[id] EXCEPT !.phase = "playing", !.cause = "none"]] ELSE radios
      /\ UNCHANGED <<made, current, noted, alarms, sweeper, shutdown, missed, held>>
  BY DEF Leaving!Started, Leaving!At, Leaving!map, Leaving!manager
<1>2. id \in Radios /\ Captured(j)
  BY <1>1, TypesOfJob DEF IdleInv
<1>3. radios[id] \in Radio /\ RadioIs(id)
  BY <1>2, TypesOfRadio DEF IdleInv
<1>4. radios' = [radios EXCEPT ![id] = s]
  BY <1>1, <1>2 DEF IdleInv, IdleTypes
<1>5. /\ s \in Radio /\ s.epoch = radios[id].epoch /\ s.connected = radios[id].connected /\ s.old = radios[id].old
      /\ s.phase = "playing" => s.cause = "none"
      /\ s.cause = radios[id].cause \/ s.cause = "none"
      /\ ~radios[id].connected => s.phase = "idle" /\ s.cause = "none"
  <2>1. CASE radios[id].epoch = idleJobs[j].epoch
    <3>1. radios[id].connected
      BY <1>1, <1>2, <2>1 DEF Captured
    <3> QED BY <1>3, <2>1, <3>1 DEF Radio
  <2>2. CASE radios[id].epoch # idleJobs[j].epoch
    BY <1>3, <2>2 DEF RadioIs
  <2> QED BY <2>1, <2>2
<1>6. /\ idleJobs' \in [Jobs -> IdleJob]
      /\ \A k \in Jobs : idleJobs'[k] = idleJobs[k]
                           \/ (idleJobs'[k].pc = "resting" /\ idleJobs[k].pc \notin {"callback", "timeout"})
  BY <1>1, Rests
<1> HIDE DEF id, s
<1>7. radios'[id] = s
  BY <1>2, <1>4 DEF IdleInv, IdleTypes
<1>8. GoesOn(id)
  BY <1>5, <1>7 DEF GoesOn
<1> QED BY <1>1, <1>2, <1>4, <1>5, <1>6, <1>8, SessionKeeps

\* A goroutine rests, and nothing else of the sessions changes.
LEMMA RestKeeps ==
  ASSUME IdleInv, IdleAssumed,
         NEW j \in Jobs, Leaving!EvaluateStay(j) \/ Leaving!NotJoined(j)
  PROVE  IdleInv'
<1>1. /\ Leaving!End(j) /\ idleJobs[j].pc \in {"evaluate", "join"}
      /\ UNCHANGED <<radios, made, current, noted, alarms, sweeper, shutdown, missed, held>>
  BY DEF Leaving!EvaluateStay, Leaving!NotJoined, Leaving!At, Leaving!map, Leaving!manager
<1>2. /\ idleJobs' \in [Jobs -> IdleJob] /\ idleJobs'[j].pc = "resting"
      /\ \A k \in Jobs \ {j} : idleJobs'[k] = idleJobs[k]
  BY <1>1, Rests
<1>3. Bounded'
  BY <1>1, <1>2, BoundedStays
<1> QED BY <1>1, <1>2, <1>3, SameRadios, TimersStay, SettledKeeps

LEMMA IdleStays ==
  ASSUME IdleInv, IdleAssumed,
         UNCHANGED <<radios, made, current, noted, alarms, idleJobs, sweeper, shutdown, missed, held>>
  PROVE  IdleInv'
<1>1. idleJobs' \in [Jobs -> IdleJob]
  BY DEF IdleInv, IdleTypes
<1>2. Bounded'
  BY BoundedStays
<1> QED BY <1>1, <1>2, SameRadios, TimersStay, SettledKeeps

LEMMA BoundedBy ==
  ASSUME current' # 0 /\ radios'[current'].cause = "empty channel" /\ shutdown' = "up" /\ current' \notin missed'
           => \/ \E u \in 1..MaxTimers : alarms'[u] = radios'[current'].epoch
              \/ \E k \in Jobs : idleJobs'[k].pc \in {"callback", "timeout"} /\ idleJobs'[k].epoch = radios'[current'].epoch
  PROVE  Bounded'
BY DEF Bounded, Timed

LEMMA StopTimerIs ==
  ASSUME IdleInv, IdleAssumed, Leaving!StopTimer
  PROVE  noted' = 0 /\ noted' \in 0..MaxTimers /\ alarms' \in [1..MaxTimers -> Nat]
<1>1. noted' = 0 /\ alarms' = IF noted = 0 THEN alarms ELSE [alarms EXCEPT ![noted] = 0]
  BY DEF Leaving!StopTimer
<1>2. 0 \in 0..MaxTimers
  BY DEF IdleAssumed
<1>3. alarms \in [1..MaxTimers -> Nat]
  BY DEF IdleInv, IdleTypes
<1> QED BY <1>1, <1>2, <1>3

LEMMA EvaluateHumansKeeps ==
  ASSUME IdleInv, IdleAssumed, NEW j \in Jobs, Leaving!EvaluateHumans(j)
  PROVE  IdleInv'
<1> DEFINE id == idleJobs[j].session
           s == IF radios[id].cause = "empty channel"
                THEN [radios[id] EXCEPT !.phase = "playing", !.cause = "none"] ELSE radios[id]
<1>1. /\ idleJobs[j].pc = "evaluate" /\ Leaving!End(j) /\ Leaving!StopTimer
      /\ radios' = IF radios[id].cause = "empty channel"
                   THEN [radios EXCEPT ![id] = [radios[id] EXCEPT !.phase = "playing", !.cause = "none"]] ELSE radios
      /\ UNCHANGED <<made, current, sweeper, shutdown, held>>
  BY DEF Leaving!EvaluateHumans, Leaving!At, Leaving!map
<1>2. id \in Radios /\ Captured(j)
  BY <1>1, TypesOfJob DEF IdleInv
<1>3. radios[id] \in Radio /\ RadioIs(id) /\ id = current
  BY <1>1, <1>2, TypesOfRadio DEF IdleInv, Captured
<1>4. radios' = [radios EXCEPT ![id] = s]
  BY <1>1, <1>2 DEF IdleInv, IdleTypes
<1>5. /\ s \in Radio /\ s.epoch = radios[id].epoch /\ s.connected = radios[id].connected /\ s.old = radios[id].old
      /\ s.phase = "playing" => s.cause = "none"
      /\ s.cause # "empty channel"
      /\ ~radios[id].connected => s.phase = "idle" /\ s.cause = "none"
  <2>1. CASE radios[id].cause = "empty channel"
    <3>1. radios[id].connected
      BY <1>3, <2>1 DEF RadioIs
    <3> QED BY <1>3, <2>1, <3>1 DEF Radio
  <2>2. CASE radios[id].cause # "empty channel"
    BY <1>3, <2>2 DEF RadioIs
  <2> QED BY <2>1, <2>2
<1>6. /\ idleJobs' \in [Jobs -> IdleJob] /\ idleJobs'[j].pc = "resting"
      /\ \A k \in Jobs \ {j} : idleJobs'[k] = idleJobs[k]
  BY <1>1, Rests
<1> HIDE DEF id, s
<1>7. GoesOn(id)
  <2>1. radios'[id] = s
    BY <1>2, <1>4 DEF IdleInv, IdleTypes
  <2> QED BY <1>5, <2>1 DEF GoesOn
<1>8. radios' \in [Radios -> Radio] /\ (\A i \in Radios : GoesOn(i) \/ IsStopped(i)) /\ radios'[id] = s
  BY <1>2, <1>4, <1>5, <1>7, OneRadio
<1>9. Bounded'
  BY <1>1, <1>3, <1>5, <1>8 DEF Bounded
<1> QED BY <1>1, <1>6, <1>8, <1>9, StopTimerIs, SettledKeeps

LEMMA EvaluateEmptyKeeps ==
  ASSUME IdleInv, IdleAssumed, NEW j \in Jobs, Leaving!EvaluateEmpty(j)
  PROVE  IdleInv'
<1> DEFINE id == idleJobs[j].session
           s == IF radios[id].phase = "playing"
                THEN [radios[id] EXCEPT !.phase = "paused", !.cause = "empty channel"] ELSE radios[id]
<1>1. /\ idleJobs[j].pc = "evaluate" /\ Leaving!End(j)
      /\ radios' = IF radios[id].phase = "playing"
                   THEN [radios EXCEPT ![id] = [radios[id] EXCEPT !.phase = "paused", !.cause = "empty channel"]]
                   ELSE radios
      /\ UNCHANGED <<made, current, sweeper, shutdown, held>>
  BY DEF Leaving!EvaluateEmpty, Leaving!At, Leaving!map
<1>2. id \in Radios /\ Captured(j)
  BY <1>1, TypesOfJob DEF IdleInv
<1>3. radios[id] \in Radio /\ RadioIs(id) /\ id = current
  BY <1>1, <1>2, TypesOfRadio DEF IdleInv, Captured
<1>4. radios' = [radios EXCEPT ![id] = s]
  BY <1>1, <1>2 DEF IdleInv, IdleTypes
<1>5. /\ s \in Radio /\ s.epoch = radios[id].epoch /\ s.connected = radios[id].connected /\ s.old = radios[id].old
      /\ s.phase # "playing"
      /\ ~radios[id].connected => s.phase = "idle" /\ s.cause = "none"
  <2>1. CASE radios[id].phase = "playing"
    <3>1. radios[id].connected
      BY <1>3, <2>1 DEF RadioIs
    <3> QED BY <1>3, <2>1, <3>1 DEF Radio
  <2>2. CASE radios[id].phase # "playing"
    BY <1>3, <2>2 DEF RadioIs
  <2> QED BY <2>1, <2>2
<1>6. /\ idleJobs' \in [Jobs -> IdleJob] /\ idleJobs'[j].pc = "resting"
      /\ \A k \in Jobs \ {j} : idleJobs'[k] = idleJobs[k]
  BY <1>1, Rests
<1>7. CASE noted = 0
  <2>1. PICK t \in 1..MaxTimers : /\ alarms[t] = 0 /\ noted' = t
                                  /\ alarms' = [alarms EXCEPT ![t] = radios[id].epoch]
    BY <1>7 DEF Leaving!EvaluateEmpty, Leaving!TimerIds
  <2>2. radios[id].epoch \in Nat /\ alarms \in [1..MaxTimers -> Nat]
    BY <1>2, TypesOfRadio DEF IdleInv, IdleTypes
  <2>3. alarms' \in [1..MaxTimers -> Nat] /\ alarms'[t] = radios[id].epoch
    BY <2>1, <2>2
  <2>4. noted' \in 0..MaxTimers
    BY <2>1 DEF IdleAssumed
  <2> HIDE DEF id, s
  <2>5. GoesOn(id)
    <3>1. radios'[id] = s
      BY <1>2, <1>4 DEF IdleInv, IdleTypes
    <3> QED BY <1>5, <3>1 DEF GoesOn
  <2>6. radios' \in [Radios -> Radio] /\ (\A i \in Radios : GoesOn(i) \/ IsStopped(i)) /\ radios'[id] = s
    BY <1>2, <1>4, <1>5, <2>5, OneRadio
  <2>7. Bounded'
    BY <1>1, <1>3, <1>5, <2>1, <2>3, <2>6 DEF Bounded, Timed
  <2> QED BY <1>1, <1>6, <2>3, <2>4, <2>6, <2>7, SettledKeeps
<1>8. CASE noted # 0
  <2>1. /\ UNCHANGED <<noted, alarms>>
        /\ missed' = IF radios[id].phase = "playing" /\ alarms[noted] # radios[id].epoch THEN missed \cup {id} ELSE missed
    BY <1>8 DEF Leaving!EvaluateEmpty, Leaving!manager
  <2>2. noted \in 1..MaxTimers
    <3>1. noted \in 0..MaxTimers
      BY DEF IdleInv, IdleTypes
    <3> QED BY <1>8, <3>1 DEF IdleAssumed
  <2>3. radios[id].phase # "playing" => s = radios[id]
    OBVIOUS
  <2> HIDE DEF id, s
  <2>5. GoesOn(id)
    <3>1. radios'[id] = s
      BY <1>2, <1>4 DEF IdleInv, IdleTypes
    <3> QED BY <1>5, <3>1 DEF GoesOn
  <2>6. radios' \in [Radios -> Radio] /\ (\A i \in Radios : GoesOn(i) \/ IsStopped(i)) /\ radios'[id] = s
    BY <1>2, <1>4, <1>5, <2>5, OneRadio
  <2>7. CASE radios[id].phase = "playing"
    <3>1. ASSUME alarms[noted] = radios[id].epoch PROVE Bounded'
      <4>1. alarms'[noted] = radios'[current].epoch
        BY <1>3, <1>5, <2>1, <2>6, <3>1
      <4> QED BY <1>1, <2>2, <4>1, BoundedBy
    <3>2. ASSUME alarms[noted] # radios[id].epoch PROVE Bounded'
      <4>1. missed' = missed \cup {id}
        BY <2>1, <2>7, <3>2
      <4> QED BY <1>1, <1>3, <4>1, BoundedBy
    <3>3. Bounded'
      BY <3>1, <3>2
    <3> QED BY <1>1, <1>6, <2>6, <3>3, TimersStay, <2>1, SettledKeeps
  <2>8. CASE radios[id].phase # "playing"
    <3>1. missed' = missed /\ radios'[current] = radios[current]
      BY <1>3, <2>1, <2>3, <2>6, <2>8
    <3>2. Bounded'
      BY <1>1, <1>6, <2>1, <3>1, BoundedStays
    <3> QED BY <1>1, <1>6, <2>6, <3>2, TimersStay, <2>1, SettledKeeps
  <2> QED BY <2>7, <2>8
<1> QED BY <1>7, <1>8

LEMMA AlarmKeeps ==
  ASSUME IdleInv, IdleAssumed, NEW j \in Jobs, NEW t \in 1..MaxTimers, Leaving!Fire(j, t)
  PROVE  IdleInv'
<1> DEFINE r == [Leaving!Resting EXCEPT !.pc = "callback", !.epoch = alarms[t]]
<1>1. /\ idleJobs[j].pc = "resting" /\ alarms' = [alarms EXCEPT ![t] = 0] /\ idleJobs' = [idleJobs EXCEPT ![j] = r]
      /\ UNCHANGED <<radios, made, current, noted, sweeper, shutdown, missed, held>>
  BY DEF Leaving!Fire, Leaving!At, Leaving!map
<1>2. alarms \in [1..MaxTimers -> Nat] /\ noted \in 0..MaxTimers /\ idleJobs \in [Jobs -> IdleJob]
  BY DEF IdleInv, IdleTypes
<1>3. r \in IdleJob /\ r.pc = "callback" /\ r.epoch = alarms[t]
  BY <1>2, RestingIs DEF Leaving!Resting, IdleJob
<1> HIDE DEF r
<1>4. /\ idleJobs' \in [Jobs -> IdleJob] /\ idleJobs'[j] = r /\ \A k \in Jobs \ {j} : idleJobs'[k] = idleJobs[k]
  BY <1>1, <1>2, <1>3
<1>5. /\ alarms' \in [1..MaxTimers -> Nat] /\ \A u \in 1..MaxTimers \ {t} : alarms'[u] = alarms[u]
  BY <1>1, <1>2
<1>6. ASSUME NEW e, Timed(e) PROVE \/ \E u \in 1..MaxTimers : alarms'[u] = e
                                   \/ \E k \in Jobs : idleJobs'[k].pc \in {"callback", "timeout"} /\ idleJobs'[k].epoch = e
  <2>1. CASE \E u \in 1..MaxTimers : alarms[u] = e
    BY <1>3, <1>4, <1>5, <2>1
  <2>2. CASE \E k \in Jobs : idleJobs[k].pc \in {"callback", "timeout"} /\ idleJobs[k].epoch = e
    BY <1>1, <1>4, <2>2
  <2> QED BY <1>6, <2>1, <2>2 DEF Timed
<1>7. current # 0 /\ radios[current].cause = "empty channel" /\ shutdown = "up" /\ current \notin missed
        => Timed(radios[current].epoch)
  BY DEF IdleInv, Bounded
<1>8. Bounded'
  BY <1>1, <1>6, <1>7, BoundedBy
<1> QED BY <1>1, <1>2, <1>3, <1>4, <1>5, <1>8, SameRadios, SettledKeeps

LEMMA CallbackKeeps ==
  ASSUME IdleInv, IdleAssumed, NEW j \in Jobs, Leaving!Callback(j)
  PROVE  IdleInv'
<1>1. /\ idleJobs[j].pc = "callback" /\ noted' = 0
      /\ UNCHANGED <<radios, made, current, alarms, sweeper, shutdown, missed, held>>
  BY DEF Leaving!Callback, Leaving!At, Leaving!map
<1>2. /\ alarms' \in [1..MaxTimers -> Nat] /\ noted' \in 0..MaxTimers
      /\ idleJobs[j] \in IdleJob /\ idleJobs \in [Jobs -> IdleJob]
  <2>1. 0 \in 0..MaxTimers
    BY DEF IdleAssumed
  <2> QED BY <1>1, <2>1 DEF IdleInv, IdleTypes
<1>3. CASE shutdown = "up"
  <2> DEFINE r == [idleJobs[j] EXCEPT !.pc = "timeout"]
  <2>1. idleJobs' = [idleJobs EXCEPT ![j] = r]
    BY <1>3 DEF Leaving!Callback, Leaving!Admitted
  <2>2. r \in IdleJob /\ r.pc = "timeout" /\ r.epoch = idleJobs[j].epoch
    BY <1>2 DEF IdleJob
  <2> HIDE DEF r
  <2>3. /\ idleJobs' \in [Jobs -> IdleJob] /\ idleJobs'[j] = r /\ \A k \in Jobs \ {j} : idleJobs'[k] = idleJobs[k]
    BY <1>2, <2>1, <2>2
  <2>4. ASSUME NEW e, Timed(e) PROVE \/ \E u \in 1..MaxTimers : alarms'[u] = e
                                     \/ \E k \in Jobs : idleJobs'[k].pc \in {"callback", "timeout"} /\ idleJobs'[k].epoch = e
    BY <1>1, <2>2, <2>3, <2>4 DEF Timed
  <2>5. Bounded'
    BY <1>1, <2>4 DEF IdleInv, Bounded, Timed
  <2> QED BY <1>1, <1>2, <1>3, <2>2, <2>3, <2>5, SameRadios, SettledKeeps
<1>4. CASE shutdown # "up"
  <2>1. Leaving!End(j)
    BY <1>4 DEF Leaving!Callback, Leaving!Admitted
  <2>2. /\ idleJobs' \in [Jobs -> IdleJob] /\ idleJobs'[j].pc = "resting"
        /\ \A k \in Jobs \ {j} : idleJobs'[k] = idleJobs[k]
    BY <2>1, Rests
  <2>3. Bounded'
    BY <1>1, <1>4 DEF Bounded
  <2> QED BY <1>1, <1>2, <2>2, <2>3, SameRadios, SettledKeeps
<1> QED BY <1>3, <1>4

LEMMA TimeoutKeeps ==
  ASSUME IdleInv, IdleAssumed, NEW j \in Jobs, Leaving!Timeout(j)
  PROVE  IdleInv'
<1>1. /\ idleJobs[j].pc = "timeout" /\ Leaving!End(j)
      /\ UNCHANGED <<made, current, noted, alarms, sweeper, shutdown, held>>
  BY DEF Leaving!Timeout, Leaving!At, Leaving!map, Leaving!manager
<1>2. /\ idleJobs' \in [Jobs -> IdleJob] /\ idleJobs'[j].pc = "resting"
      /\ \A k \in Jobs \ {j} : idleJobs'[k] = idleJobs[k]
  BY <1>1, Rests
<1>3. CASE current # 0 /\ radios[current].epoch = idleJobs[j].epoch /\ ~radios[current].stay
  <2>1. radios' = [radios EXCEPT ![current] = Leaving!Stopped(current)] /\ current \in Radios
    BY <1>3, CurrentIs DEF Leaving!Timeout
  <2>2. PICK id \in Radios : id = current
    BY <2>1
  <2>3. /\ Leaving!Stopped(id) \in Radio /\ Leaving!Stopped(id).epoch = radios[id].epoch + 1
        /\ ~Leaving!Stopped(id).connected /\ ~Leaving!Stopped(id).old
        /\ Leaving!Stopped(id).phase = "idle" /\ Leaving!Stopped(id).cause = "none"
    BY <2>2, StoppedIs
  <2>4. radios' = [radios EXCEPT ![id] = Leaving!Stopped(id)]
    BY <2>1, <2>2
  <2>5. radios'[id] = Leaving!Stopped(id)
    BY <2>4 DEF IdleInv, IdleTypes
  <2>6. IsStopped(id)
    BY <2>3, <2>5, TypesOfRadio DEF IsStopped
  <2>7. radios' \in [Radios -> Radio] /\ (\A i \in Radios : GoesOn(i) \/ IsStopped(i))
    BY <2>3, <2>4, <2>6, OneRadio
  <2>8. Bounded'
    BY <1>1, <2>2, <2>3, <2>5 DEF Bounded
  <2> QED BY <1>1, <1>2, <2>7, <2>8, TimersStay, SettledKeeps
<1>4. CASE ~(current # 0 /\ radios[current].epoch = idleJobs[j].epoch /\ ~radios[current].stay)
  <2>1. /\ radios' = radios
        /\ missed' = missed \cup (IF current # 0 /\ radios[current].stay THEN {current} ELSE {})
    BY <1>4 DEF Leaving!Timeout
  <2>2. Bounded'
    <3> SUFFICES ASSUME current # 0, radios[current].cause = "empty channel", shutdown = "up", current \notin missed'
                 PROVE  \/ \E u \in 1..MaxTimers : alarms[u] = radios[current].epoch
                        \/ \E k \in Jobs : /\ idleJobs'[k].pc \in {"callback", "timeout"}
                                           /\ idleJobs'[k].epoch = radios[current].epoch
      BY <1>1, <2>1 DEF Bounded, Timed
    <3>1. current \notin missed /\ ~radios[current].stay
      BY <2>1
    <3>2. Timed(radios[current].epoch) /\ radios[current].epoch # idleJobs[j].epoch
      BY <1>4, <3>1 DEF IdleInv, Bounded
    <3> QED BY <1>2, <3>2 DEF Timed
  <2> QED BY <1>1, <1>2, <2>1, <2>2, SameRadios, TimersStay, SettledKeeps
<1> QED BY <1>3, <1>4

LEMMA EventKeeps ==
  ASSUME IdleInv, IdleAssumed, NEW j \in Jobs, Leaving!Event(j)
  PROVE  IdleInv'
<1> DEFINE r == [Leaving!Resting EXCEPT !.pc = "evaluate", !.session = current, !.empty = ~humans]
<1>1. /\ idleJobs[j].pc = "resting" /\ sweeper # "drops" /\ current # 0 /\ radios[current].connected
      /\ idleJobs' = [idleJobs EXCEPT ![j] = r]
      /\ UNCHANGED <<radios, made, current, noted, alarms, sweeper, shutdown, missed, held>>
  BY DEF Leaving!Event, Leaving!At, Leaving!MapIsFree, Leaving!map, Leaving!manager
<1>2. current \in Radios /\ current <= made /\ current \in 0..MaxSessions /\ current >= 1
  BY <1>1, CurrentIs DEF Radios, IdleAssumed
<1>3. r \in IdleJob /\ r.pc = "evaluate" /\ r.session = current
  BY <1>2, RestingIs DEF Leaving!Resting, IdleJob
<1> HIDE DEF r
<1>4. /\ idleJobs' \in [Jobs -> IdleJob] /\ idleJobs'[j] = r /\ \A k \in Jobs \ {j} : idleJobs'[k] = idleJobs[k]
  BY <1>1, <1>3 DEF IdleInv, IdleTypes
<1>5. IdleTypes' /\ Quiet'
  BY <1>1, <1>3, <1>4 DEF IdleInv, IdleTypes, Quiet
<1>6. Bounded'
  BY <1>1, <1>4, BoundedStays
<1>7. ASSUME NEW id \in Radios PROVE RadioIs(id)' /\ (GivenUp(id)' /\ id \notin held' => Abandoned(id)')
  BY <1>1, <1>3, <1>4 DEF IdleInv, RadioIs, GivenUp, Abandoned
<1>8. ASSUME NEW k \in Jobs PROVE Captured(k)'
  BY <1>1, <1>2, <1>3, <1>4 DEF IdleInv, Captured
<1> QED BY <1>5, <1>6, <1>7, <1>8 DEF IdleInv

LEMMA LookupKeeps ==
  ASSUME IdleInv, IdleAssumed, NEW j \in Jobs, Leaving!Lookup(j)
  PROVE  IdleInv'
<1> DEFINE r == [Leaving!Resting EXCEPT !.pc = "got", !.session = current']
<1>1. /\ idleJobs[j].pc = "resting" /\ sweeper # "drops" /\ shutdown = "up"
      /\ \/ current # 0 /\ made' = made /\ current' = current
         \/ current = 0 /\ made < MaxSessions /\ made' = made + 1 /\ current' = made + 1
      /\ idleJobs' = [idleJobs EXCEPT ![j] = r]
      /\ UNCHANGED <<radios, noted, alarms, sweeper, shutdown, missed, held>>
  BY DEF Leaving!Lookup, Leaving!At, Leaving!MapIsFree, Leaving!map, Leaving!manager
<1>2. made \in Nat /\ made <= MaxSessions /\ MaxSessions \in Nat /\ current \in 0..made
  <2>1. made \in 0..MaxSessions /\ current \in 0..made
    BY DEF IdleInv, IdleTypes
  <2> QED BY <2>1 DEF IdleAssumed
<1>3. /\ current' >= 1 /\ current' <= made' /\ made' \in 0..MaxSessions /\ current' \in 0..MaxSessions
      /\ current' \in 0..made' /\ current' \in Nat /\ made' \in Nat /\ made <= made'
  BY <1>1, <1>2
<1>4. r \in IdleJob /\ r.pc = "got" /\ r.session = current'
  BY <1>3, RestingIs DEF Leaving!Resting, IdleJob
<1> HIDE DEF r
<1>5. /\ idleJobs' \in [Jobs -> IdleJob] /\ idleJobs'[j] = r /\ \A k \in Jobs \ {j} : idleJobs'[k] = idleJobs[k]
  BY <1>1, <1>4 DEF IdleInv, IdleTypes
<1>6. IdleTypes'
  BY <1>1, <1>3, <1>5 DEF IdleInv, IdleTypes
<1>7. Quiet'
  BY <1>1 DEF Quiet
<1>8. ASSUME NEW id \in Radios PROVE RadioIs(id)'
  <2>1. id \in Nat
    BY DEF Radios
  <2> QED BY <1>1, <1>2, <1>3, <2>1 DEF IdleInv, RadioIs
<1>9. Bounded'
  <2>1. CASE current # 0
    BY <1>1, <1>5, <2>1, BoundedStays
  <2>2. CASE current = 0
    <3>1. current' \in Radios /\ ~(current' <= made)
      BY <1>1, <1>2, <2>2 DEF Radios
    <3>2. RadioIs(current')
      BY <3>1 DEF IdleInv
    <3>3. radios'[current'].cause = "none"
      BY <1>1, <3>1, <3>2 DEF RadioIs
    <3> QED BY <3>3, BoundedBy
  <2> QED BY <2>1, <2>2
<1>10. ASSUME NEW id \in Radios, GivenUp(id)', id \notin held' PROVE Abandoned(id)'
  <2>1. id # current' /\ id <= made'
    BY <1>1, <1>10 DEF GivenUp, Ended
  <2>2. GivenUp(id)
    <3>1. id \in Nat /\ id >= 1
      BY DEF Radios
    <3> QED BY <1>1, <1>2, <2>1, <3>1 DEF GivenUp
  <2>3. Abandoned(id)
    BY <1>1, <1>10, <2>2 DEF IdleInv
  <2> QED BY <1>1, <1>4, <1>5, <2>1, <2>3 DEF Abandoned
<1>11. ASSUME NEW k \in Jobs PROVE Captured(k)'
  <2>1. CASE k = j
    BY <1>3, <1>4, <1>5, <2>1 DEF Captured
  <2>2. CASE k # j
    <3>1. idleJobs'[k] = idleJobs[k] /\ Captured(k) /\ idleJobs[k].session \in Nat
      BY <1>5, <2>2, TypesOfJob DEF IdleInv
    <3> QED BY <1>1, <1>2, <1>3, <3>1 DEF Captured
  <2> QED BY <2>1, <2>2
<1> QED BY <1>6, <1>7, <1>8, <1>9, <1>10, <1>11 DEF IdleInv

LEMMA ConnectKeeps ==
  ASSUME IdleInv, IdleAssumed, NEW j \in Jobs, Leaving!Connect(j)
  PROVE  IdleInv'
<1> DEFINE id == idleJobs[j].session
           s == [radios[id] EXCEPT !.old = FALSE]
           r == IF radios[id].connected THEN Leaving!Resting
                ELSE [idleJobs[j] EXCEPT !.pc = "join", !.epoch = radios[id].epoch]
<1>1. /\ idleJobs[j].pc = "got" /\ radios' = [radios EXCEPT ![id] = s]
      /\ idleJobs' = [idleJobs EXCEPT ![j] = r]
      /\ UNCHANGED <<made, current, noted, alarms, sweeper, shutdown, missed, held>>
  BY DEF Leaving!Connect, Leaving!At, Leaving!map, Leaving!manager, IdleInv, IdleTypes
<1>2. id \in Radios /\ id >= 1 /\ id <= made /\ idleJobs[j] \in IdleJob
  BY <1>1, TypesOfJob DEF IdleInv, Captured
<1>3. radios[id] \in Radio /\ radios[id].epoch \in Nat
  BY <1>2, TypesOfRadio
<1>4. /\ s \in Radio /\ ~s.old /\ s.epoch = radios[id].epoch /\ s.connected = radios[id].connected
      /\ s.phase = radios[id].phase /\ s.cause = radios[id].cause
  BY <1>3 DEF Radio
<1>5. /\ r \in IdleJob
      /\ \/ r.pc = "resting"
         \/ r.pc = "join" /\ r.session = id /\ r.epoch = radios[id].epoch /\ ~radios[id].connected
  <2>1. CASE radios[id].connected
    BY <2>1, RestingIs
  <2>2. CASE ~radios[id].connected
    BY <1>2, <1>3, <2>2 DEF IdleJob
  <2> QED BY <2>1, <2>2
<1>6. idleJobs[j].session = id
  OBVIOUS
<1> HIDE DEF id, s, r
<1>7. /\ radios' \in [Radios -> Radio] /\ radios'[id] = s /\ \A i \in Radios \ {id} : radios'[i] = radios[i]
      /\ idleJobs' \in [Jobs -> IdleJob] /\ idleJobs'[j] = r /\ \A k \in Jobs \ {j} : idleJobs'[k] = idleJobs[k]
  BY <1>1, <1>2, <1>4, <1>5 DEF IdleInv, IdleTypes
<1>8. IdleTypes'
  BY <1>1, <1>7 DEF IdleInv, IdleTypes
<1>9. Quiet'
  BY <1>1, <1>5, <1>7 DEF IdleInv, Quiet
<1>10. \A i \in Radios : /\ radios'[i].epoch = radios[i].epoch /\ radios'[i].connected = radios[i].connected
                         /\ radios'[i].phase = radios[i].phase /\ radios'[i].cause = radios[i].cause
                         /\ radios'[i].old => radios[i].old
  BY <1>2, <1>4, <1>7
<1>11. Bounded'
  BY <1>1, <1>7, <1>10, CurrentIs, BoundedStays
<1>12. ASSUME NEW i \in Radios PROVE RadioIs(i)'
  BY <1>1, <1>10 DEF IdleInv, RadioIs
<1>13. ASSUME NEW i \in Radios, GivenUp(i)', i \notin held' PROVE Abandoned(i)'
  <2>1. Abandoned(i)
    BY <1>1, <1>13 DEF IdleInv, GivenUp
  <2>2. i # id
    BY <1>1, <1>6, <2>1 DEF Abandoned
  <2> QED BY <1>5, <1>7, <1>10, <2>1, <2>2 DEF Abandoned
<1>14. ASSUME NEW k \in Jobs PROVE Captured(k)'
  <2>1. CASE k = j
    BY <1>1, <1>2, <1>3, <1>4, <1>5, <1>7, <2>1 DEF Captured
  <2>2. CASE k # j
    <3>1. idleJobs'[k] = idleJobs[k] /\ Captured(k)
      BY <1>7, <2>2 DEF IdleInv
    <3>2. CASE idleJobs[k].pc \notin {"evaluate", "got", "join", "start"}
      BY <3>1, <3>2 DEF Captured
    <3>3. CASE idleJobs[k].pc \in {"evaluate", "got", "join", "start"}
      <4>1. idleJobs[k].session \in Radios
        BY <3>3, TypesOfJob
      <4>2. PICK i \in Radios : idleJobs[k].session = i
        BY <4>1
      <4>3. radios[i].old \in BOOLEAN /\ radios'[i].old \in BOOLEAN
        BY <1>7, TypesOfRadio DEF Radio
      <4> QED BY <1>1, <1>10, <3>1, <4>2, <4>3 DEF Captured
    <3> QED BY <3>2, <3>3
  <2> QED BY <2>1, <2>2
<1> QED BY <1>8, <1>9, <1>11, <1>12, <1>13, <1>14 DEF IdleInv

LEMMA JoinedKeeps ==
  ASSUME IdleInv, IdleAssumed, NEW j \in Jobs, Leaving!Joined(j)
  PROVE  IdleInv'
<1> DEFINE id == idleJobs[j].session
           s == [radios[id] EXCEPT !.connected = TRUE, !.epoch = radios[id].epoch + 1]
<1>1. /\ idleJobs[j].pc = "join" /\ radios[id].epoch = idleJobs[j].epoch /\ radios' = [radios EXCEPT ![id] = s]
      /\ UNCHANGED <<made, current, noted, alarms, sweeper, shutdown, missed, held>>
  BY DEF Leaving!Joined, Leaving!At, Leaving!map, Leaving!manager
<1>2. id \in Radios /\ id >= 1 /\ id <= made /\ idleJobs[j] \in IdleJob /\ Captured(j)
  BY <1>1, TypesOfJob DEF IdleInv, Captured
<1>3. radios[id] \in Radio /\ radios[id].epoch \in Nat /\ RadioIs(id) /\ ~radios[id].connected
  BY <1>1, <1>2, TypesOfRadio DEF IdleInv, Captured
<1>4. /\ s \in Radio /\ s.connected /\ s.epoch = radios[id].epoch + 1 /\ s.old = radios[id].old
      /\ s.phase = "idle" /\ s.cause = "none"
  <2>1. radios[id].epoch + 1 \in Nat \ {0}
    BY <1>3
  <2> QED BY <1>3, <2>1 DEF Radio, RadioIs
<1>5. PICK r \in IdleJob : /\ idleJobs' = [idleJobs EXCEPT ![j] = r]
                           /\ \/ r.pc = "resting"
                              \/ /\ shutdown = "up" /\ r.pc = "start" /\ r.session = id
                                 /\ r.epoch = radios[id].epoch + 1
  <2>1. CASE Leaving!End(j)
    BY <2>1, RestingIs DEF Leaving!End
  <2>2. CASE Leaving!Admitted /\ idleJobs' = [idleJobs EXCEPT ![j].pc = "start", ![j].epoch = @ + 1]
    <3> DEFINE r == [idleJobs[j] EXCEPT !.pc = "start", !.epoch = idleJobs[j].epoch + 1]
    <3>1. idleJobs' = [idleJobs EXCEPT ![j] = r]
      BY <2>2 DEF IdleInv, IdleTypes
    <3>2. idleJobs[j].epoch + 1 \in Nat
      BY TypesOfJob
    <3>3. r \in IdleJob /\ r.pc = "start" /\ r.session = id /\ r.epoch = radios[id].epoch + 1
      BY <1>1, <1>2, <3>2 DEF IdleJob
    <3> QED BY <2>2, <3>1, <3>3 DEF Leaving!Admitted
  <2> QED BY <2>1, <2>2 DEF Leaving!Joined
<1>6. idleJobs[j].session = id
  OBVIOUS
<1> HIDE DEF id, s
<1>7. /\ radios' \in [Radios -> Radio] /\ radios'[id] = s /\ \A i \in Radios \ {id} : radios'[i] = radios[i]
      /\ idleJobs' \in [Jobs -> IdleJob] /\ idleJobs'[j] = r /\ \A k \in Jobs \ {j} : idleJobs'[k] = idleJobs[k]
  BY <1>1, <1>2, <1>4, <1>5 DEF IdleInv, IdleTypes
<1>8. IdleTypes'
  BY <1>1, <1>7 DEF IdleInv, IdleTypes
<1>9. Quiet'
  BY <1>1, <1>5, <1>7 DEF IdleInv, Quiet
<1>10. Bounded'
  BY <1>1, <1>4, <1>5, <1>7, CurrentIs, BoundedStays
<1>11. ASSUME NEW i \in Radios PROVE RadioIs(i)'
  BY <1>1, <1>2, <1>4, <1>7 DEF IdleInv, RadioIs
<1>12. ASSUME NEW i \in Radios, GivenUp(i)', i \notin held' PROVE Abandoned(i)'
  <2>1. Abandoned(i)
    BY <1>1, <1>12 DEF IdleInv, GivenUp
  <2>2. i # id
    BY <1>1, <1>6, <2>1 DEF Abandoned
  <2> QED BY <1>5, <1>7, <2>1, <2>2 DEF Abandoned
<1>13. ASSUME NEW k \in Jobs PROVE Captured(k)'
  <2>1. CASE k = j
    BY <1>2, <1>3, <1>4, <1>5, <1>7, <1>1, <2>1 DEF Captured
  <2>2. CASE k # j
    <3>1. idleJobs'[k] = idleJobs[k] /\ Captured(k) /\ idleJobs[k].epoch \in Nat
      BY <1>7, <2>2, TypesOfJob DEF IdleInv
    <3>2. CASE idleJobs[k].session = id
      <4>1. idleJobs[k].pc \in {"join", "start"} => /\ idleJobs[k].epoch <= radios'[id].epoch
                                                    /\ idleJobs[k].epoch # radios'[id].epoch
        BY <1>3, <1>4, <1>7, <3>1, <3>2 DEF Captured
      <4> QED BY <1>1, <1>4, <1>7, <3>1, <3>2, <4>1 DEF Captured
    <3>3. CASE idleJobs[k].session # id
      <4>1. idleJobs[k].pc \in {"evaluate", "got", "join", "start"} => radios'[idleJobs[k].session] = radios[idleJobs[k].session]
        BY <1>7, <3>3, TypesOfJob
      <4> QED BY <1>1, <3>1, <4>1 DEF Captured
    <3> QED BY <3>2, <3>3
  <2> QED BY <2>1, <2>2
<1> QED BY <1>8, <1>9, <1>10, <1>11, <1>12, <1>13 DEF IdleInv

LEMMA AgeKeeps ==
  ASSUME IdleInv, IdleAssumed, Leaving!Age
  PROVE  IdleInv'
<1>1. /\ current # 0 /\ (\A j \in Jobs : idleJobs[j].pc = "resting")
      /\ radios' = [radios EXCEPT ![current] = [radios[current] EXCEPT !.old = TRUE]]
      /\ UNCHANGED <<made, current, noted, alarms, idleJobs, sweeper, shutdown, missed, held>>
  BY DEF Leaving!Age, Leaving!At, Leaving!map, Leaving!manager, IdleInv, IdleTypes
<1>2. PICK id \in Radios : id = current
  BY <1>1, CurrentIs
<1> DEFINE s == [radios[id] EXCEPT !.old = TRUE]
<1>3. radios' = [radios EXCEPT ![id] = s]
  BY <1>1, <1>2
<1>4. s \in Radio /\ s.epoch = radios[id].epoch /\ s.connected = radios[id].connected
      /\ s.phase = radios[id].phase /\ s.cause = radios[id].cause
  BY TypesOfRadio DEF Radio
<1> HIDE DEF s
<1>5. radios' \in [Radios -> Radio] /\ radios'[id] = s /\ \A i \in Radios \ {id} : radios'[i] = radios[i]
  BY <1>3, <1>4 DEF IdleInv, IdleTypes
<1>6. \A i \in Radios : /\ radios'[i].epoch = radios[i].epoch /\ radios'[i].connected = radios[i].connected
                        /\ radios'[i].phase = radios[i].phase /\ radios'[i].cause = radios[i].cause
  BY <1>4, <1>5
<1>7. IdleTypes' /\ Quiet'
  BY <1>1, <1>5 DEF IdleInv, IdleTypes, Quiet
<1>8. Bounded'
  BY <1>1, <1>6, CurrentIs, BoundedStays
<1>9. ASSUME NEW i \in Radios PROVE RadioIs(i)' /\ (GivenUp(i)' /\ i \notin held' => Abandoned(i)')
  BY <1>1, <1>6 DEF IdleInv, RadioIs, GivenUp, Abandoned
<1>10. ASSUME NEW j \in Jobs PROVE Captured(j)'
  BY <1>1 DEF Captured
<1> QED BY <1>7, <1>8, <1>9, <1>10 DEF IdleInv

LEMMA GotHoldIs == Leaving!GotHold(current) <=> \E j \in Jobs : idleJobs[j].session = current /\ idleJobs[j].pc = "got"
BY DEF Leaving!GotHold, Leaving!At

LEMMA SweepKeeps ==
  ASSUME IdleInv, IdleAssumed, Leaving!Sweep
  PROVE  IdleInv'
<1>1. /\ sweeper = "waits" /\ current # 0 /\ sweeper' = "drops"
      /\ radios[current].old /\ ~radios[current].connected
      /\ held' = IF Leaving!GotHold(current) THEN held \cup {current} ELSE held
      /\ UNCHANGED <<radios, made, current, noted, alarms, idleJobs, shutdown, missed>>
  BY DEF Leaving!Sweep, Leaving!CanGo, Leaving!map, Leaving!manager
<1>2. IdleTypes' /\ Quiet'
  BY <1>1 DEF IdleInv, IdleTypes, Quiet
<1>3. Bounded'
  BY <1>1, BoundedStays
<1>4. ASSUME NEW j \in Jobs PROVE Captured(j)'
  BY <1>1, <1>4 DEF IdleInv, Captured
<1>5. ASSUME NEW id \in Radios PROVE RadioIs(id)'
  BY <1>1 DEF IdleInv, RadioIs
<1>6. ASSUME NEW id \in Radios, GivenUp(id)', id \notin held' PROVE Abandoned(id)'
  <2>1. CASE id = current
    <3>1. ASSUME NEW j \in Jobs, idleJobs[j].session = id PROVE idleJobs[j].pc # "got" /\ idleJobs[j].pc # "join"
      BY <1>1, <1>6, <2>1, <3>1, GotHoldIs DEF IdleInv, Captured
    <3> QED BY <1>1, <2>1, <3>1 DEF Abandoned
  <2>2. CASE id # current
    BY <1>1, <1>6, <2>2 DEF IdleInv, GivenUp, Abandoned
  <2> QED BY <2>1, <2>2
<1> QED BY <1>2, <1>3, <1>4, <1>5, <1>6 DEF IdleInv

LEMMA DropKeeps ==
  ASSUME IdleInv, IdleAssumed, Leaving!Drop
  PROVE  IdleInv'
<1>1. /\ sweeper = "drops" /\ sweeper' = "waits" /\ current' = 0
      /\ UNCHANGED <<radios, made, noted, alarms, idleJobs, shutdown, missed, held>>
  BY DEF Leaving!Drop, Leaving!manager
<1>2. made \in Nat /\ 0 \in 0..made
  <2>1. made \in 0..MaxSessions
    BY DEF IdleInv, IdleTypes
  <2> QED BY <2>1 DEF IdleAssumed
<1>3. IdleTypes'
  BY <1>1, <1>2 DEF IdleInv, IdleTypes
<1>4. Quiet'
  BY <1>1 DEF IdleInv, Quiet
<1>5. Bounded'
  BY <1>1 DEF Bounded
<1>6. ASSUME NEW j \in Jobs PROVE Captured(j)'
  BY <1>1 DEF IdleInv, Captured
<1>7. ASSUME NEW id \in Radios PROVE RadioIs(id)' /\ (GivenUp(id)' /\ id \notin held' => Abandoned(id)')
  BY <1>1 DEF IdleInv, RadioIs, GivenUp, Abandoned
<1> QED BY <1>3, <1>4, <1>5, <1>6, <1>7 DEF IdleInv

\* The sweeper ends, or Shutdown goes on without touching a session.
LEMMA EndingKeeps ==
  ASSUME IdleInv, IdleAssumed, Leaving!SweeperEnds \/ Leaving!ShutdownBegins \/ Leaving!WorkersDone
  PROVE  IdleInv'
<1>1. /\ UNCHANGED <<radios, made, current, noted, alarms, idleJobs, missed, held>>
      /\ \/ sweeper = "waits" /\ sweeper' = "ended" /\ shutdown' = shutdown
         \/ sweeper' = sweeper /\ shutdown = "up" /\ shutdown' = "closed"
         \/ sweeper' = sweeper /\ shutdown = "stopped" /\ shutdown' = "gave up"
         \/ /\ sweeper' = sweeper /\ shutdown = "stopped" /\ shutdown' = "done" /\ sweeper = "ended"
            /\ \A j \in Jobs : idleJobs[j].pc \notin {"timeout", "start"}
  BY DEF Leaving!SweeperEnds, Leaving!ShutdownBegins, Leaving!WorkersDone, Leaving!Working, Leaving!map, Leaving!manager
<1>2. IdleTypes' /\ Quiet'
  BY <1>1 DEF IdleInv, IdleTypes, Quiet
<1>3. Bounded'
  <2>1. shutdown' = "up" => shutdown = "up"
    BY <1>1
  <2>2. idleJobs' = idleJobs /\ alarms' = alarms /\ current' = current /\ radios' = radios /\ missed' = missed
    BY <1>1
  <2>3. Bounded
    BY DEF IdleInv
  <2> QED BY <2>1, <2>2, <2>3 DEF Bounded, Timed
<1>4. ASSUME NEW j \in Jobs PROVE Captured(j)'
  BY <1>1 DEF IdleInv, Captured
<1>5. ASSUME NEW id \in Radios PROVE RadioIs(id)'
  BY <1>1 DEF IdleInv, RadioIs
<1>6. ASSUME NEW id \in Radios, GivenUp(id)', id \notin held' PROVE Abandoned(id)'
  <2>1. GivenUp(id)
    BY <1>1, <1>6 DEF GivenUp, Ended
  <2> QED BY <1>1, <1>6, <2>1 DEF IdleInv, Abandoned
<1> QED BY <1>2, <1>3, <1>4, <1>5, <1>6 DEF IdleInv

LEMMA StopSessionsKeeps ==
  ASSUME IdleInv, IdleAssumed, Leaving!StopSessions
  PROVE  IdleInv'
<1>1. /\ shutdown = "closed" /\ shutdown' = "stopped"
      /\ UNCHANGED <<made, current, idleJobs, sweeper, missed>>
  BY DEF Leaving!StopSessions, Leaving!map
<1>2. Bounded' /\ Quiet'
  BY <1>1 DEF Bounded, Quiet
<1>3. CASE current = 0
  <2>1. UNCHANGED <<radios, noted, alarms, held>>
    BY <1>3 DEF Leaving!StopSessions, Leaving!manager
  <2>2. IdleTypes'
    BY <1>1, <2>1 DEF IdleInv, IdleTypes
  <2>3. ASSUME NEW j \in Jobs PROVE Captured(j)'
    BY <1>1, <2>1 DEF IdleInv, Captured
  <2>4. ASSUME NEW id \in Radios PROVE RadioIs(id)' /\ (GivenUp(id)' /\ id \notin held' => Abandoned(id)')
    <3>1. id # current
      BY <1>3 DEF Radios
    <3> QED BY <1>1, <2>1, <3>1 DEF IdleInv, RadioIs, GivenUp, Abandoned
  <2> QED BY <1>2, <2>2, <2>3, <2>4 DEF IdleInv
<1>4. CASE current # 0
  <2>1. PICK id \in Radios : id = current
    BY <1>4, CurrentIs
  <2>2. /\ Leaving!StopTimer /\ radios' = [radios EXCEPT ![id] = Leaving!Stopped(id)]
        /\ held' = IF Leaving!GotHold(current) THEN held \cup {id} ELSE held
    BY <1>4, <2>1 DEF Leaving!StopSessions
  <2>3. /\ Leaving!Stopped(id) \in Radio /\ Leaving!Stopped(id).epoch = radios[id].epoch + 1
        /\ ~Leaving!Stopped(id).connected /\ ~Leaving!Stopped(id).old
        /\ Leaving!Stopped(id).phase = "idle" /\ Leaving!Stopped(id).cause = "none"
    BY StoppedIs
  <2> DEFINE s == Leaving!Stopped(id)
  <2> HIDE DEF s
  <2>4. s \in Radio /\ s.epoch = radios[id].epoch + 1 /\ ~s.connected /\ ~s.old /\ s.phase = "idle" /\ s.cause = "none"
        /\ radios' = [radios EXCEPT ![id] = s] /\ radios[id].epoch \in Nat
    BY <2>2, <2>3, TypesOfRadio DEF s
  <2>5. radios' \in [Radios -> Radio] /\ radios'[id] = s /\ \A i \in Radios \ {id} : radios'[i] = radios[i]
    BY <2>4 DEF IdleInv, IdleTypes
  <2>6. IdleTypes'
    BY <1>1, <2>2, <2>5, StopTimerIs DEF IdleInv, IdleTypes
  <2>7. ASSUME NEW i \in Radios PROVE RadioIs(i)'
    BY <1>1, <2>4, <2>5 DEF IdleInv, RadioIs
  <2>8. ASSUME NEW j \in Jobs PROVE Captured(j)'
    <3>1. idleJobs'[j] = idleJobs[j] /\ Captured(j) /\ idleJobs[j].epoch \in Nat
      BY <1>1, TypesOfJob DEF IdleInv
    <3>2. CASE idleJobs[j].session = id
      BY <1>1, <2>4, <2>5, <3>1, <3>2 DEF Captured
    <3>3. CASE idleJobs[j].session # id
      <4>1. idleJobs[j].pc \in {"evaluate", "got", "join", "start"} => radios'[idleJobs[j].session] = radios[idleJobs[j].session]
        BY <2>5, <3>3, TypesOfJob
      <4> QED BY <1>1, <3>1, <4>1 DEF Captured
    <3> QED BY <3>2, <3>3
  <2>9. ASSUME NEW i \in Radios, GivenUp(i)', i \notin held' PROVE Abandoned(i)'
    <3>1. CASE i = id
      <4>1. ASSUME NEW j \in Jobs, idleJobs[j].session = id
            PROVE  idleJobs[j].pc # "got" /\ (idleJobs[j].pc = "join" => idleJobs[j].epoch # radios'[id].epoch)
        <5>1. idleJobs[j].pc # "got"
          BY <2>1, <2>2, <2>9, <3>1, <4>1, GotHoldIs
        <5>2. idleJobs[j].pc = "join" => idleJobs[j].epoch <= radios[id].epoch
          BY <4>1 DEF IdleInv, Captured
        <5>3. idleJobs[j].epoch \in Nat
          BY TypesOfJob
        <5> QED BY <2>4, <2>5, <5>1, <5>2, <5>3
      <4> QED BY <1>1, <2>4, <2>5, <3>1, <4>1 DEF Abandoned
    <3>2. CASE i # id
      <4>1. GivenUp(i) /\ i \notin held
        BY <1>1, <2>1, <2>2, <2>9, <3>2 DEF GivenUp
      <4> QED BY <1>1, <2>5, <3>2, <4>1 DEF IdleInv, Abandoned
    <3> QED BY <3>1, <3>2
  <2> QED BY <1>2, <2>6, <2>7, <2>8, <2>9 DEF IdleInv
<1> QED BY <1>3, <1>4

LEMMA IdleKeeps ==
  ASSUME IdleInv, IdleAssumed, [Leaving!Next]_(Leaving!vars)
  PROVE  IdleInv'
<1>1. ASSUME NEW j \in Jobs, Leaving!JobStep(j) PROVE IdleInv'
  BY <1>1, EventKeeps, EvaluateEmptyKeeps, RestKeeps, EvaluateHumansKeeps, AlarmKeeps, CallbackKeeps, TimeoutKeeps,
     LookupKeeps, ConnectKeeps, JoinedKeeps, StartedKeeps, ControlKeeps DEF Leaving!JobStep, Leaving!TimerIds
<1>2. CASE Leaving!Move \/ UNCHANGED Leaving!vars
  BY <1>2, IdleStays DEF Leaving!Move, Leaving!vars, Leaving!map, Leaving!manager
<1>3. ASSUME NEW id \in Leaving!Ids, Leaving!Finish(id) PROVE IdleInv'
  BY <1>3, FinishKeeps DEF Leaving!Ids, Radios
<1> QED BY <1>1, <1>2, <1>3, AgeKeeps, SweepKeeps, DropKeeps, EndingKeeps, StopSessionsKeeps DEF Leaving!Next

LEMMA IdleInit ==
  ASSUME IdleAssumed, Leaving!Init
  PROVE  IdleInv
<1>1. /\ radios = [id \in Radios |-> Leaving!NewSession] /\ made = 0 /\ current = 0 /\ noted = 0
      /\ alarms = [t \in 1..MaxTimers |-> 0] /\ idleJobs = [j \in Jobs |-> Leaving!Resting]
      /\ sweeper = "waits" /\ shutdown = "up"
  BY DEF Leaving!Init, Leaving!Ids, Leaving!TimerIds, Radios
<1>2. Leaving!NewSession \in Radio /\ ~Leaving!NewSession.connected /\ Leaving!NewSession.phase = "idle"
      /\ Leaving!NewSession.cause = "none"
  BY DEF Leaving!NewSession, Radio
<1>3. 0 \in 0..MaxSessions /\ 0 \in 0..MaxTimers
  BY DEF IdleAssumed
<1>4. IdleTypes
  BY <1>1, <1>2, <1>3, RestingIs DEF IdleTypes
<1>5. Bounded /\ Quiet
  BY <1>1 DEF Bounded, Quiet
<1>6. ASSUME NEW id \in Radios PROVE RadioIs(id) /\ ~GivenUp(id)
  BY <1>1, <1>2 DEF RadioIs, GivenUp, Radios
<1>7. ASSUME NEW j \in Jobs PROVE Captured(j)
  BY <1>1, RestingIs DEF Captured
<1> QED BY <1>4, <1>5, <1>6, <1>7 DEF IdleInv

LEMMA IdleFollows ==
  ASSUME IdleInv
  PROVE  Leaving!PausedIsBounded /\ Leaving!WorkersEnd /\ Leaving!DroppedIsIdle
<1>1. Leaving!PausedIsBounded
  BY DEF IdleInv, Bounded, Timed, Leaving!PausedIsBounded, Leaving!TimerIds
<1>2. Leaving!WorkersEnd
  BY DEF IdleInv, Quiet, Leaving!WorkersEnd, Leaving!Working
<1>3. Leaving!DroppedIsIdle
  <2> SUFFICES ASSUME NEW id \in Radios, radios[id].connected, id # current \/ shutdown \in Ended
               PROVE  id \in held
    BY DEF Leaving!DroppedIsIdle, Leaving!Ids, Radios, Ended
  <2>1. id <= made
    BY DEF IdleInv, RadioIs
  <2>2. GivenUp(id)
    BY <2>1 DEF GivenUp
  <2> QED BY <2>2 DEF IdleInv, Abandoned
<1> QED BY <1>1, <1>2, <1>3

ConnectionsWhenRun ==
  /\ focus = "voice transport" => TransportInv
  /\ focus = "idle" => IdleInv

\* For any goroutines, sessions and timers: no socket or handler of a connection that was
\* closed stays open, its loss is reported once, and Discord has heard what was said last unless
\* a write has failed, which the heartbeat does not survive (dave.go); a session paused for an empty channel has its timer, and one that was given up
\* is not connected (recovery.go, session.go, module.go).
THEOREM ConnectionIsKeptAlways ==
  ASSUME TransportAssumed, IdleAssumed
  PROVE  MessagesSpec => []ConnectionIsKept
<1>1. MessagesInit => ConnectionsWhenRun
  BY InitOfOne, TransportInit, IdleInit DEF ConnectionsWhenRun
<1>2. ConnectionsWhenRun /\ [MessagesNext]_<<focus, From1, mcvars>> => ConnectionsWhenRun'
  BY StepOfOne, TransportKeeps, IdleKeeps DEF ConnectionsWhenRun
<1>3. ConnectionsWhenRun => ConnectionIsKept
  BY TransportFollows, IdleFollows DEF ConnectionsWhenRun, ConnectionIsKept
<1> QED BY <1>1, <1>2, <1>3, PTL DEF MessagesSpec
=============================================================================
