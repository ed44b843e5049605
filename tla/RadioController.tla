--------------------------- MODULE RadioController ---------------------------
(***************************************************************************)
(* The controller of one guild's radio (radio/controller.go): the card     *)
(* that shows what is played, kept in the session's text channel, replaced *)
(* when it has to be, and the replaced cards deleted.  Syncs are asked for *)
(* by goroutines and take the session's controllerMu one at a time, as do  *)
(* the commands that show the card anew or switch its view; the session    *)
(* itself changes under s.mu at any time, also while Discord is asked.     *)
(*                                                                         *)
(* The playback is reduced to what a card shows of it (see RadioSession);  *)
(* a card is what Discord keeps of it.                                     *)
(***************************************************************************)
EXTENDS Naturals, FiniteSets

CONSTANTS
  Channels,
  Idle, None,
  MaxCards,    \* bound: cards that are ever sent
  MaxChanges,  \* bound: what happens to the session from outside
  MaxErrors    \* bound: calls to Discord that fail

Views == {"player", "queue"}

VARIABLES
  phase, epoch, gen, view,   \* of the session
  text, voice,               \* textChannelID, voiceChannelID
  player,                    \* playerChannelID
  controller,                \* controllerChannelID and controllerMessageID
  pending,                   \* pendingControllerCleanup
  backoff, suppressed,       \* controllerBackoffChannel while it lasts, controllerSuppressedChannel
  asked,                     \* syncs whose goroutine waits for controllerMu
  job,                       \* who holds controllerMu
  cards, gone, deletions,    \* Discord: cards, deleted channels, and those to be reported
  made, changes, errors,
  dropped,                   \* ghost: cards that were replaced without a note
  refused,                   \* ghost: channels that are known to be gone since they were last used
  disturbed                  \* ghost: the card was left as it is, until the next sync that succeeds

session == <<phase, epoch, gen, view, text, voice, player>>
block == <<backoff, suppressed>>
discord == <<cards, gone, deletions, made>>
bounds == <<changes, errors>>
ghosts == <<dropped, refused, disturbed>>
vars == <<session, controller, pending, block, asked, job, discord, bounds, ghosts>>

NoCard == [ch |-> None, id |-> 0]
Valid(ref) == ref.ch # None /\ ref.id # 0
Live(ref) == \E c \in cards : c.ch = ref.ch /\ c.id = ref.id
Request == [epoch |-> epoch, gen |-> gen]

\* The cards, and the track that each shows: the generation stands for it.
Card(name, track) == [card |-> name, gen |-> track]
IdleCard == Card("idle", 0)
LoadingCard == Card("loading", gen)
RecoveringCard == Card("recovering", gen)
PlayerCard == Card("player", gen)
QueueCard == Card("queue", gen)

\* What is shown of the session when v is its view.
ShownAs(v) ==
  CASE phase = "recovering" -> RecoveringCard
    [] phase = "loading" -> LoadingCard
    [] phase = "idle" -> IdleCard
    [] phase = "playing" -> IF v = "queue" THEN QueueCard ELSE PlayerCard
Shown == ShownAs(view)

TypeOK ==
  /\ phase \in {"idle", "loading", "playing", "recovering"} /\ view \in Views
  /\ text \in Channels \cup {None} /\ voice \in Channels \cup {None}
  /\ controller = NoCard \/ Valid(controller)
  /\ \A ref \in pending : Valid(ref)
  /\ \A c \in cards : c.ch \in Channels \ gone /\ c.id \in 1..made

Init ==
  /\ phase = "idle" /\ epoch = 0 /\ gen = 0 /\ view = "player"
  /\ text = None /\ voice = None /\ player \in Channels \cup {None}
  /\ controller = NoCard /\ pending = {} /\ backoff = None /\ suppressed = None
  /\ asked = {} /\ job = Idle
  /\ cards = {} /\ gone = {} /\ deletions = {} /\ made = 0 /\ changes = 0 /\ errors = 0
  /\ dropped = {} /\ refused = {} /\ disturbed = FALSE

Changes == changes < MaxChanges /\ changes' = changes + 1 /\ UNCHANGED errors
Fails == errors < MaxErrors /\ errors' = errors + 1 /\ UNCHANGED changes

(***************************************************************************)
(* The session, from outside.                                              *)
(***************************************************************************)

\* Connect or Enqueue from a text channel, into a voice channel if there is none yet.  Connect
\* asks for a sync when something is played and it finds the session connected.
Connect(ch, v) ==
  /\ Changes /\ ch \notin gone /\ v \notin gone
  /\ voice' = IF voice = None THEN v ELSE voice
  /\ text' = ch /\ refused' = refused \ {ch}
  /\ \/ asked' = IF voice # None /\ phase = "playing" THEN asked \cup {Request} ELSE asked
     \/ UNCHANGED asked
  /\ disturbed' = (disturbed \/ text # ch)
  /\ UNCHANGED <<phase, epoch, gen, view, player, controller, pending, block, job, discord, dropped>>

\* startNext: another generation, whose card waits; then the stream is committed.
Load ==
  /\ Changes /\ voice # None
  /\ phase' = "loading" /\ gen' = gen + 1 /\ view' = "player"
  /\ UNCHANGED <<epoch, text, voice, player, controller, pending, block, asked, job, discord, ghosts>>

LoadingRefresh ==
  /\ phase = "loading" /\ asked' = asked \cup {Request}
  /\ UNCHANGED <<session, controller, pending, block, job, discord, bounds, ghosts>>

\* Mutant: the card stays as it was while the track was loaded.
CommitSilently ==
  /\ phase = "loading" /\ phase' = "playing"
  /\ UNCHANGED <<epoch, gen, view, text, voice, player, controller, pending, block, asked, job,
                 discord, bounds, ghosts>>

Commit ==
  /\ phase = "loading" /\ phase' = "playing"
  /\ asked' = asked \cup {Request}
  /\ UNCHANGED <<epoch, gen, view, text, voice, player, controller, pending, block, job, discord,
                 bounds, ghosts>>

\* processVoiceLoss: another epoch.
VoiceLost ==
  /\ Changes /\ phase = "playing"
  /\ phase' = "recovering" /\ epoch' = epoch + 1
  /\ asked' = IF text # None THEN asked \cup {[epoch |-> epoch + 1, gen |-> gen]} ELSE asked
  /\ UNCHANGED <<gen, view, text, voice, player, controller, pending, block, job, discord, ghosts>>

\* Mutant: the card is forgotten.
StopAndForget ==
  /\ Changes /\ voice # None
  /\ phase' = "idle" /\ epoch' = epoch + 1 /\ gen' = gen + 1 /\ view' = "player" /\ voice' = None
  /\ controller' = NoCard
  /\ asked' = IF text # None THEN asked \cup {[epoch |-> epoch + 1, gen |-> gen + 1]} ELSE asked
  /\ UNCHANGED <<text, player, pending, block, job, discord, ghosts>>

Retained == IF Valid(controller) THEN pending \cup {controller} ELSE pending

\* Control(ControlStop), beginStoppingLocked and finishStoppingLocked.
Stop ==
  /\ Changes /\ voice # None
  /\ phase' = "idle" /\ epoch' = epoch + 1 /\ gen' = gen + 1 /\ view' = "player" /\ voice' = None
  /\ pending' = Retained /\ controller' = NoCard
  /\ asked' = IF text # None THEN asked \cup {[epoch |-> epoch + 1, gen |-> gen + 1]} ELSE asked
  /\ UNCHANGED <<text, player, block, job, discord, ghosts>>

\* The ticker of startControllerUpdater; a queue that nobody turned for 90 seconds gives way.
Tick ==
  /\ phase = "playing"
  /\ view' = "player" /\ asked' = asked \cup {Request}
  /\ UNCHANGED <<phase, epoch, gen, text, voice, player, controller, pending, block, job, discord,
                 bounds, ghosts>>

\* HandleChannelDeleted, when the event arrives.
HandleChannelDeleted(ch) ==
  LET stops == voice = ch
      held == IF stops THEN NoCard ELSE controller
      kept == IF stops THEN Retained ELSE pending
      lost == text = ch \/ held.ch = ch
      falls == lost /\ voice \notin {None, ch} IN
  /\ ch \in deletions /\ deletions' = deletions \ {ch} /\ refused' = refused \cup {ch}
  /\ IF stops
     THEN phase' = "idle" /\ epoch' = epoch + 1 /\ gen' = gen + 1 /\ view' = "player" /\ voice' = None
     ELSE UNCHANGED <<phase, epoch, gen, view, voice>>
  /\ controller' = IF lost THEN NoCard ELSE held
  /\ pending' = IF lost THEN {ref \in kept : ref.ch # ch} ELSE kept
  /\ dropped' = IF lost /\ held.ch \notin {None, ch} THEN dropped \cup {held.id} ELSE dropped
  /\ text' = CASE falls -> voice [] ~falls /\ text = ch -> None [] OTHER -> text
  /\ asked' = IF falls /\ phase = "playing" THEN asked \cup {Request} ELSE asked
  /\ disturbed' = (disturbed \/ stops \/ lost)
  /\ UNCHANGED <<player, block, job, cards, gone, made, bounds>>

\* The player's own channel is chosen or given up: the card goes there with the next sync.
SetPlayerChannel(ch) ==
  /\ Changes /\ ch \notin gone /\ ch # player
  /\ player' = ch /\ disturbed' = TRUE
  /\ UNCHANGED <<phase, epoch, gen, view, text, voice, controller, pending, block, asked, job,
                 discord, dropped, refused>>

(***************************************************************************)
(* Discord.                                                                *)
(***************************************************************************)

ChannelIsDeleted(ch) ==
  /\ Changes /\ ch \notin gone
  /\ gone' = gone \cup {ch} /\ deletions' = deletions \cup {ch}
  /\ cards' = {c \in cards : c.ch # ch}
  /\ disturbed' = TRUE
  /\ UNCHANGED <<session, controller, pending, block, asked, job, made, dropped, refused>>

CardIsDeleted(c) ==
  /\ Changes /\ c \in cards
  /\ cards' = cards \ {c} /\ disturbed' = TRUE
  /\ UNCHANGED <<session, controller, pending, block, asked, job, gone, deletions, made, dropped, refused>>

BackoffExpires ==
  /\ backoff # None /\ backoff' = None
  /\ UNCHANGED <<session, controller, pending, suppressed, asked, job, discord, bounds, ghosts>>

(***************************************************************************)
(* Writing a card: DiscordControllerPort.CreateOrUpdate.                   *)
(***************************************************************************)

\* req: of a sync; ref: what is written; old: the session's card at that time; shows: the
\* snapshot; at: epoch and generation of the snapshot; result: what came of it.
Job(kind, step, req, ref, old) ==
  [kind |-> kind, step |-> step, req |-> req, ref |-> ref, old |-> old,
   shows |-> Shown, at |-> Request, result |-> "none", todo |-> {}]

Becomes(r) == job' = r
Ends == job' = Idle

\* The card is edited where it is, unless somebody else's message is below it.
Patch ==
  /\ job # Idle /\ job.step = "write" /\ Live(job.ref)
  /\ cards' = {IF c.id = job.ref.id THEN [c EXCEPT !.shows = job.shows] ELSE c : c \in cards}
  /\ Becomes([job EXCEPT !.step = "record", !.result = "ok"])
  /\ UNCHANGED <<session, controller, pending, block, asked, gone, deletions, made, bounds, ghosts>>

Send ==
  /\ job # Idle /\ job.step = "write" /\ job.ref.ch \notin gone /\ made < MaxCards
  /\ made' = made + 1
  /\ cards' = cards \cup {[ch |-> job.ref.ch, id |-> made + 1, shows |-> job.shows]}
  /\ Becomes([job EXCEPT !.step = "record", !.result = "ok", !.ref.id = made + 1])
  /\ UNCHANGED <<session, controller, pending, block, asked, gone, deletions, bounds, ghosts>>

WriteFails ==
  /\ job # Idle /\ job.step = "write"
  /\ \/ job.ref.ch \in gone /\ Becomes([job EXCEPT !.step = "failed", !.result = "gone"]) /\ UNCHANGED bounds
     \/ /\ Fails /\ job.ref.ch \notin gone
        /\ \E r \in {"limited", "denied"} : Becomes([job EXCEPT !.step = "failed", !.result = r])
  /\ disturbed' = TRUE
  /\ UNCHANGED <<session, controller, pending, block, asked, discord, dropped, refused>>

Write == Patch \/ Send \/ WriteFails

\* controllerWriteBlockLocked: a block of another channel is lifted.
Lifted(ch) ==
  /\ backoff' = IF backoff = ch THEN backoff ELSE None
  /\ suppressed' = IF suppressed = ch THEN suppressed ELSE None
Blocked(ch) == ch \in {backoff, suppressed}

\* recordControllerWriteErrorLocked.
RecordError(ch, r) ==
  /\ backoff' = IF r = "limited" THEN ch ELSE backoff
  /\ suppressed' = IF r = "denied" THEN ch ELSE suppressed

(***************************************************************************)
(* syncController.                                                         *)
(***************************************************************************)

Target == IF player # None THEN player ELSE text

\* The player's channel is the text channel again, whatever became of it.
Retarget == text' = Target /\ refused' = refused \ {player}

SyncIgnored(r) ==
  /\ r \in asked /\ job = Idle
  /\ asked' = asked \ {r} /\ Retarget
  /\ r.epoch # epoch \/ Target = None
  /\ UNCHANGED <<phase, epoch, gen, view, voice, player, controller, pending, block, job, discord,
                 bounds, dropped, disturbed>>

SyncBegins(r) ==
  LET ref == [ch |-> Target, id |-> IF controller.ch = Target THEN controller.id ELSE 0] IN
  /\ r \in asked /\ job = Idle /\ r.epoch = epoch /\ Target # None
  /\ asked' = asked \ {r} /\ Retarget
  /\ Lifted(Target)
  /\ CASE suppressed = Target -> Becomes(Job("sync", "check", r, ref, controller))
       [] suppressed # Target /\ backoff = Target -> UNCHANGED job
       [] OTHER -> Becomes(Job("sync", "write", r, ref, controller))
  /\ disturbed' = (disturbed \/ Blocked(Target) \/ (player # None /\ text # player))
  /\ UNCHANGED <<phase, epoch, gen, view, voice, player, controller, pending, discord, bounds,
                 dropped>>

\* The session is as the sync found it.
Current == epoch = job.at.epoch /\ text = job.ref.ch

\* Mutant: the sync is asked for again in the same channel.
FallBackNowhere ==
  /\ asked' = asked \cup {Request}
  /\ UNCHANGED <<phase, epoch, gen, view, voice, player, text, controller, pending, block, dropped>>

\* The channel is gone: on in the voice channel's.
FallBack ==
  /\ pending' = {ref \in pending : ref.ch # job.ref.ch}
  /\ controller' = IF controller.ch = job.ref.ch THEN NoCard ELSE controller
  /\ suppressed' = None /\ text' = voice
  /\ asked' = asked \cup {Request}
  /\ UNCHANGED <<phase, epoch, gen, view, voice, player, backoff, dropped>>

\* CheckControllerPermissions of a channel that is suppressed.
Check ==
  /\ job # Idle /\ job.step = "check" /\ Ends
  /\ IF job.ref.ch \in gone
     THEN /\ refused' = refused \cup {job.ref.ch}
          /\ IF Current /\ voice \notin {None, job.ref.ch} THEN FallBack
             ELSE UNCHANGED <<session, controller, pending, block, asked, dropped>>
     ELSE /\ \/ suppressed' = IF Current /\ suppressed = job.ref.ch THEN None ELSE suppressed
             \/ UNCHANGED suppressed
          /\ UNCHANGED <<session, controller, pending, backoff, asked, dropped, refused>>
  /\ UNCHANGED <<discord, bounds, disturbed>>

SyncFailed ==
  /\ job # Idle /\ job.step = "failed" /\ job.kind = "sync" /\ Ends
  /\ refused' = IF job.result = "gone" /\ Current THEN refused \cup {job.ref.ch} ELSE refused
  /\ CASE Current /\ job.result = "gone" /\ voice \notin {None, job.ref.ch} -> FallBack
       [] Current /\ job.result # "gone" ->
            /\ RecordError(job.ref.ch, job.result)
            /\ UNCHANGED <<session, controller, pending, asked, dropped>>
       [] OTHER -> UNCHANGED <<session, controller, pending, block, asked, dropped>>
  /\ UNCHANGED <<discord, bounds, disturbed>>

Drains(refs) ==
  job' = IF refs = {} THEN Idle ELSE [job EXCEPT !.step = "drain", !.todo = refs]

\* What the sync makes of the card it has written.
Adopts == controller = NoCard \/ (gen = job.req.gen /\ job.ref.id # job.old.id)
SyncRecords ==
  LET stale == {ref \in {job.old} : Adopts /\ gen = job.req.gen /\ Valid(ref) /\ ref # job.ref}
      extra == {ref \in {job.ref} : ~Adopts /\ ref # job.old} IN
  /\ job # Idle /\ job.step = "record" /\ job.kind = "sync"
  /\ backoff' = IF backoff = job.ref.ch THEN None ELSE backoff
  /\ IF Current
     THEN /\ controller' = IF Adopts THEN job.ref ELSE controller
          /\ pending' = pending \cup stale \cup extra
          /\ disturbed' = IF Live(job.ref) /\ job.ref \notin pending' /\ job.shows = Shown THEN FALSE ELSE disturbed
     ELSE /\ pending' = pending \cup {job.ref}
          /\ disturbed' = TRUE /\ UNCHANGED controller
  /\ Drains(pending')
  /\ UNCHANGED <<session, suppressed, asked, discord, bounds, dropped, refused>>

(***************************************************************************)
(* drainSessionControllersLocked.                                          *)
(***************************************************************************)

\* A deletion that fails is left for the next time.
Delete ==
  /\ job # Idle /\ job.step = "drain"
  /\ \E ref \in job.todo :
       /\ Drains(job.todo \ {ref})
       /\ \/ /\ cards' = {c \in cards : ~(c.ch = ref.ch /\ c.id = ref.id)}
             /\ pending' = pending \ {ref} /\ UNCHANGED bounds
          \/ Fails /\ UNCHANGED <<cards, pending>>
  /\ UNCHANGED <<session, controller, block, asked, gone, deletions, made, ghosts>>

\* After a deleted channel, and at shutdown (drainPendingControllers).
Drain ==
  /\ job = Idle /\ pending # {}
  /\ job' = [Job("drain", "drain", Request, NoCard, NoCard) EXCEPT !.todo = pending]
  /\ UNCHANGED <<session, controller, pending, block, asked, discord, bounds, ghosts>>

(***************************************************************************)
(* ShowController: nowplaying sends a card of its own.                     *)
(***************************************************************************)

Show(ch) ==
  /\ Changes /\ job = Idle /\ phase = "playing" /\ ch \notin gone
  /\ Lifted(ch)
  /\ job' = IF Blocked(ch) THEN Idle ELSE Job("show", "write", Request, [ch |-> ch, id |-> 0], controller)
  /\ UNCHANGED <<session, controller, pending, asked, discord, ghosts>>

ShowRecords ==
  LET current == epoch = job.at.epoch IN
  /\ job # Idle /\ job.step = "record" /\ job.kind = "show"
  /\ backoff' = IF backoff = job.ref.ch THEN None ELSE backoff
  /\ refused' = IF current THEN refused \ {job.ref.ch} ELSE refused
  /\ IF current
     THEN /\ controller' = job.ref /\ text' = job.ref.ch
          /\ pending' = IF Valid(job.old) THEN pending \cup {job.old} ELSE pending
          /\ asked' = IF gen # job.at.gen THEN asked \cup {Request} ELSE asked
     ELSE pending' = pending \cup {job.ref} /\ UNCHANGED <<controller, text, asked>>
  /\ disturbed' = TRUE
  /\ Drains(pending')
  /\ UNCHANGED <<phase, epoch, gen, view, voice, player, suppressed, discord, bounds, dropped>>

ShowFailed ==
  /\ job # Idle /\ job.step = "failed" /\ job.kind = "show" /\ Ends
  /\ IF Current /\ job.result # "gone" THEN RecordError(job.ref.ch, job.result) ELSE UNCHANGED block
  /\ UNCHANGED <<session, controller, pending, asked, discord, bounds, ghosts>>

(***************************************************************************)
(* SetControllerView, and the buttons and options that use it.             *)
(***************************************************************************)

SetControllerView(v) ==
  LET ref == [ch |-> text, id |-> controller.id] IN
  /\ Changes /\ job = Idle
  /\ view' = v
  /\ job' = IF Valid(ref) THEN [Job("view", "write", Request, ref, controller) EXCEPT !.shows = ShownAs(v)]
            ELSE Idle
  /\ disturbed' = (disturbed \/ ~Valid(ref))
  /\ UNCHANGED <<phase, epoch, gen, text, voice, player, controller, pending, block, asked, discord,
                 dropped, refused>>

\* Whatever the session has become, and whatever card it had.
ViewRecords ==
  /\ job # Idle /\ job.step = "record" /\ job.kind = "view" /\ Ends
  /\ controller' = job.ref
  /\ dropped' = IF controller # NoCard /\ controller # job.ref THEN dropped \cup {controller.id} ELSE dropped
  /\ disturbed' = (disturbed \/ job.shows # Shown \/ job.ref.ch # text)
  /\ UNCHANGED <<session, pending, block, asked, discord, bounds, refused>>

ViewFailed ==
  /\ job # Idle /\ job.step = "failed" /\ job.kind = "view" /\ Ends
  /\ UNCHANGED <<session, controller, pending, block, asked, discord, bounds, ghosts>>

PlayerOptions == \E v \in Views : SetControllerView(v)
QueueBack == SetControllerView("player")
QueueTurn == SetControllerView("queue")

Commands ==
  \/ \E ch, v \in Channels : Connect(ch, v)
  \/ \E ch \in Channels : Show(ch)
  \/ \E ch \in Channels \cup {None} : SetPlayerChannel(ch)
  \/ PlayerOptions \/ QueueBack \/ QueueTurn \/ Stop

Sync ==
  \/ \E r \in asked : SyncIgnored(r) \/ SyncBegins(r)
  \/ Check \/ SyncFailed \/ SyncRecords

Next ==
  \/ Commands \/ Sync \/ Write \/ Drain \/ Delete
  \/ ShowRecords \/ ShowFailed \/ ViewRecords \/ ViewFailed
  \/ Load \/ LoadingRefresh \/ Commit \/ VoiceLost \/ Tick \/ BackoffExpires
  \/ \E ch \in Channels : ChannelIsDeleted(ch) \/ HandleChannelDeleted(ch)
  \/ \E c \in cards : CardIsDeleted(c)

Spec == Init /\ [][Next]_vars

(***************************************************************************)
(* Properties.                                                             *)
(***************************************************************************)

\* Every card in a channel is the session's, is to be deleted, or is in the hands of who holds
\* controllerMu: across stops, moves and syncs that come too late.  Two places lose one: a view
\* that is switched when the card is sent anew, and a deleted text channel that was not yet the
\* card's.
CardsAreKnown ==
  \A c \in cards :
    LET ref == [ch |-> c.ch, id |-> c.id] IN
    \/ ref \in pending \cup {controller}
    \/ job # Idle /\ ref \in {job.ref, job.old}
    \/ c.id \in dropped

\* When every sync has had its turn, the card is there and shows what is played: unless a
\* write failed, the card or its channel was deleted, or the text channel changed without one.
CardIsCurrent ==
  job = Idle /\ asked = {} /\ phase = "playing" /\ text # None /\ ~disturbed
    => \E c \in cards : c.ch = controller.ch /\ c.id = controller.id /\ c.shows = Shown

\* A sync does not begin to write to a channel that is known to be gone: unless it is the
\* player's channel, to which every sync returns, or there is no other.
LeavesWhatIsGone ==
  job = Idle /\ job' # Idle /\ job'.kind = "sync" /\ job'.step = "write"
    => job'.ref.ch \notin refused \/ job'.ref.ch = player \/ voice \in {None, job'.ref.ch} \cup gone

GoneIsLeft == [][LeavesWhatIsGone]_vars
=============================================================================
