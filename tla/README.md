# gobot-v2: a verification project

gobot-v2 is a Discord bot in Go: moderation, roles, levelling, giveaways, a
media "ripper", temporary voice channels, and a radio that streams songs into
voice channels.  It has no tests.  This directory holds TLA+ models of the parts
of it whose difficulty is concurrency, failure and time; TLC configurations that
check them on small instances; and proofs, checked by TLAPS, of the properties
that matter most, for every value of the constants.

Paths below are relative to `src/internal/`.  `PROJECT.json` lists components,
runs, mutants, the source lines behind every definition, hazards and theorems.

## 1. The system

The handler routes a message or an interaction to a command on a goroutine of
its own; gateway events get a goroutine each as well.  A command calls one
operation of a service, which keeps its state in memory under a mutex, in
SQLite, at Discord, or in all three.  Almost every difficulty of the program is
of one of three kinds: a section unlocks, waits for Discord, the network or a
file, and acts on what it knew before; two pieces of state that must agree are
written in two steps, either of which may fail; events and timers arrive late
and in any order.

| component | source | module |
|---|---|---|
| playlist of the radio | `radio/queue.go`, `types.go`, `session.go` | `RadioQueue`, `RadioPlaylist` |
| playback session, voice, recovery, watchdog | `radio/module.go`, `session.go`, `playback.go`, `recovery.go` | `RadioSession` |
| inactivity, eviction, shutdown of the radio | `radio/recovery.go`, `session.go`, `module.go` | `RadioIdle` |
| voice transport | `radio/dave.go` | `VoiceTransport` |
| radio settings | `radio/settings.go` | `RadioSettings`, `SettingsView` |
| song cache, prebuffer, leases | `radio/cache.go`, `prebuffer.go`, `playback.go` | `RadioFiles` |
| the player's card | `radio/controller.go`, `recovery.go`, `commands/radio/interactions.go` | `RadioController` |
| song requests, prompts, menus, votes | `commands/radio/`, `radio/resolver.go` | `RadioRequests` |
| giveaways | `commands/giveaway/`, `database/giveaway.go` | `Giveaway` |
| ripper pipeline | `ripper/pipeline.go`, `slots.go` | `RipperPipeline` |
| temporary voice rooms | `commands/voice/` | `TempVoice` |
| jail, temporary roles, leave and return | `roles/`, `commands/moderation/jail.go`, `mute.go`, `listeners/member.go` | `RoleManager` |
| the role manager's locks | `roles/locks.go` | `RoleLocks`, `KeyedMutex` |
| punishments and cases | `commands/moderation/punish.go` and the commands over it, `cases.go` | `Moderation` |
| lock, hide, lockdown, nuke | `commands/moderation/lock.go`, `channel_visibility.go`, `nuke.go` | `ChannelLocks` |
| locked nicknames | `commands/moderation/cases.go`, `listeners/member.go` | `Nicknames` |
| guild configuration and its cache | `database/config.go`, `cache.go`, `policy/restrictions.go`, the commands that write it | `GuildConfig` |
| word and invite filter | `commands/filter/`, `policy/filter_config.go` | `ContentFilter` |
| who may run a command | `policy/execution.go`, `handler/`, `main.go` | `CommandGate` |
| rate limits, cooldowns | `bot/ratelimit.go`, `handler/message.go` | `RateLimiter`, `Cooldowns` |
| levels and level roles | `listeners/leveling.go`, `database/leveling.go` | `Leveling` |
| embed builder | `listeners/embed_builder.go`, `commands/utility/embed.go` | `EmbedBuilder` |
| paginated messages | `bot/messaging.go`, `listeners/pagination.go` | `Pagination` |
| snipe | `listeners/snipe.go`, `commands/moderation/snipe.go` | `Snipe` |
| starboard | `listeners/starboard.go`, `database/starboard.go` | `Starboard` |

A radio session is a record under `session.mu`.  Every operation locks it for
one or a few short sections, collects the calls to make, unlocks and makes
them: stop a stream, close a connection, call `startNext`, which spawns a
worker, which starts a stream, whose goroutine calls `completePlayback` when it
ends.  `effectMu` and `connectMu` order the commands, `voiceJoinMu` the joins.
The transport reports losses to the session, the session shows itself through
the controller, takes its files from the cache and its mode from the settings.
A giveaway, a jail, a temporary role, a room and a configuration are rows which
timers, commands, events and a restart change by single statements.
`GuildConfig` is the base of `ContentFilter` and `CommandGate`, which extend it
by the tables and lists of their own; the roles that `Moderation` and `Leveling`
hand out go through `RoleManager`, and every operation of that on one member
through `RoleLocks`.

## 2. The modules

Each module begins with a comment that says what it stands for and what it
leaves out.  Common to all:

- One action is one section under a mutex, one statement on the database, or one
  call to Discord.  What a goroutine has captured is kept in its record (`job`,
  `jobs`, `c`, `handler`, `starter`, ...), with a `pc` naming the next step; so
  what it does next may be stale, as in the code.
- A call that the code expects to fail may fail (`Fails`, bounded by
  `MaxErrors`), and in the modules of rows the process may die between any two
  steps and start again (`Crash`).
- Text, layout and identifiers are model values.  Time is a small clock, or just
  the freedom of a timer to fire.
- A *ghost* is a variable that the code does not have and no guard reads.  It
  remembers what a property speaks about (`owed`: roles the jail took), or that
  one of the known disagreements of section 5 has happened (`raced`, `missed`,
  `forgotten`, `overlapped`, ...), which the property then excepts.  Each is
  declared as such.
- An operator marked *Mutant* is the code with a plausible bug.  It stands before
  the definition it would replace and no action uses it.  Every property, and
  every part of a composite one, has a mutant that TLC finds to violate it.

### The radio

`RadioQueue` holds one operator per function of `queue.go`, or per playlist part
of one of `session.go`, `playback.go`, `recovery.go`.  A playlist is a record
`[queue, history, current, loop]`; an entry is a track and whether autoplay chose
it.  Tracks are duplicates (`duplicateTracks`) when they are the same model
value; shuffling is any permutation.  `RadioPlaylist` is the abstract
specification: a playlist and the operations on it, nothing about how tracks are
played.

`RadioSession`, variable by variable:

| variable | code |
|---|---|
| `session` | the fields of `session` (`radio/session.go:30-92`) that control depends on: `phase`, `channelID`, `voice`, `playback`, `playbackStarting`, `sessionEpoch`, `playbackGeneration`, `is247`, `voiceTransition`, `externalMoveTarget` (with `externalMoveInFlight`), `stopping`, `restartingAfterStall`, `consecutiveStartupFailures` |
| `playlist` | `queue`, `history`, `current`, `loopMode` |
| `dialed`, `open` | connections `VoicePort.Join` returned, and those not closed |
| `streams` | stream goroutines that have not called `completePlayback` yet, with the generation and epoch they belong to |
| `starter` | `startNextWorker` goroutines: where they are and what they captured |
| `joins` | goroutines in `Connect`, in a recovery, or in the worker of a move |
| `losses`, `teardown` | `processVoiceLoss` calls before their first section, and between their two sections |
| `kicks` | `startNext` calls made after an unlock and not locked yet |
| `stalls`, `exhaustion`, `prefetch` | the watchdog's count and timer; the background autoplay fetch |

An action takes with it the `Stop`, `Close` and cancel calls that its goroutine
makes right after the unlock: these only mark objects which the section has just
detached.  The calls that matter for the order of things are steps of their own:
`startNext` after an unlock (`Kick`), a fetch, the start of a stream, a join, the
two-second wait of a recovery, a timer.  A revision or token that code captures
and compares later is a flag of the worker which turns false when the counter
moves on (`fresh`, `latest`): only equality is ever asked.  Further abstractions:

- The two short sections at the beginning of `Connect` (module.go:339-366 and
  371-373) are one step: between them it takes `voiceJoinMu`.  A `Connect` to the
  channel the session is already connected to only starts the next track.
- `RecoveryTarget` leaves out the fallback to the event's channel: a session with
  a connection has a channel.
- `startWorker` never refuses, and the path by which a panicking worker recovers
  (playback.go:1080-1112) is left out.
- `AutojoinChannel` is constant, although deleting that channel clears it.
- The watchdog may take any stream it monitors for stalled: frame times are data.
  It looks at the phase before it takes the lock (recovery.go:187-202), so the
  phase may have changed when it acts.
- One guild.  Sessions of different guilds share only `Module.mu` and the cache.
- A `moveTarget` left by an overtaken move stays set until a valid move ends or a
  stop, and later moves of the bot are ignored meanwhile; so does the code.

`RadioIdle` is about several sessions of one guild after another, each reduced to
epoch, phase, connection and 24/7 mode: it has what `RadioSession` leaves out,
the timer of an empty channel with its map entry and late callbacks, stale
counts of listeners, eviction, and `Shutdown`.  `VoiceTransport` is one connection
with its five goroutines, down to the fields of `DAVEVoiceConn`; `RadioSession`
uses what it promises.  `RadioSettings` stops a thread at every point where
`settings.go` unlocks or waits, and implements `SettingsView`: the store moves
forward, and what a session shows of a field catches up with it and never goes
back.  `RadioFiles` has two guilds with a player and a prebuffer over one cache.
`RadioController` and `RadioRequests` reduce the playback to what a card shows
and a request sees of it.

### Rows, roles and rooms

`Giveaway`: a handler is a goroutine that runs one interaction, or one end that
the scheduler started.  `timer` is "armed" while the `time.AfterFunc` waits,
"firing" when its callback was released and has not locked `activeTimersMu` yet.
A crash forgets everything but the row, the participants and what Discord shows.
Any number of participants may turn out to be eligible.  `RoleManager` has one
member and any number of commands, returns and departures, with the sweeper;
that one of them at a time is past `Free` is what `RoleLocks` provides and its
refinement of `KeyedMutex` shows.  `TempVoice` keeps apart what Discord has done,
what the bot has seen, and what it has handled.  `RipperPipeline` merges three
pairs of operations on tokens, slots and the wait group that nothing can come
between, and leaves the progress dispatcher out.

### Services and messages

The modules from `Moderation` to `Cooldowns`, and from `VoiceTransport` to
`Pagination`, share no state with one another.  `MCServices` and `MCMessages`
check them in one run each: `focus`, chosen in the initial state, says whose
variables the slots `s1`, `s2`, ... hold; the component in focus makes its own
steps (`INSTANCE ... WITH` slots for its variables and small sets for its
constants) and all others stand still.  So a state of such a run is a state of
one component, the properties are those of the components under `focus`, and
TLC reports the coverage of every action of each of them.

## 3. What TLC checks

Distinct states are those of the configurations as they stand (symmetry
included, where it is used: never together with liveness).

| run | instance | states | properties |
|---|---|---|---|
| `radio_session` | 2 tracks, autoplay, 2 connections, 2 workers, every control, one stall restart | 254 671 | `OneStarter`, `PlaybackIsCurrent`, `CurrentHasOwner`, `ImplementsPlaylist`, `QueueIsServed` |
| `radio_voice` | 1 track, autoplay, 2 channels, 2 connections, moves also during recoveries | 2 841 715 | `NoOrphans` |
| `radio_recovery` | 1 track, autoplay, 2 connections, losses, stalls without restart, fairness | 201 246 | `NothingHangs` |
| `radio_stay` | 2 channels, 24/7 toggled, losses, teardowns that come late, disconnects, moves also during recoveries, inactivity, deletion | 328 752 | `StaysUnlessRejoinFails` |
| `radio_settings` | 2 threads, 4 writes, 2 failures, fairness | 169 039 | `ImplementsView`, `ShowsWhatIsStored`, `OperationsEnd` |
| `radio_files` | 2 guilds, one prebuffer, 2 songs, a cache of one, 1 failure | 1 814 420 | `FilesLookedAfter`, `HeldFileStays` |
| `giveaway` | 2 users, 2 handlers, 1 crash or shutdown, failing statements, fairness | 126 350 | `EndsOnce`, `RerollIsRecorded`, `FinalIsFinal`, `EndsUnlessError` |
| `ripper` | 3 requests of 2 users, 1 worker, a queue of one, 2 starts, fairness | 224 457 | `OneAnswer`, `ResourcesKept`, `NobodyWaits` |
| `role_manager` | 2 roles, 2 handlers, the sweeper, 3 operations, 2 failures or crashes | 2 591 233 | `JailIsRecorded`, `ExtendedRowStays` |
| `temp_voice` | 2 users, 2 rooms, 2 goroutines, 5 moves, 1 failure or crash | 1 934 446 | `RoomsAreKept` |
| `services` | ten components, two to four goroutines each (bounds at each `INSTANCE` in `MCServices`) | 1 092 831 | `ModerationIsTrue`, `LockdownIsRemembered`, `LockHolds`, `ConfigurationIsTrue`, `RulesFollow`, `GateHolds`, `LimitsHold`, `LevelsFollow`, `NoEntryLeaks`, `LocksAreMutexes` |
| `messages` | nine components, likewise in `MCMessages`; the playlist with 3 tracks, each asked for once | 784 031 | `PlaylistKeepsTracks`, `ConnectionIsKept`, `CardsFollow`, `RequestsAreServedOnce`, `DialogsFollow`, `SnipesFollow`, `StarsFollow` |

Of the union runs: moderation 150 748 states, channel locks 86 710, nicknames
3 692, configuration 181 378, filter 247 112, gate 63 706, rate limits 78 732,
cooldowns 6 677, leveling 240 716, role locks 33 360; playlist 53 875, transport
289 323, controller 69 518, requests 122 880, embed builder 70 509, snipe 75 685,
starboard 50 114, idle 41 900, the rest pagination.

Autoplay is on, as `main.go:150` wires it, in every run whose property depends on
who starts a track; `radio_stay` is about channels only and leaves it off.  Losses
during a fetch for autoplay are in `radio_recovery`; `QueueIsServed` is checked where
a `Connect` overtakes the fetch instead (`radio_session`), and proved for both.

**Composite properties.** Where several statements are about one hazard, one
property conjoins them, each under its own name and each with its own mutant:

| property | parts |
|---|---|
| `NoOrphans` | `NoOrphanStream`, `NoOrphanConnection` |
| `NothingHangs` | `StartEnds`, `StoppingEnds`, `LossIsResolved` |
| `ShowsWhatIsStored` | `DefaultsOnlyAfterError`, `RefreshSeesWrite` |
| `FilesLookedAfter` | `FilesKnown`, `ScratchOwned`, `WaitersServed` |
| `ResourcesKept`; `NobodyWaits` | `SlotsCounted`, `StoppedIsQuiet`, `FilesKept`; `AllAnswered`, `StopEnds` |
| `JailIsRecorded` | `JailKeepsRoles`, `JailHasRecord` |
| `RoomsAreKept` | `RoomsAreLookedAfter`, `OwnersAgree`, `OneRoomEach` |
| `PlaylistKeepsTracks` | `NoTrackTwice`, `OnlyDiscardsOnRequest` |
| `ModerationIsTrue` | `CasesAreTrue`, `NoticesAreTrue` |
| `ConfigurationIsTrue` | `CacheIsTrue`, `EditsStay` (of the configuration and of the filter), `ChangesWhatWasChosen` |
| `RulesFollow`; `GateHolds` | `RuleFollows`, `FlushDelivers`; `DeniedStayOut`, `BlockedGuildIsLeft` |
| `LimitsHold`; `LevelsFollow` | `LimitHolds`, `CooldownHolds`; `LevelMatchesXP`, `AwardsAreSpaced`, `RolesFollowLevel` |
| `ConnectionIsKept` | `NothingStaysOpen`, `LossIsReported`, `SpeakingIsCurrent` (transport), `PausedIsBounded`, `WorkersEnd`, `DroppedIsIdle` (idle) |
| `CardsFollow` | `CardsAreKnown`, `CardIsCurrent`, `LeavesWhatIsGone` |
| `RequestsAreServedOnce` | `ConfirmedOnce`, `NothingLeft`, `BallotIsForItsTrack`, `FlightsAreOwned` |
| `DialogsFollow` | `OverIsOver`, `ShownIsCurrent` (embed builder), `ButtonsExpire` (pagination) |
| `SnipesFollow`; `StarsFollow` | `LimitIsCurrent`, `ClearedStaysCleared`; `PostsAreRecorded`, `StarsMatch` |

**Refinements.** `RadioSession` implements `RadioPlaylist` (`ImplementsPlaylist`),
`RadioSettings` implements `SettingsView` (`ImplementsView`), `RoleLocks`
implements `KeyedMutex` (`LocksAreMutexes`); all three are also proved.

**Bounds.** Every bound is a constant or a conjunct of an action named for it
(`WithinBounds`, `UserWithinBounds`, `MaxEpoch`, `MaxGeneration`, `MaxKicks`,
`QueueBound`, `MaxStarts`, `MaxErrors`, `MaxMoves`, `MaxTime`, ...).  A session's
epoch changes with every connect, stop, loss and move, a generation with every
selection, skip, previous, stall, connect and stop; three or four of each allow
for a stale actor, its successor and a successor of that, which is the most any
comparison in the code tells apart, as it asks for equality with what was
captured.  Two connections are the one held and the one being joined.  A step
that would pass a bound is disabled as a whole; `UserWithinBounds` keeps users
from taking the last values, so that the session's own goroutines can finish
what is under way, and the liveness properties of `radio_recovery` excuse a
session at its bound explicitly (`AtBound`).  `MaxKicks = 1` merges simultaneous
`startNext` calls.  One crash suffices for a giveaway, since a crash resets
everything the next process could tell apart.  Two goroutines reach every
interleaving of a check with what makes it stale; where three parties matter (two
commands and the sweeper, two moderators and two handlers, two users, their rooms
and a restart) the instance has them.  One or two failures let a failure meet a
roll-back that fails too.

**Operations an instance switches on.** `Operations` of `RadioSession` names the
events an instance considers; together the passing runs take every action.
Deadlock is not checked where the system really may stop: an idle session, a
cancelled giveaway, a counter at its bound.

**Fairness.** In `RadioSession` goroutines that can run do (weak fairness of each
worker, join, loss, stream hand-over and timer); a join ends because
`ConnectDAVEVoiceContext` has a timeout.  Users, Discord and the end of a track
owe nothing.  Whoever waits for `voiceJoinMu` gets it however often others take
it (strong fairness of `JoinBegins` and `ExhaustionCleanup`): Go's `sync.Mutex`
hands over to a waiter that starved for a millisecond.  For the same reason a
thread of `RadioSettings` is strongly fair: its steps wait for `settingsMu` only.
In `Giveaway`, `TimerCallback` and `SchedulerInit` are strongly fair because the
model has few handlers where the bot has as many as it needs; a bot that went
down is started again.  In `RipperPipeline` three things go on: `main` with the
end of the wait group, the dispatcher, and some worker or callback, which stands
for a download that ends or is cancelled and a callback that returns.

**Type invariants.** Every component has a `TypeOK`.  Those of `Giveaway`,
`RadioSettings`, `RadioFiles`, `RoleLocks`, `RipperPipeline`, `RoleManager` and
`TempVoice` are proved, and what the proofs need of `RadioSession`'s; the others are stated for the
reader and were checked while the modules were written; they are in no run, where
the properties above fail first.

## 4. What is proved

For every value of the constants that satisfies the assumption named in the
module.  Each proof module has an inductive invariant, one lemma per action (or
per group of actions that do the same to it), and a few lemmas on what actions
have in common.  Every invariant was model-checked on the instance of its run
before it was proved.

| module | theorems |
|---|---|
| `RadioSessionProofs` | `OneStarterAlways`, `CurrentHasOwnerAlways`, `SessionImplementsPlaylist` (assuming `"botMovedRecovering" \notin Operations`); `NoOrphansAlways`, `PlaybackIsCurrentAlways`, `StaysUnlessRejoinFailsAlways` (assuming the operations in `Excluded` are off: `connectDuringMove`, `slowTeardown`); `QueueIsServedAlways` (assuming `"botMovedRecovering" \notin Operations`) |
| `RadioSettingsProofs` | `TypeCorrect`, `SettingsNeverGoBack`, `SettingsAreStored` |
| `RadioFilesProofs` | `TypeCorrect`, `FilesLookedAfterAlways`, `HeldFileStaysAlways` |
| `PolicyProofs` | of `RipperPipeline`: `TypeCorrect`, `OneAnswerAlways`, `ResourcesKeptAlways`; of `MCServices`: `ConfigurationIsTrueAlways`, `GateHoldsAlways`, `RulesFollowAlways` |
| `RoleManagerProofs` | `TypeCorrect`, `JailIsRecordedAlways`, `ExtendedRowStaysAlways` |
| `ServicesProofs` | of `Giveaway`: `TypeCorrect`, `EndsOnceAlways`, `RerollIsRecordedAlways`, `FinalStays`; of `RoleLocks`: `EntriesTypeCorrect`, `NothingLeaks`, `LocksImplementMutex`; of `MCServices`: `LocksAreMutexesAlways`, `ModerationIsTrueAlways`, `LockdownIsRememberedAlways`, `LockHoldsAlways`, `LimitsHoldAlways`, `LevelsFollowAlways`; of instances: `CooldownHoldsAlways`, `PenaltiesHold` |
| `MessagesProofs` | of `MCMessages`: `StarsFollowAlways`, `DialogsFollowAlways`, `RequestsAreServedOnceAlways`, `ConnectionIsKeptAlways` |
| `TempVoiceProofs` | `TypeCorrect`, `RoomsAreKeptAlways` |

**RadioSessionProofs.** `OneStarter` is inductive only with the shapes of the
records (`CoreTypes`).  `CurrentHasOwner` needs to know that a worker before its
selection finds no current track (`NothingCurrentYet`), and that an attempt has
a generation other than 0 (`AttemptsAreNumbered`): the stream it commits must not
look like no stream, or the current track would lose its owner with the commit.
For the refinement, every action leaves the playlist alone or changes it by an
operator of `RadioQueue` (`PlaylistStep`), and each of these is an action of
`RadioPlaylist`.  It needs `OneStarter`: a second worker could replace a current
track, which no operation of the playlist does.

*Streams and voice.* `StreamInv` has a part about streams and one about voice.
A worker commits its stream only if the generation it captured is still the
session's, so: captured generations lie in the past (`GenerationsPast`), and no
two attempts or streams share one (`OneStreamEach`); with these an outdated
stream can neither become the playback (`PlaybackIsCurrent`) nor be forgotten
(`NoOrphanStream`).  A connection is the session's, or in the hands of one join,
or about to be closed.  That needs: epochs lie in the past (`EpochsPast`); a
session that has let go of its connection holds nothing else (`AwayIsQuiet`)
until the step that gets another or ends it, of which there is one at a time
(`OneWayBack`); and a join in progress holds what it dialed and nobody else does
(`JoinsHold`).  None of it assumes one worker at a time, so it also covers bots
that are moved during a recovery, where there may be two.  

*24/7 mode.*  `StaysUnlessRejoinFails` is an action property over `StayInv`, which
adds to `StreamInv` what brings a session back: a recovery joins the channel the
session is in (`Aimed`), and no fetch or stream is of the epoch of a recovery, so
none of them ends its phase (`Bygone`).  A step that takes the connection of a
session that resides in its channel starts the join that will bring one back; a
join that succeeds commits, unless one of the steps of `GivenUp` came first.

*The queue.* `QueueIsServed` has an invariant of its own, `ServedInv`, over that
of `OneStarter` and `CurrentHasOwner`.  A session is `Ready` when nothing but a track
and a `startNext` is missing, and `Attended` when a `startNext` is pending, a worker
is on its way or a join is about to start one.  Every step leaves the session not
ready, or attended, or as much in need as before (`ServedStep`), with two
exceptions: a discarded attempt that finds the queue empty, and the step that the
property names (`ReturnsTooLate`).  A step that takes a `startNext` away turns it
into a worker, or finds that a worker is there (`OneStarter`), or that something
plays; a worker that was overtaken owns nothing (`OvertakenOwnsNothing`), so a track
that is current then has another owner (`CurrentHasOwner`).  Connections in hand
were dialed (`Dialed`): one that opens is new, so it does not connect a session that
holds a closed one.  For autoplay: fetches are of the past, and a worker that
fetches is the latest (`FetchesPast`); so a background fetch that can still append
a track finds somebody who will start it (`PrefetchAttended`).

**RadioSettingsProofs.** Whoever reads the database for a load owns `waitCh`,
whoever saves owns `settingsMu`, never both at once (`Exclusive`).  So what a load
has read is at least as recent as memory (`ReadIsRecent`), and what an update is
about to commit is as well (`CopyIsRecent`): every step is one of `SettingsView`
or a stutter.  `StoredInv` adds what each thread knows (`Sound`): a load that
failed has counted its error; an update behind its load finds the settings loaded,
a failed read, or a load under way, and `lockSettingsForUpdate` waits for that
one, so the copy it commits has a default only after a failed read; and a refresh
reads what its caller wrote or later.

**RadioFilesProofs.** `FilesInv`.  A song is not in the index for as long as its
leader is between moving and committing it, and out of it from the eviction to the
removal of its file: `FilesKnown` names both, and is inductive with the shapes of
the callers (`Sound`), because who is not removing has nothing to remove.  A
waiter's leader has the call of their song (`CallersSound`: who leads is `by` of its
call; `CallsSound`: a call not done has a leader that will tell its result), so a
song has one leader, and the step that tells a result leaves nobody behind.  A scratch
file is shared by all who waited for it, and each step that lets go of one owner's
path either removes the file or hands it over, from the call to those who heard of
it, from a worker to its prebuffer, from that to the player (`OwnersKept`).  What a
second attempt needs is `NotPrepared`: a player that prepares again while it owns a
path does so because that file is gone, so the new path replaces no live one.
`HeldFileStays` is an action property from the same invariant (`Spares`): an eviction
chooses among what no lease, no prebuffer and no stream uses, and what the other
steps remove are scratch files or what an earlier eviction chose.

**PolicyProofs.** *Ripper pipeline.* `PipelineInv`: how far a request is says how often it was
answered, whether its callback ran and whether its files must exist
(`TasksConsistent`); the queue holds each queued request once and the dispatcher
one that nobody else has (`QueueConsistent`); slots are the accepted requests of
a user (`SlotsCounted`), tokens and the wait group the workers (`WorkersCounted`,
by the library's theorems on cardinality); and what `main`, its waiter and the
state say of one another (`PhasesAgree`).  `StoppedIsQuiet` needs the count: the
wait group is at zero only when no worker is left.

The rest of the module extends `MCServices`, as `ServicesProofs` below does, and is about
the services that go by a guild's configuration.  Assumed: `NoJob` is no task and no
goroutine, `Worker` no goroutine; `Nothing` no row, item, command or caller.

- *The configuration's cache.*  `CacheFits`, which the three share: what is cached is the
  row, or raced, or about to be thrown away by the writer; and what a reader is about to
  cache is the row, unless somebody wrote since it looked.
- *Guild configuration.*  `ConfigInv`: whoever edits a list that the policy's mutex guards
  holds it from the look to the write, so what it is about to write is the row's list with
  its item added or taken out (`EditIsOfRow`), and no edit undoes another.  What the setup
  dashboard has read and is about to write is the row's, but for what was chosen in it
  (`SetupIsOfRow`).  Both hold of a goroutine that was not overtaken (`InTime`): the
  lists nobody guards, and a dashboard during which somebody wrote, are the exceptions
  that the property names (section 5).  `ExemptInv` is the same for the filter's list of
  exempt roles.
- *Command gate.*  `GateInv`: whoever got past a look-up has met a moment since it
  began when what that look-up reads was not in force (`Passed`); the lists come from
  the row or, by `CacheFits`, from a copy of it, unless it was misled.
- *Content filter.*  `FilterInv`, part by part: the rule at Discord is what was asked
  for, or the sync at work has the part before it and will do it right (`InHand`,
  `Right`), or somebody has still to queue a sync or has queued one (`Awaits`); and what
  is queued will be seen to: by the timer, the rerun, or a worker that is through and
  queues another (`Seen`).

**RoleManagerProofs.** `RolesInv`.  That a jailed member's roles are recorded is
not inductive: an unjail deletes the row one step after it has removed the jail
role, a jail strips roles one by one and rolls back.  What makes the last step
safe is what the earlier ones have left behind (`Work`: while roles are stripped,
what is owed is on the member or among those done; while they are restored, on
the member or among those to do, unless one was missed), and that nobody else
was at work meanwhile (`OneHolder`); for the member may leave, and the bot die,
at any time.  `ExtendedRowStays` is an action property from the same invariant:
the sweeper's list is never younger than its claim.

**ServicesProofs.**  It extends `Giveaway` and `MCServices`, so its theorems about a
service are about the property the run checks, and about the same specification: a
step of `services` is a step of the service in focus.  The constants of `MCServices`
are arbitrary there, also the sets that the run makes small.  They are assumed to be
told apart: `NoJob` (the components' `Idle`) is no job, name or task of a goroutine,
`Never` no time, `Nothing` no list of level roles and no command.

- *Giveaways.*  `EndsOnce` follows from `OneEnd`: announcing handlers and announced
  ends together are at most one, and a giveaway with either has ended.  The
  conditional update of `EndGiveawayAtomic` is the step that matters, with the fact
  (`RerollsAreOfEnded`) that the unconditional one of a reroll only runs on an ended
  giveaway.  `RerollIsRecorded` follows from `OneReroll`: at most one handler is past
  the reroll's lock.
- *Role locks.*  `refs` counts the threads that refer to an entry (`RefsCount`), the
  entry a thread refers to is the one the map has for its member (`MineIsListed`), and
  no two members share one (`NotShared`).
- *Moderation.*  `CaseInv`: a command has a number that no other command at work has
  (`OwnNumbers`); before its action nothing is recorded under it, and between the
  action and the record it is applied and has no row yet (`AtWork`).  Without that a
  second row, or a notice taken back after the action, could not be excluded.
- *Channel locks.*  `LockdownIsRemembered` is not inductive: a channel is closed before
  the list says so.  `Apart` says where it is meanwhile, while no lockdown and
  unlockdown overlap: in the list, forgotten, or among what a lockdown has done; and
  an unlockdown has each channel it read before it, among the failed, or open again.
- *Nicknames.*  `Noticed`: a nickname that changed since the lock was last written is
  in the last event on its way, or in the hands of a handler that read the row as it
  is now.
- *Cooldowns.*  Unless a late failure gave one back, the cooldown taken last is in
  the table or over (`CoolInv`).
- *Rate limits.*  A penalty that was announced ends at most `MaxPenalty` after the
  user's last call, so the cleanup, which forgets a user after `IdleAfter`, forgets
  nobody early (`RateInv`, assuming `MaxPenalty <= IdleAfter` as ratelimit.go's
  constants have it: `PenaltiesAssumed`).  That no more than two bursts fit into a
  window is `TimesInv`: the times of the calls admitted ascend, two of them that are a
  burst apart are half a window apart, and the last ones are the timestamps that the
  limiter has.  It assumes that the window, 3 seconds in the code, is no longer than
  `IdleAfter` or than two penalties, of 2 seconds at least (`WindowAssumed`).
- *Levels.*  `LevelInv`.  That the stored level is that of the experience rests on a
  few lemmas about `CalculateLevel`, which chooses the levels reached by their number:
  there is exactly one level for an amount, and `RequiredXPForLevel` is its least.
  Each award of the minute is of a state of its own, the tracker's or one that was
  orphaned (`Spaced`): the cleanup took it from under a message that had it in hand, or
  after an award it had not seen.  While
  the roles are not right, somebody has still to look, or has the whole difference in
  hand (`Covers`), and what a synchronization has read is still so (`SyncSound`).

**TempVoiceProofs.** `VoiceInv`.  `RoomsAreLookedAfter` is about what the bot
believes when nothing is under way, so the invariant says what is true on the way
there (`LookedAfter`): around every room the bot tracks, and every room it made
and tracks no longer, there is somebody whom the bot has seen or will hear of, or
a goroutine that has the room in hand (`Around`, `Handles`).  What a goroutine
holds is what it says it does (`JobsSound`), a room that is about to be tracked is
in nobody else's hands (`NewIsNobodys`), and a room being deleted is quiet
(`DownIsQuiet`).  `OneRoomEach` needs that one goroutine at a time creates for a
user (`OneCreator`), which found no room before (`NoneBefore`) and that a tracked
room is the one its owner is known by (`ActiveIsOwned`).

**MessagesProofs.**  Likewise over `MCMessages`.

- *Starboard.*  `StarInv`: whoever is inside holds the message's lock and knows the row
  (`Knows`), so a post is the row's or about to be saved (`Kept`).  That the post shows
  the stars is not inductive while they are being counted: `Matching` says that a post
  with too few stars, or too many stars without a post, has a handler that is still to
  count or brings the count that will mend it.  `Threshold` is at least 1, as
  starboard.go:53 has it; `Nothing` is no number of a post.
- *Paginated messages.*  `PageInv`: somebody ends the session, by the timer or by
  holding the current generation, or it is gone and whoever ended it takes the buttons
  off (`Expires`).
- *Embed builder.*  `BuilderInv`: from the change to its answer a modal keeps the
  session's mutex (`Holds`), and a message that does not show the embed that would be
  sent (`Viewed`: the custom buttons are not in it) has a handler that will replace it
  (`Replaced`).
- *Requests.*  `RequestInv`: the handler and the timer of a prompt are removed by it
  or by the job that holds them (`FinishedBy`), and one job at a time queues what was
  confirmed (`OnItsWay`); ballots are numbered anew, so who has looked a ballot up and
  who has voted in it saw the same track, and the open one is about the track last
  voted on (`BallotsSound`, `AboutOneTrack`); the flight of a track is that of the job
  fetching it (`FlightsSound`).
- *Voice transport.*  `TransportInv`: what is open is a field, or in the hands of the
  closer that took it, or of the goroutine that has still to adopt it (`Open`); the
  gateway answers what it was asked, in order (`Asked`).  Once a write has failed every
  later one does, so what was set stays untold until the heartbeat, which writes too,
  reports the loss.
- *Idle sessions.*  `IdleInv`: what a goroutine captured lies in the session's past
  (`Captured`), and a session that was given up is in nobody's hands but those of a
  command that had looked it up (`Abandoned`).

**Only model-checked.**  Every liveness property (`NothingHangs`, `NobodyWaits`,
`OperationsEnd`, `EndsUnlessError`): the prover has no rules for fairness or
ENABLED.  `PlaylistKeepsTracks` and the types of the playlist: `Admit` is a fold
over the request, and what it returns needs induction over data, for which the
installed provers cannot instantiate the library's theorems.  `SnipesFollow` keeps
the newest entries of a list by a recursive scan.  `CardsFollow` is within reach and
not done (section 7).


## 5. Known disagreements

What the code does and a document, a message or its own intention does not say.
None is a violation of a run: the properties state what holds and name these as
exceptions (mostly through a ghost), so that everything else about them is still
checked.

**Radio session.**
- A lost connection gets one attempt to rejoin; if it fails 24/7 mode is switched
  off (recovery.go:704-723), which `docs/COMMANDS.md:36` calls "24/7 continuous
  voice channel stay mode".
- Stalls are exhausted: the session is stopping, refuses `forceleave` and `reset`
  ("Forcibly ...", `docs/COMMANDS.md:38`, `:54`), and keeps its queue until the
  exhaustion timer (recovery.go:783-811).
- A worker fetches for autoplay, the connection is lost and recovered meanwhile, a
  track is enqueued: the recovery's `startNext` is turned away by
  `playbackStarting`, then the worker finds itself stale and gives up
  (playback.go:838-850): nobody plays the queue.  `QueueIsServed` excepts this step,
  by the name `ReturnsTooLate`; autoplay is on in its run.
- A skip while a track is being started, with autoplay on and nothing queued: the
  skip's `startNext` is turned away, and the attempt, discarded, asks for another only
  if the queue has tracks (playback.go:1065-1076).  The session shows "loading" and
  nobody fetches, until a track is enqueued.
- An external move whose join fails leaves the session in 24/7 mode with no channel
  (recovery.go:501-506).  A skip, a previous or a report of another channel while a
  24/7 session recovers makes it give up its rejoin (696-703).  The end of an
  overtaken `Connect` clears `voiceTransition` under a move (module.go:374-378), so a
  report changes the channel and the move gives up as well.  `StaysUnlessRejoinFails`
  excepts these, in `GivenUp`.
- The queue fills up while a track is being started, the start fails and the track
  goes back: one more than the limit (playback.go:920-924, queue.go:22).
- A timer of an older epoch that is still noted keeps a new one from being armed,
  so a session paused for an empty channel may stay until the next voice event; a
  timer that fires while 24/7 mode is on is lost (recovery.go:68).
- The eviction (session.go:380) and `Shutdown` may meet a `Connect` that has looked
  its session up: a dropped session is connected.

**Settings.** A forced refresh that waited for a load unlocks `settingsMu` at
settings.go:179 and reads on; if that load failed and another has begun, it falls
through to a second unlock, which ends the process (`UnlockUnheld`).  A forced
waiter returns nil although the load it waited for failed (180-182).

**Controller, requests, votes.** `SetControllerView` replaces a card without
noting the old one (controller.go:627-664).  A deleted text channel forgets a card
in another channel (recovery.go:914-917).  Two plays of one song that both pass the
duplicate check are both queued unprompted.  A select menu may queue twice when two
selections are in flight.  A skip deletes the ballot and not its track's key, so a
vote when the same song comes next writes to a nil map (vote_skip.go:55, 108; the
panic is recovered by the handler).  A voter who has looked the ballot up while one
track played writes to it although another plays by then: if the vote reaches the
threshold, the open ballot, of whatever track, is deleted and the track that plays is
skipped (vote_skip.go:101-121), by votes for the one before.  And tracks are told apart
by their keys: a song queued twice in a row keeps its ballot.  What is checked is that
no ballot adds up votes for different tracks.

**Giveaways.** A failed read at start-up (scheduler.go:168-172) leaves active
giveaways without a timer until the next restart.  An entry checked before the end
is inserted after it (interaction.go:509, 603).

**Ripper.** Start, Submit and Stop overlap as `OneAnswer` allows; a `Download`
that panics leaks the goroutine that bridges its progress.

**Voice transport.** `SetSpeaking` notes the state and then sends it; if the write
fails (its deadline is five seconds, dave.go:641-642) the state stays noted and the
gateway is not told, while the connection looks open.  The socket then refuses every
later write, so the next heartbeat ends it (`SpeakingIsCurrent` says both).

**Levels, limits.** `CleanupSpamTracker` decides under the state's mutex and deletes
after it (leveling.go:37-43): a message that is awarded in the gap, or that had looked
the state up, is followed by one with a new state, and the member is awarded twice in a
minute.  The rate limiter forgets the window with a violation (ratelimit.go:161): two
bursts, one before and one after the penalty of 2 seconds, may be within 3 seconds.

**Files.** A hit of `Get` that is not leased yet may be evicted before it is used:
the engine prepares again.  A delayed removal may delete a file that was put back
(cache.go:413).  A cancelled leader fails all who joined its download.

**Roles.** The reply **FORCE** that jail.go:188 asks for is never heard:
`OnMessageCreate` returns for messages without prefix or mention (message.go:43-45)
before it asks `ConsumeUnjailForce`; `RoleManager` keeps the forced unjail as what
the code means to do.  A forced unjail that missed roles deletes the row
(manager.go:290-325), although jail.go speaks of a record retained.  A role given
for good keeps the expiry it had (mute.go).  The sweeper deletes the row before it
takes the role: if the call fails or the bot dies, the role stays (manager.go:394).
A return reads whether the member is jailed before it locks (member.go:47), so a
jail role may come back after the unjail (`stray`).

**Rooms.** `SaveTempVoiceChannel(guildID, channelID, ownerID)` is called with
channel and guild exchanged (listener.go:114; user_data.go:673): a restart forgets
every room (`lost`).  One user may own two rooms after a transfer, a claim or a
roll-back.  A room whose deletion at Discord failed is forgotten.

**Moderation and configuration.** A second lockdown replaces the list of the first
(lock.go:183, 226).  A reader of the configuration may put the row of before into
the cache after a writer has cleared it (config.go:371), for up to five minutes;
unguarded lists lose updates; the setup dashboard saves all its settings from the
copy it opened with (setup.go:332).  A `Flush` at exit that meets a sync in flight
returns without an error and without the change (automod.go:93-96).  A list from
the cache lets a listed member in for as long as the cache is stale.

**Messages.** Two "send" clicks that were let in before the first deleted the
session both send.  A failed fetch counts as no stars and takes the post down
(starboard.go:199-213).  Stars of the author count on removal only (205 against
81).  Setup's snipe limit never reaches `GlobalSnipeCache` (setup.go:325-339).  The
first timer of a paginated message checks no generation (messaging.go:206), and the
sweep removes sessions by their creation.  The embed builder's message never shows the
custom buttons, before or after they are edited (embed_builder.go:657-663, 788-794):
they are seen first in what is sent.

### Interleavings outside the passing runs

Four schedules of the radio session that the code allows break properties above.
They are in the model under a name in `AllOperations` and left out of the
instances and theorems whose property they break:

- `"botMovedRecovering"`: while a session recovers, the gateway reports the bot
  in another channel; recovery.go:536-541 clears `playbackStarting` although a
  worker may be alive, and a second one starts.  `OneStarter` fails; `radio_voice`
  and `NoOrphansAlways` include it and show that no stream or connection is
  orphaned by it.  `StaysUnlessRejoinFails` includes it too, as one of the steps of `GivenUp`.
- `"slowTeardown"`: a loss decides that there is nothing to recover, unlocks
  (recovery.go:648-650), and then stops the session, whatever changed in between:
  24/7 mode switched on, or a track queued, in that gap is dropped.  `radio_stay`
  includes it: a session that was in 24/7 mode before is not torn down by it, but by
  the step it excepts.
- `"connectDuringMove"`: a `Connect` while the worker of an external move joins;
  the deferred reset of `voiceTransition` of the first to return clears the
  other's (module.go:374-378).
- `"lostBeforeAdoption"`: a connection is lost after `Join` returned it and before
  `Connect` adopted it; the loss is ignored as not the session's (recovery.go:607)
  and the session then holds a dead connection.

`radio_recovery` has no skip and no previous: during a recovery they make it give up
its rejoin (above), and the session shows "loading" without a connection, which is
neither of the ends that `LossIsResolved` speaks of.

## 6. Not modelled, and why

Audio, encryption and framing of packets, HTTP clients (juicewrld, Last.fm),
subprocesses and uploads, image rendering, formatting, logging: I/O and data.  The
database layer: a statement is one atomic step that may fail.  Routing and wiring.
The listeners and commands that are one event, one statement, one message each,
with no state between two of them.  The panic path of a radio worker, the seek and
pause clock of the player, the controller drain and the prebuffers that `Shutdown`
waits for, the scan of the cache at start-up, autoroles, moving members between
voice channels, slowmode.  `PROJECT.json` says for each component what of it is
left out.

## 7. Plan

What is left to prove: `CardsFollow` of `RadioController` (a card is the noted one, or in
the hands of the sync that sent it).
