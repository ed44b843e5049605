----------------------------- MODULE MCServices -----------------------------
(***************************************************************************)
(* The services of a guild that share nothing but the process, for TLC.    *)
(* One run checks them all: focus, chosen in the initial state, says whose *)
(* variables the slots s1, s2, ... hold, and nobody else moves.  RoleLocks *)
(* is extended and keeps its own variables.                                *)
(***************************************************************************)
EXTENDS RoleLocks, TLC

CONSTANTS
  NoJob, Nothing, Nobody, Never, Nameless, Worker,  \* NoJob: Idle of the components
  Jobs, Items, Caller,              \* goroutines; what lists hold, and the member who calls
  People, Mods, Owner, BotOwners, Rank, BotRank,            \* moderation
  Channels,                                                 \* channel locks
  Names, Listeners,                                         \* nicknames
  Entries,                                                  \* filter
  Roles, MaxLevel, Amounts, MaxEvents,                      \* leveling
  Burst, Window, Penalties, MaxPenalty, Forgiven, IdleAfter, MaxCalls, MaxTime, \* rate limits
  Cooldown, Runners, MaxWait,                               \* cooldowns
  MaxCommands, FewCommands, MaxChanges, MaxErrors           \* bounds of several

VARIABLES
  focus,  \* the component that runs
  s1, s2, s3, s4, s5, s6, s7, s8, s9, s10, s11, s12, s13, s14, s15, s16, s17, s18, s19,
  s20, s21, s22, s23  \* its variables

\* The slots from the n-th on, and that they hold nothing.
From17 == <<s17, s18, s19, s20, s21, s22, s23>>
From16 == <<s16, From17>>
From15 == <<s15, From16>>
From12 == <<s12, s13, s14, From15>>
From10 == <<s10, s11, From12>>
From7 == <<s7, s8, s9, From10>>
From1 == <<s1, s2, s3, s4, s5, s6, From7>>

Blank17 == s17 = NoJob /\ s18 = NoJob /\ s19 = NoJob /\ s20 = NoJob /\ s21 = NoJob /\
  s22 = NoJob /\ s23 = NoJob
Blank16 == s16 = NoJob /\ Blank17
Blank15 == s15 = NoJob /\ Blank16
Blank12 == s12 = NoJob /\ s13 = NoJob /\ s14 = NoJob /\ Blank15
Blank10 == s10 = NoJob /\ s11 = NoJob /\ Blank12
Blank7 == s7 = NoJob /\ s8 = NoJob /\ s9 = NoJob /\ Blank10
Blank1 == s1 = NoJob /\ s2 = NoJob /\ s3 = NoJob /\ s4 = NoJob /\ s5 = NoJob /\ s6 = NoJob /\
  Blank7

\* Values for TLC: moderators rank over the others, and below the bot.
MCRank == [person \in People |-> IF person \in Mods THEN 2 ELSE 1]
MCPenalties == <<2, 3>>

\* The commands of GuildConfig by name.
Catalogue == INSTANCE GuildConfig WITH
  Idle <- NoJob, Commands <- {}, Limit <- 1,
  row <- s1, stored <- s2, cache <- s3, mutationMu <- s4, setupLock <- s5, jobs <- s6,
  commands <- s7, errors <- s8, overlapped <- s9, raced <- s10, promised <- s11

Written ==
  {Catalogue!Prefix, Catalogue!VoiceSetup, Catalogue!BlacklistUser, Catalogue!BlacklistClear,
   Catalogue!Setup}
Synced == {Catalogue!SetInviteFilter, Catalogue!WordExemption}
Asked == {Catalogue!BlacklistUser, Catalogue!BlacklistClear}

Cases == INSTANCE Moderation WITH
  Idle <- NoJob, MaxCommands <- FewCommands,
  members <- s1, banned <- s2, inVoice <- s3, marks <- s4, cases <- s5, lastCase <- s6,
  notices <- s7, jobs <- s8, prompt <- s9, commands <- s10, errors <- s11, applied <- s12,
  unsaved <- s13, undeleted <- s14

Locks == INSTANCE ChannelLocks WITH
  Idle <- NoJob,
  channels <- s1, denied <- s2, seen <- s3, saved <- s4, modlog <- s5, jobs <- s6,
  commands <- s7, errors <- s8, lockedDown <- s9, forgotten <- s10, overlapped <- s11

Nick == INSTANCE Nicknames WITH
  Idle <- NoJob, Blank <- Nameless, Mods <- Jobs, Handlers <- Listeners,
  nick <- s1, row <- s2, events <- s3, handlers <- s4, mods <- s5, changes <- s6,
  errors <- s7, version <- s8, changedAt <- s9

Config == INSTANCE GuildConfig WITH
  Idle <- NoJob, Commands <- Written, Limit <- 1,
  row <- s1, stored <- s2, cache <- s3, mutationMu <- s4, setupLock <- s5, jobs <- s6,
  commands <- s7, errors <- s8, overlapped <- s9, raced <- s10, promised <- s11

Filter == INSTANCE ContentFilter WITH
  Idle <- NoJob, Commands <- Synced, Items <- {Caller}, Limit <- 25, MaxEntries <- 1,
  MaxCommands <- FewCommands,
  row <- s1, stored <- s2, cache <- s3, mutationMu <- s4, setupLock <- s5, jobs <- s6,
  commands <- s7, errors <- s8, overlapped <- s9, raced <- s10, promised <- s11,
  tables <- s12, task <- s13, timer <- s14, inFlight <- s15, rerun <- s16, rule <- s17,
  exiting <- s18, failed <- s19, misled <- s20, misset <- s21, late <- s22, requeues <- s23

Gate == INSTANCE CommandGate WITH
  Idle <- NoJob, Commands <- Asked, Items <- {Caller}, Limit <- 25,
  row <- s1, stored <- s2, cache <- s3, mutationMu <- s4, setupLock <- s5, jobs <- s6,
  commands <- s7, errors <- s8, overlapped <- s9, raced <- s10, promised <- s11,
  barred <- s12, present <- s13, since <- s14, misled <- s15, unheard <- s16

Rate == INSTANCE RateLimiter WITH
  now <- s1, user <- s2, calls <- s3, admitted <- s4, announced <- s5, early <- s6

Cool == INSTANCE Cooldowns WITH
  Idle <- NoJob, MaxTime <- MaxWait,
  now <- s1, entry <- s2, runs <- s3, latest <- s4, wiped <- s5, repeated <- s6

Levels == INSTANCE Leveling WITH
  Idle <- NoJob,
  xp <- s1, level <- s2, levelRoles <- s3, cached <- s4, stack <- s5, held <- s6,
  tracker <- s7, earned <- s8, jobs <- s9, events <- s10, errors <- s11, made <- s12,
  awards <- s13, orphaned <- s14, disturbed <- s15, stale <- s16

ServicesInit ==
  /\ \/ focus = "role locks" /\ Blank1
     \/ focus = "moderation" /\ Cases!Init /\ Blank15
     \/ focus = "channel locks" /\ Locks!Init /\ Blank12
     \/ focus = "nicknames" /\ Nick!Init /\ Blank10
     \/ focus = "configuration" /\ Config!Init /\ Blank12
     \/ focus = "filter" /\ Filter!FilterInit
     \/ focus = "gate" /\ Gate!GateInit /\ Blank17
     \/ focus = "rate limits" /\ Rate!Init /\ Blank7
     \/ focus = "cooldowns" /\ Cool!Init /\ Blank7
     \/ focus = "leveling" /\ Levels!Init /\ Blank17
  /\ LocksInit /\ (focus # "role locks" => member = [t \in Threads |-> CHOOSE m \in Members : TRUE])

ServicesNext ==
  /\ UNCHANGED focus
  /\ \/ focus = "role locks" /\ LocksNext /\ UNCHANGED From1
     \/ focus = "moderation" /\ Cases!Next /\ UNCHANGED <<From15, lockVars>>
     \/ focus = "channel locks" /\ Locks!Next /\ UNCHANGED <<From12, lockVars>>
     \/ focus = "nicknames" /\ Nick!Next /\ UNCHANGED <<From10, lockVars>>
     \/ focus = "configuration" /\ Config!Next /\ UNCHANGED <<From12, lockVars>>
     \/ focus = "filter" /\ Filter!FilterNext /\ UNCHANGED lockVars
     \/ focus = "gate" /\ Gate!GateNext /\ UNCHANGED <<From17, lockVars>>
     \/ focus = "rate limits" /\ Rate!Next /\ UNCHANGED <<From7, lockVars>>
     \/ focus = "cooldowns" /\ Cool!Next /\ UNCHANGED <<From7, lockVars>>
     \/ focus = "leveling" /\ Levels!Next /\ UNCHANGED <<From17, lockVars>>

ServicesSpec == ServicesInit /\ [][ServicesNext]_<<focus, From1, lockVars>>

Symmetry == Permutations(Jobs) \cup Permutations(Channels)

(***************************************************************************)
(* Properties: those of the components, each while its component runs.     *)
(***************************************************************************)

\* A case stands for one punishment that was carried out, whatever fails and whoever works
\* at the same time, and nobody keeps a message about one that was not
\* (punish.go, cases.go).
ModerationIsTrue ==
  focus = "moderation" => Cases!ModerationIsTrue

\* A channel that a lockdown closed is in the list until something opens it, or in the hands
\* of a command (lock.go).
LockdownIsRemembered == focus = "channel locks" => Locks!LockdownIsRemembered

\* A locked nickname is Discord's, or a handler is about to make it so (cases.go, member.go).
LockHolds == focus = "nicknames" => Nick!LockHolds

\* The cached configuration is the row's, no edit of a guarded list is lost, and the setup
\* dashboard changes what was chosen in it; the filters are no exception (config.go,
\* restrictions.go, setup.go).
ConfigurationIsTrue ==
  /\ [](focus = "configuration" => Config!CacheIsTrue /\ Config!EditsStay)
  /\ [](focus = "filter" => Filter!CacheIsTrue /\ Filter!EditsStay)
  /\ [][focus = "configuration" => Config!ChangesWhatWasChosen]_<<focus, From1, lockVars>>

\* When everything is quiet, or flushed on the way out, Discord's AutoMod enforces what the
\* moderators asked for, however their changes and the syncs met (automod.go).
RulesFollow == focus = "filter" => Filter!RuleFollows /\ Filter!FlushDelivers

\* Nobody runs a command against a bar or a list that was in force all the time, and the bot
\* does not stay in a blocked guild (execution.go, main.go).
GateHolds == focus = "gate" => Gate!DeniedStayOut /\ Gate!BlockedGuildIsLeft

\* No more calls in a window than two bursts, one before a violation and one after its
\* penalty; none within a penalty; and no command twice within its cooldown (ratelimit.go,
\* message.go).
LimitsHold ==
  /\ focus = "rate limits" => Rate!LimitHolds
  /\ focus = "cooldowns" => Cool!CooldownHolds

\* A member is awarded once a minute however many messages are handled at a time, and once
\* more for each state that the cleanup took from under a message or an award; and wears the
\* roles of the level when everything is handled (leveling.go).
LevelsFollow == focus = "leveling" =>
    Levels!LevelMatchesXP /\ Levels!AwardsAreSpaced /\ Levels!RolesFollowLevel

\* RoleLocks' ImplementsMutex: the entries that come and go are one mutex per member, so that
\* no two operations on a member overlap (locks.go:19-40).
LocksAreMutexes ==
  Mutex!Init /\ [][focus = "role locks" => [Mutex!Next]_Mutex!vars]_<<focus, lockVars>>
=============================================================================
