------------------------------ MODULE Leveling ------------------------------
(***************************************************************************)
(* Experience and level roles of one member (listeners/leveling.go,        *)
(* commands/leveling, database/leveling.go): the row of user_xp, what      *)
(* messages and commands do to it, the spam state that spaces a member's   *)
(* awards, and SyncUserLevelRoles, which brings the member's roles into    *)
(* line with the level.                                                    *)
(*                                                                         *)
(* Messages and commands are goroutines.  A statement is atomic, and so is *)
(* a transaction, which takes the database's write lock when it begins     *)
(* (_txlock=immediate).  The role manager's part is RoleManager.           *)
(***************************************************************************)
EXTENDS Naturals, FiniteSets

CONSTANTS
  Jobs,        \* goroutines
  Roles,
  MaxLevel,    \* 1000
  Amounts,     \* of experience, that are earned, given or taken
  Idle, Nothing,
  MaxEvents,   \* bound: goroutines that are started
  MaxErrors    \* bound: calls to Discord and to the database that fail

Levels == 1..MaxLevel

VARIABLES
  xp, level,     \* the row of user_xp; without one: 0 and 1
  levelRoles,    \* level_roles: level -> its role, or Nothing
  cached,        \* guildLevelRolesCache, or Nothing
  stack,         \* level_roles_stack
  held,          \* the member's roles
  tracker,       \* the member's state in spamTracker, 0 for none
  stale,         \* what CleanupSpamTracker found stale and is about to delete, 0 for none
  earned,        \* states whose lastXPEarned is less than a minute ago
  jobs,
  events, errors,
  made,          \* ghost: states there have been
  awards,        \* ghost: messages that went on to an award in this minute
  orphaned,      \* ghost: states that were cleaned up while in hand, or after an award
                 \* that the cleanup had not seen
  disturbed      \* ghost: the level, the rewards or the setting changed under a sync or
                 \* without one, or a call failed

user == <<xp, level>>
rewards == <<levelRoles, cached, stack>>
spam == <<tracker, stale, earned, made, awards, orphaned>>
bounds == <<events, errors>>
vars == <<user, rewards, held, spam, jobs, bounds, disturbed>>

(***************************************************************************)
(* Levels.                                                                 *)
(***************************************************************************)

\* Mutant: the level is multiplied, not squared.
Linear(l) == 100 * (l - 1)

RequiredXPForLevel(l) == 100 * (l - 1) * (l - 1)

MaxSafeXP == RequiredXPForLevel(MaxLevel)

\* The square root of a hundredth, and one.
CalculateLevel(n) ==
  1 + CHOOSE k \in 0..MaxLevel - 1 :
        /\ 100 * k * k <= n
        /\ k = MaxLevel - 1 \/ n < 100 * (k + 1) * (k + 1)

Capped(n) == IF n > MaxSafeXP THEN MaxSafeXP ELSE n

NoRewards == [l \in Levels |-> Nothing]
Rewarded(lrs) == {lrs[l] : l \in Levels} \ {Nothing}

\* Every role up to the level, or only that of the highest level that has one.
Target(lrs, l, stacked) ==
  LET reached == {k \in 1..l : lrs[k] # Nothing}
      chosen == IF stacked THEN reached ELSE {k \in reached : \A m \in reached : m <= k} IN
  {lrs[k] : k \in chosen}

TypeOK ==
  /\ xp \in 0..MaxSafeXP /\ level \in Levels /\ held \subseteq Roles
  /\ levelRoles \in [Levels -> Roles \cup {Nothing}]
  /\ tracker \in 0..made /\ stale \in {0, tracker} /\ orphaned \cup earned \subseteq 1..made

Init ==
  /\ xp = 0 /\ level = 1
  /\ levelRoles \in [Levels -> Roles \cup {Nothing}] /\ cached = Nothing /\ stack \in BOOLEAN
  /\ levelRoles[1] = Nothing
  /\ held = {} /\ tracker = 0 /\ earned = {}
  /\ jobs = [j \in Jobs |-> Idle] /\ events = 0 /\ errors = 0
  /\ made = 0 /\ awards = 0 /\ orphaned = {} /\ stale = 0 /\ disturbed = FALSE

\* state: of spamTracker; how, amount: of a command; lrs, level, adds, removes: of a sync.
Blank == [step |-> "done", state |-> 0, how |-> "", amount |-> 0,
          lrs |-> Nothing, level |-> 1, adds |-> {}, removes |-> {}]

At(j, step) == jobs[j] # Idle /\ jobs[j].step = step
Becomes(j, job) == jobs' = [jobs EXCEPT ![j] = IF job.step = "done" THEN Idle ELSE job]
Goes(j, step) == Becomes(j, [jobs[j] EXCEPT !.step = step])
Free(j) == jobs[j] = Idle /\ events < MaxEvents

Starts(j, job) ==
  /\ Free(j) /\ events' = events + 1
  /\ Becomes(j, job)
Fails == errors < MaxErrors /\ errors' = errors + 1

\* A sync that has read the level, the rewards or the setting.
Syncing == \E j \in Jobs : jobs[j] # Idle /\ jobs[j].step \in {"level", "member", "apply"}

(***************************************************************************)
(* Messages.                                                               *)
(***************************************************************************)

\* spamTracker.LoadOrStore.
OnLevelingMessageCreate(j) ==
  /\ Starts(j, [Blank EXCEPT !.step = "check",
                             !.state = IF tracker = 0 THEN made + 1 ELSE tracker])
  /\ tracker' = IF tracker = 0 THEN made + 1 ELSE tracker
  /\ made' = IF tracker = 0 THEN made + 1 ELSE made
  /\ UNCHANGED <<user, rewards, held, stale, earned, awards, orphaned, errors, disturbed>>

\* Mutant: the time is noted later.
CheckOnly(j) ==
  LET state == jobs[j].state IN
  /\ At(j, "check")
  /\ \/ state \notin earned /\ Goes(j, "award") /\ awards' = awards + 1
     \/ Goes(j, "done") /\ UNCHANGED awards
  /\ UNCHANGED <<user, rewards, held, tracker, stale, earned, made, orphaned, bounds, disturbed>>

\* Under the state's mutex: a repetition, or a message within the minute, earns nothing.
Check(j) ==
  LET state == jobs[j].state IN
  /\ At(j, "check")
  /\ \/ /\ state \notin earned /\ Goes(j, "award")
        /\ earned' = earned \cup {state} /\ awards' = awards + 1
     \/ Goes(j, "done") /\ UNCHANGED <<earned, awards>>
  /\ UNCHANGED <<user, rewards, held, tracker, stale, made, orphaned, bounds, disturbed>>

\* AddUserXP: what was earned, and a sync if the level rises.  If it fails, the time of the
\* last award is put back.
Award(j) ==
  /\ At(j, "award")
  /\ \/ \E n \in Amounts :
          /\ xp' = Capped(xp + n) /\ level' = CalculateLevel(xp')
          /\ Goes(j, IF level' > level THEN "sync" ELSE "done")
          /\ disturbed' = (disturbed \/ (level' > level /\ Syncing))
          /\ UNCHANGED <<earned, awards, errors>>
     \/ /\ Fails /\ Goes(j, "done")
        /\ earned' = earned \ {jobs[j].state} /\ awards' = awards - 1
        /\ UNCHANGED <<user, disturbed>>
  /\ UNCHANGED <<rewards, held, tracker, stale, made, orphaned, events>>

\* A minute since the last award; a statement never takes as long.
Minute ==
  /\ earned # {} /\ \A j \in Jobs : ~At(j, "award")
  /\ earned' = {} /\ awards' = 0
  /\ UNCHANGED <<user, rewards, held, tracker, stale, made, orphaned, jobs, bounds, disturbed>>

\* CleanupSpamTracker, under the state's mutex: without an award for 15 minutes, or ever, it
\* is stale.
FindStale ==
  /\ stale = 0 /\ tracker \notin earned \cup {0}
  /\ stale' = tracker
  /\ UNCHANGED <<user, rewards, held, tracker, earned, made, awards, orphaned, jobs, bounds, disturbed>>

\* The rest of it, without the mutex: the state goes, whatever was done with it meanwhile.
CleanupSpamTracker ==
  /\ stale # 0
  /\ tracker' = 0 /\ stale' = 0
  /\ orphaned' = IF stale \in earned \/ \E j \in Jobs : At(j, "check") /\ jobs[j].state = stale
                 THEN orphaned \cup {stale} ELSE orphaned
  /\ UNCHANGED <<user, rewards, held, earned, made, awards, jobs, bounds, disturbed>>

(***************************************************************************)
(* Commands.                                                               *)
(***************************************************************************)

Addxp == "add"
Removexp == "remove"
Setxp == "set"
Setlevel == "level"
Resetxp == "reset"

\* What a command makes of the experience, and the level it puts beside it.
Changed(how, n) ==
  CASE how = Addxp -> Capped(xp + n)
    [] how = Removexp -> IF n > xp THEN 0 ELSE xp - n
    [] how = Setxp -> Capped(n)
    [] how = Setlevel -> RequiredXPForLevel(CalculateLevel(n))
    [] how = Resetxp -> 0

LevelSet(how, n) == IF how = Setlevel THEN CalculateLevel(n) ELSE CalculateLevel(Changed(how, n))

\* One statement or transaction, then a sync whatever came of it.
ChangeXP(j, how, n) ==
  /\ Starts(j, [Blank EXCEPT !.step = "sync"])
  /\ xp' = Changed(how, n) /\ level' = LevelSet(how, n)
  /\ disturbed' = (disturbed \/ (level' # level /\ Syncing))
  /\ UNCHANGED <<rewards, held, spam, errors>>

\* addlevelrole, removelevelrole: the row, then the cache; nobody is synced.
Addlevelrole(j, l, r) ==
  /\ Starts(j, [Blank EXCEPT !.step = "invalidate"])
  /\ levelRoles' = [levelRoles EXCEPT ![l] = r] /\ disturbed' = TRUE
  /\ UNCHANGED <<user, cached, stack, held, spam, errors>>

Removelevelrole(j, l) == levelRoles[l] # Nothing /\ Addlevelrole(j, l, Nothing)

InvalidateGuildLevelRolesCache(j) ==
  /\ At(j, "invalidate") /\ Goes(j, "done")
  /\ cached' = Nothing
  /\ UNCHANGED <<user, levelRoles, stack, held, spam, bounds, disturbed>>

\* The cache's thirty seconds.
CacheExpires ==
  /\ cached # Nothing /\ cached' = Nothing
  /\ UNCHANGED <<user, levelRoles, stack, held, spam, jobs, bounds, disturbed>>

\* synclevels: the member's turn in the background.
Synclevels(j) ==
  /\ Rewarded(levelRoles) # {}
  /\ Starts(j, [Blank EXCEPT !.step = "sync"])
  /\ UNCHANGED <<user, rewards, held, spam, errors, disturbed>>

(***************************************************************************)
(* SyncUserLevelRoles.                                                     *)
(***************************************************************************)

\* getGuildLevelRoles: what is cached, or the table's rows, to be put into the cache.
LevelRolesCached(j) ==
  /\ At(j, "sync") /\ cached # Nothing
  /\ Becomes(j, [jobs[j] EXCEPT !.step = IF Rewarded(cached) = {} THEN "done" ELSE "level",
                                !.lrs = cached])
  /\ UNCHANGED <<user, rewards, held, spam, bounds, disturbed>>

LevelRolesRead(j) ==
  /\ At(j, "sync") /\ cached = Nothing
  /\ \/ Becomes(j, [jobs[j] EXCEPT !.step = "put", !.lrs = levelRoles]) /\ UNCHANGED <<errors, disturbed>>
     \/ Fails /\ Goes(j, "done") /\ disturbed' = TRUE
  /\ UNCHANGED <<user, rewards, held, spam, events>>

LevelRolesPut(j) ==
  /\ At(j, "put")
  /\ cached' = jobs[j].lrs
  /\ Goes(j, IF Rewarded(jobs[j].lrs) = {} THEN "done" ELSE "level")
  /\ UNCHANGED <<user, levelRoles, stack, held, spam, bounds, disturbed>>

\* GetUserXP.
ReadLevel(j) ==
  /\ At(j, "level")
  /\ \/ Becomes(j, [jobs[j] EXCEPT !.step = "member", !.level = level]) /\ UNCHANGED <<errors, disturbed>>
     \/ Fails /\ Goes(j, "done") /\ disturbed' = TRUE
  /\ UNCHANGED <<user, rewards, held, spam, events>>

\* Mutant: roles are only added.
PlanAdds(j) ==
  LET job == jobs[j]
      target == Target(job.lrs, job.level, stack) IN
  /\ At(j, "member")
  /\ Becomes(j, [job EXCEPT !.step = "apply", !.adds = target \ held])
  /\ UNCHANGED <<user, rewards, held, spam, bounds, disturbed>>

\* The member and the setting, and what is to be added and removed.
Plan(j) ==
  LET job == jobs[j]
      target == Target(job.lrs, job.level, stack)
      had == held \cap Rewarded(job.lrs) IN
  /\ At(j, "member")
  /\ \/ /\ Becomes(j, [job EXCEPT !.step = "apply", !.adds = target \ had, !.removes = had \ target])
        /\ UNCHANGED <<errors, disturbed>>
     \/ Fails /\ Goes(j, "done") /\ disturbed' = TRUE
  /\ UNCHANGED <<user, rewards, held, spam, events>>

\* One role after the other, the additions first; one that fails is passed over.
Apply(j) ==
  LET job == jobs[j]
      todo == IF job.adds # {} THEN job.adds ELSE job.removes IN
  /\ At(j, "apply") /\ todo # {}
  /\ \E r \in todo :
       /\ Becomes(j, [job EXCEPT !.adds = @ \ {r}, !.removes = IF job.adds = {} THEN @ \ {r} ELSE @])
       /\ \/ held' = (IF job.adds # {} THEN held \cup {r} ELSE held \ {r}) /\ UNCHANGED <<errors, disturbed>>
          \/ Fails /\ disturbed' = TRUE /\ UNCHANGED held
  /\ UNCHANGED <<user, rewards, spam, events>>

Synced(j) ==
  /\ At(j, "apply") /\ jobs[j].adds = {} /\ jobs[j].removes = {} /\ Goes(j, "done")
  /\ UNCHANGED <<user, rewards, held, spam, bounds, disturbed>>

Sync(j) ==
  \/ LevelRolesCached(j) \/ LevelRolesRead(j) \/ LevelRolesPut(j)
  \/ ReadLevel(j) \/ Plan(j) \/ Apply(j) \/ Synced(j)

Commands(j) ==
  \/ /\ Free(j)
     /\ \/ \E n \in Amounts, how \in {Addxp, Removexp, Setxp, Setlevel, Resetxp} : ChangeXP(j, how, n)
        \/ \E l \in Levels, r \in Roles : Addlevelrole(j, l, r)
        \/ \E l \in Levels : Removelevelrole(j, l)
  \/ InvalidateGuildLevelRolesCache(j) \/ Synclevels(j)

Next ==
  \/ \E j \in Jobs :
       \/ OnLevelingMessageCreate(j) \/ Check(j) \/ Award(j)
       \/ Commands(j) \/ Sync(j)
  \/ Minute \/ FindStale \/ CleanupSpamTracker \/ CacheExpires

Spec == Init /\ [][Next]_vars

(***************************************************************************)
(* Properties.                                                             *)
(***************************************************************************)

\* Whoever changed it and however, by experience or by level, the level in the row is that of
\* the experience.
LevelMatchesXP == level = CalculateLevel(xp)

\* A member is awarded once a minute at most, however many messages are handled at a time:
\* and once more at most for each state that was cleaned up while a message had it in hand
\* or had been awarded with it.
AwardsAreSpaced == awards <= 1 + Cardinality(orphaned)

\* When everything is handled the member has the roles of the level and no others of the
\* rewards: unless the level changed again during a sync, the rewards were changed (which
\* syncs nobody), or a call failed.
RolesFollowLevel ==
  (\A j \in Jobs : jobs[j] = Idle) /\ ~disturbed
    => held \cap Rewarded(levelRoles) = Target(levelRoles, level, stack)
=============================================================================
