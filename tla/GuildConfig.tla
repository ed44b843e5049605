---------------------------- MODULE GuildConfig -----------------------------
(***************************************************************************)
(* The configuration of one guild: its row in guild_configs, the copy of   *)
(* the row that database.ConfigCache keeps for five minutes, and the       *)
(* commands that change settings (commands/moderation/server_config.go,    *)
(* leveling, welcome, and the lists that policy.Module edits under its     *)
(* mutationMu).                                                            *)
(*                                                                         *)
(* Every command and every event handler is a goroutine.  Each statement   *)
(* and each operation of the cache is atomic; between them anything may    *)
(* happen.  The value of a scalar setting is the number of the command     *)
(* that wrote it, 0 for its default.                                       *)
(***************************************************************************)
EXTENDS Naturals, Sequences, FiniteSets, TLC

CONSTANTS
  Jobs,         \* goroutines
  Commands,     \* the commands in use, of AllCommands
  Items,        \* what the lists hold
  Limit,        \* of the autoroles
  Idle, Nothing,
  MaxCommands,  \* bound: goroutines that are started
  MaxErrors     \* bound: statements that fail

VARIABLES
  row, stored,  \* the row, and whether there is one
  cache,        \* ConfigCache.entries, or Nothing
  mutationMu,   \* who holds it
  setupLock,    \* who runs the guild's setup dashboard
  jobs,
  commands, errors,
  overlapped,   \* ghost: goroutines whose configuration was overwritten since they read it
  raced,        \* ghost: the cached copy was put by such a reader
  promised      \* ghost: <<list, item>> -> what the last edit that succeeded said

configVars == <<row, stored, cache, mutationMu, setupLock, overlapped, raced, promised>>
vars == <<configVars, jobs, commands, errors>>

(***************************************************************************)
(* The commands: what they write, one UPDATE after the other, whether they *)
(* look first if that is so already, whether policy.Module does it under   *)
(* mutationMu, and whether Discord's AutoMod must be told.                 *)
(***************************************************************************)

Command(kind, writes) ==
  [kind |-> kind, writes |-> writes, compares |-> FALSE, limited |-> FALSE,
   guarded |-> FALSE, synced |-> FALSE]
Sets(settings) == Command("set", <<settings>>)
Edits(list) == Command("edit", <<{list}>>)
Compares(command) == [command EXCEPT !.compares = TRUE]
Guards(command) == [command EXCEPT !.guarded = TRUE]
Syncs(command) == [command EXCEPT !.guarded = TRUE, !.synced = TRUE]

AntiMP3 == Compares(Sets({"antimp3_mode"}))
DisableSelfReact == Compares(Sets({"self_react_disabled"}))
Prefix == Compares(Sets({"prefix"}))
EmbedColor == Sets({"embed_color"})
Imagemuterole == Sets({"imagemute_role_id"})
Reactionmuterole == Sets({"reactionmute_role_id"})
Jailrole == Sets({"jail_role_id"})
Muterole == Sets({"mute_role_id"})
Modlog == Sets({"mod_log_channel_id"})
StarboardChannel == Sets({"starboard_channel_id"})
StarboardThreshold == Sets({"starboard_threshold"})
Snipesettings == Sets({"snipe_limit"})
WelcomeChannel == Sets({"welcome_channel_id"})
WelcomeMessage == Sets({"welcome_message", "welcome_is_embed"})
WelcomeEmbed == Sets({"welcome_embed_json", "welcome_is_embed"})
WelcomeMode == Sets({"welcome_is_embed"})
WelcomeDM == Sets({"welcome_dm_enabled"})
WelcomeDMMessage == Sets({"welcome_dm_message", "welcome_dm_is_embed"})
WelcomeDMEmbed == Sets({"welcome_dm_embed_json", "welcome_dm_is_embed"})
WelcomeDMMode == Sets({"welcome_dm_is_embed"})
GoodbyeChannel == Sets({"goodbye_channel_id"})
GoodbyeMessage == Sets({"goodbye_message", "goodbye_is_embed"})
GoodbyeEmbed == Sets({"goodbye_embed_json", "goodbye_is_embed"})
GoodbyeMode == Sets({"goodbye_is_embed"})
LevelsRate == Sets({"xp_multiplier"})
LevelsStack == Sets({"level_roles_stack"})
Levelupmsg == Sets({"levelup_messages_enabled"})
\* Two statements: the second may fail.
VoiceSetup == Command("set", <<{"voicemaster_trigger_channel_id"}, {"voicemaster_category_id"}>>)

Autorole == [Edits("autoroles_json") EXCEPT !.limited = TRUE]
AutoroleClear == Command("clear", <<{"autoroles_json"}>>)
LevelsIgnore == Command("toggle", <<{"ignored_level_channel_ids"}>>)
BlacklistUser == Guards(Edits("blacklisted_users"))
BlacklistTarget(kind) == Guards(Edits(kind))
BlacklistRole == BlacklistTarget("blacklisted_roles")
BlacklistChannel == BlacklistTarget("blacklisted_channels")
BlacklistClear ==
  Guards(Command("clear", <<{"blacklisted_users", "blacklisted_roles", "blacklisted_channels"}>>))
SetInviteFilter == Syncs(Sets({"invite_filter_enabled"}))
SetInvitePunishment == Syncs(Sets({"invite_filter_enabled", "invite_filter_punishment"}))
InviteExemption == Syncs(Edits("invite_filter_whitelisted_roles"))
WordExemption == Syncs(Edits("word_filter_whitelisted_roles"))

\* What each section of the setup dashboard stages.
ConfigureGeneral == {"prefix", "embed_color"}
ConfigureLogs == {"mod_log_channel_id"}
ConfigureStarboard == {"starboard_channel_id", "starboard_threshold"}
ConfigureWelcome == {"welcome_channel_id", "goodbye_channel_id"}
ConfigureRoles == {"autoroles_json", "mute_role_id", "imagemute_role_id", "reactionmute_role_id",
                   "jail_role_id", "jail_channel_id"}
ConfigureVoice == {"radio_restriction_mode", "radio_autojoin_channel_id", "radio_player_channel_id",
                   "voicemaster_trigger_channel_id", "voicemaster_category_id"}
ConfigureLeveling == {"xp_multiplier", "levelup_messages_enabled", "level_roles_stack"}
ConfigureSafeguards == {"self_react_disabled", "antimp3_mode", "snipe_limit"}

Sections == {ConfigureGeneral, ConfigureLogs, ConfigureStarboard, ConfigureWelcome,
             ConfigureRoles, ConfigureVoice, ConfigureLeveling, ConfigureSafeguards}
Setup == Command("setup", <<UNION Sections>>)

AllCommands ==
  {AntiMP3, DisableSelfReact, Prefix, EmbedColor, Imagemuterole, Reactionmuterole, Jailrole,
   Muterole, Modlog, StarboardChannel, StarboardThreshold, Snipesettings,
   WelcomeChannel, WelcomeMessage, WelcomeEmbed, WelcomeMode,
   WelcomeDM, WelcomeDMMessage, WelcomeDMEmbed, WelcomeDMMode,
   GoodbyeChannel, GoodbyeMessage, GoodbyeEmbed, GoodbyeMode,
   LevelsRate, LevelsStack, Levelupmsg, VoiceSetup,
   Autorole, AutoroleClear, LevelsIgnore, BlacklistUser, BlacklistRole, BlacklistChannel,
   BlacklistClear, SetInviteFilter, SetInvitePunishment, InviteExemption, WordExemption, Setup}

Of(kinds) == {c \in Commands : c.kind \in kinds}
Written(cs) == UNION {UNION {c.writes[n] : n \in DOMAIN c.writes} : c \in cs}
Scalars == Written(Of({"set"}))
Lists == Written(Of({"edit", "toggle"}))
GuardedLists == Lists \cap Written({c \in Commands : c.guarded})

Settings == Scalars \cup Lists
Defaults == [s \in Settings |-> IF s \in Lists THEN {} ELSE 0]

(***************************************************************************)
(* Goroutines.                                                             *)
(***************************************************************************)

\* step, and then: what follows GetGuildConfig; seen: what it returned; how, edit, item:
\* what was asked for; value: of the scalars, 0 for a reset; updates: what
\* UpdateGuildSettings is given; rest: the statements after it.
Blank == [step |-> "done", then |-> "done", seen |-> Nothing, how |-> Nothing,
          edit |-> "add", item |-> Nothing, value |-> 0, updates |-> << >>, rest |-> << >>]

At(j, step) == jobs[j] # Idle /\ jobs[j].step = step
Runs(j, kind) == jobs[j] # Idle /\ jobs[j].how # Nothing /\ jobs[j].how.kind = kind
Goes(j, step) ==
  jobs' = [jobs EXCEPT ![j] = IF step = "done" THEN Idle ELSE [@ EXCEPT !.step = step]]

\* The deferred Unlock and ReleaseSetupLock.
Unlocked(j) == IF mutationMu = j THEN Idle ELSE mutationMu
Released(j) == IF setupLock = j THEN Idle ELSE setupLock
Frees(j) == mutationMu' = Unlocked(j) /\ setupLock' = Released(j)

ConfigInit ==
  /\ row = Defaults /\ stored \in BOOLEAN /\ cache = Nothing
  /\ mutationMu = Idle /\ setupLock = Idle
  /\ commands = 0 /\ errors = 0
  /\ overlapped = {} /\ raced = FALSE
  /\ promised = [edit \in Lists \X Items |-> FALSE]

Init == ConfigInit /\ jobs = [j \in Jobs |-> Idle]

Free(j) == jobs[j] = Idle /\ commands < MaxCommands

Start(j, job) ==
  /\ Free(j) /\ commands' = commands + 1
  /\ jobs' = [jobs EXCEPT ![j] = job]

Fails == errors < MaxErrors /\ errors' = errors + 1

\* A statement failed: the command ends.
Abandon(j) ==
  /\ Goes(j, "done") /\ Frees(j) /\ overlapped' = overlapped \ {j}
  /\ UNCHANGED <<row, stored, cache, commands, raced, promised>>

\* Goroutines that have a configuration in hand, which a write makes outdated.
Informed == {r \in DOMAIN jobs : jobs[r] # Idle /\ jobs[r].seen # Nothing}

(***************************************************************************)
(* GetGuildConfig.                                                         *)
(***************************************************************************)

Read(j) ==
  /\ Start(j, [Blank EXCEPT !.step = "get"])
  /\ UNCHANGED <<configVars, errors>>

Hit(j) ==
  /\ At(j, "get") /\ cache # Nothing
  /\ jobs' = [jobs EXCEPT ![j] = IF @.then = "done" THEN Idle
                                 ELSE [@ EXCEPT !.step = jobs[j].then, !.seen = cache]]
  /\ overlapped' = IF cache = row \/ jobs[j].then = "done" THEN overlapped \ {j}
                   ELSE overlapped \cup {j}
  /\ UNCHANGED <<row, stored, cache, mutationMu, setupLock, raced, promised, commands, errors>>

Miss(j) ==
  /\ At(j, "get") /\ cache = Nothing /\ Goes(j, "query")
  /\ UNCHANGED <<configVars, commands, errors>>

\* Without a row the defaults are returned, and nothing is cached.
Query(j) ==
  LET next == IF stored THEN "fill" ELSE jobs[j].then IN
  /\ At(j, "query")
  /\ jobs' = [jobs EXCEPT ![j] = IF next = "done" THEN Idle
                                 ELSE [@ EXCEPT !.step = next, !.seen = row]]
  /\ overlapped' = overlapped \ {j}
  /\ UNCHANGED <<row, stored, cache, mutationMu, setupLock, raced, promised, commands, errors>>

QueryFails(j) == At(j, "query") /\ Fails /\ Abandon(j)

\* ConfigCache.Set, after the query and without looking.
Fill(j) ==
  /\ At(j, "fill") /\ Goes(j, jobs[j].then)
  /\ cache' = jobs[j].seen /\ raced' = (j \in overlapped)
  /\ overlapped' = IF jobs[j].then = "done" THEN overlapped \ {j} ELSE overlapped
  /\ UNCHANGED <<row, stored, mutationMu, setupLock, promised, commands, errors>>

\* The entry is older than its TTL: the next Get finds it so and deletes it.
Expire ==
  /\ cache # Nothing /\ cache' = Nothing /\ raced' = FALSE
  /\ UNCHANGED <<row, stored, mutationMu, setupLock, overlapped, promised, jobs, commands, errors>>

(***************************************************************************)
(* What the commands do before they write.                                 *)
(***************************************************************************)

\* policy.Module reads the filter's state before it changes it.
First(c, step) == IF c.synced THEN "get" ELSE step

\* The method of policy.Module waits for mutationMu.
Locks(j, c) == IF c.guarded THEN mutationMu = Idle /\ mutationMu' = j ELSE UNCHANGED mutationMu

NewUpdates(settings, value) == [s \in settings \cap Settings |-> value]

Set(j, c) ==
  /\ c.kind = "set"
  /\ \E value \in {0, commands + 1} :
       Start(j, [Blank EXCEPT !.step = First(c, IF c.compares THEN "check" ELSE "write"),
                              !.then = "write", !.how = c, !.value = value,
                              !.updates = NewUpdates(Head(c.writes), value),
                              !.rest = Tail(c.writes)])
  /\ Locks(j, c)
  /\ UNCHANGED <<row, stored, cache, setupLock, overlapped, raced, promised, errors>>

\* GetGuildSettingString, from the table: nothing is written that is so already.
Check(j) ==
  /\ At(j, "check")
  /\ Goes(j, IF \A s \in DOMAIN jobs[j].updates : row[s] = jobs[j].updates[s] THEN "done" ELSE "write")
  /\ UNCHANGED <<configVars, commands, errors>>

\* Mutant: the list is edited without mutationMu.
EditUnlocked(j, c, edit, i) ==
  /\ c.kind \in {"edit", "toggle"}
  /\ Start(j, [Blank EXCEPT !.step = First(c, "list"), !.then = "list", !.how = c,
                            !.edit = edit, !.item = i])
  /\ UNCHANGED <<configVars, errors>>

Edit(j, c, edit, i) ==
  /\ c.kind \in {"edit", "toggle"}
  /\ Start(j, [Blank EXCEPT !.step = First(c, "list"), !.then = "list", !.how = c,
                            !.edit = edit, !.item = i])
  /\ Locks(j, c)
  /\ UNCHANGED <<row, stored, cache, setupLock, overlapped, raced, promised, errors>>

\* GetGuildSettingSlice, from the table and never from the cache, and what the command
\* makes of it: already there, not there, or too many.
ReadList(j) ==
  LET c == jobs[j].how
      l == CHOOSE s \in c.writes[1] : TRUE
      i == jobs[j].item
      found == row[l]
      adds == IF c.kind = "toggle" THEN i \notin found ELSE jobs[j].edit = "add"
      edited == IF adds THEN found \cup {i} ELSE found \ {i}
      full == c.limited /\ adds /\ Cardinality(found) >= Limit IN
  /\ At(j, "list")
  /\ IF edited = found \/ full
     THEN Goes(j, "done") /\ mutationMu' = Unlocked(j)
     ELSE /\ jobs' = [jobs EXCEPT ![j].step = "write", ![j].updates = [s \in {l} |-> edited],
                                  ![j].seen = Nothing]
          /\ UNCHANGED mutationMu
  /\ overlapped' = overlapped \ {j}
  /\ UNCHANGED <<row, stored, cache, setupLock, raced, promised, commands, errors>>

ReadListFails(j) == At(j, "list") /\ Fails /\ Abandon(j)

\* autorole clear and ClearGuildRestrictions, in one statement.
Clear(j, c) ==
  /\ c.kind = "clear"
  /\ Start(j, [Blank EXCEPT !.step = "write", !.how = c, !.updates = NewUpdates(c.writes[1], {})])
  /\ Locks(j, c)
  /\ UNCHANGED <<row, stored, cache, setupLock, overlapped, raced, promised, errors>>

(***************************************************************************)
(* The setup dashboard: one at a time in a guild, on a copy of the         *)
(* configuration that is minutes old when it is saved.                     *)
(***************************************************************************)

AcquireSetupLock(j, c) ==
  /\ c.kind = "setup" /\ setupLock = Idle /\ setupLock' = j
  /\ Start(j, [Blank EXCEPT !.step = "get", !.then = "stage", !.how = c, !.item = {},
                            !.value = commands + 1])
  /\ UNCHANGED <<row, stored, cache, mutationMu, overlapped, raced, promised, errors>>

\* A section asks for its settings one by one, and waits for a choice or a button of whoever
\* began: what was asked for in time is chosen.
AwaitComponentInteraction(section) == SUBSET (section \cap Settings) \ {{}}

\* What is typed, or the button for a channel or role that the bot makes.
AwaitMessageOrButton(s, items, value) == IF s \in Lists THEN items ELSE value

\* A section is worked through: some of its settings are chosen anew.
RunSubcommand(j) ==
  /\ At(j, "stage")
  /\ \E section \in Sections, items \in SUBSET Items :
       \E chosen \in AwaitComponentInteraction(section) :
         jobs' = [jobs EXCEPT
           ![j].seen = [s \in Settings |->
             IF s \in chosen THEN AwaitMessageOrButton(s, items, jobs[j].value) ELSE @[s]],
           ![j].item = @ \cup chosen]
  /\ UNCHANGED <<configVars, commands, errors>>

\* Mutant: what was not chosen is reset.
SaveChosen(j) ==
  /\ At(j, "stage")
  /\ jobs' = [jobs EXCEPT ![j].step = "write",
                ![j].updates = [s \in Written({Setup}) \cap Settings |->
                                  IF s \in jobs[j].item THEN jobs[j].seen[s] ELSE Defaults[s]]]
  /\ UNCHANGED <<configVars, commands, errors>>

\* provisionAndSave: every setting of every section, chosen or not.
Save(j) ==
  /\ At(j, "stage")
  /\ jobs' = [jobs EXCEPT ![j].step = "write",
                ![j].updates = [s \in Written({Setup}) \cap Settings |-> jobs[j].seen[s]]]
  /\ UNCHANGED <<configVars, commands, errors>>

\* Cancelled, timed out, or a section failed.
AbortWizard(j) ==
  /\ At(j, "stage") /\ Abandon(j) /\ UNCHANGED errors

(***************************************************************************)
(* UpdateGuildSettings: one UPSERT of the given columns...                 *)
(***************************************************************************)

Write(j) ==
  LET u == jobs[j].updates IN
  /\ At(j, "write") /\ Goes(j, "invalidate")
  /\ row' = [s \in Settings |-> IF s \in DOMAIN u THEN u[s] ELSE row[s]] /\ stored' = TRUE
  /\ promised' = [p \in DOMAIN promised |->
                    IF p[1] \notin DOMAIN u THEN promised[p]
                    ELSE IF j \in overlapped THEN p[2] \in u[p[1]]
                    ELSE CASE jobs[j].item = Nothing -> FALSE
                           [] jobs[j].item = p[2] -> jobs[j].edit = "add"
                           [] OTHER -> promised[p]]
  /\ overlapped' = (overlapped \cup Informed) \ {j}
  /\ UNCHANGED <<cache, mutationMu, setupLock, raced, commands, errors>>

\* The command ends where it is; switching the voice rooms off goes on.
WriteFails(j) ==
  /\ At(j, "write") /\ Fails
  /\ IF jobs[j].rest = << >> \/ jobs[j].value # 0 THEN Abandon(j)
     ELSE /\ jobs' = [jobs EXCEPT ![j].updates = NewUpdates(Head(jobs[j].rest), 0),
                                  ![j].rest = Tail(@)]
          /\ UNCHANGED <<configVars, commands>>

\* What follows the write: the next one, AutoMod, or nothing.
Follows(j) ==
  LET job == jobs[j] IN
  IF job.rest # << >>
  THEN /\ jobs' = [jobs EXCEPT ![j].step = "write", ![j].rest = Tail(@),
                               ![j].updates = NewUpdates(Head(job.rest), job.value)]
       /\ UNCHANGED <<mutationMu, setupLock>>
  ELSE /\ Goes(j, IF job.how # Nothing /\ job.how.synced THEN "queue" ELSE "done")
       /\ Frees(j)

\* Mutant: the cached copy is left to expire.
InvalidateNothing(j) ==
  /\ At(j, "invalidate") /\ Follows(j)
  /\ UNCHANGED <<row, stored, cache, overlapped, raced, promised, commands, errors>>

\* ...and Cache.Invalidate; then the locks are released.
Invalidate(j) ==
  /\ At(j, "invalidate") /\ Follows(j)
  /\ cache' = Nothing /\ raced' = FALSE
  /\ UNCHANGED <<row, stored, overlapped, promised, commands, errors>>

\* The bot has left the guild: DeleteGuildConfig.
LeaveGuild(j) ==
  /\ stored
  /\ Start(j, [Blank EXCEPT !.step = "invalidate"])
  /\ row' = Defaults /\ stored' = FALSE
  /\ promised' = [p \in DOMAIN promised |-> FALSE]
  /\ overlapped' = overlapped \cup Informed \cup {r \in DOMAIN jobs : At(r, "write")}
  /\ UNCHANGED <<cache, mutationMu, setupLock, raced, errors>>

Asks(j) ==
  /\ Free(j)
  /\ \/ Read(j)
     \/ \E c \in Commands :
          \/ Set(j, c) \/ Clear(j, c) \/ AcquireSetupLock(j, c)
          \/ \E edit \in {"add", "remove"}, i \in Items : Edit(j, c, edit, i)

Works(j) ==
  \/ Hit(j) \/ Miss(j) \/ Query(j) \/ QueryFails(j) \/ Fill(j)
  \/ Check(j) \/ ReadList(j) \/ ReadListFails(j)
  \/ RunSubcommand(j) \/ Save(j) \/ AbortWizard(j)
  \/ Write(j) \/ WriteFails(j) \/ Invalidate(j)

Next == Expire \/ \E j \in Jobs : Asks(j) \/ Works(j) \/ LeaveGuild(j)

Spec == Init /\ [][Next]_vars

(***************************************************************************)
(* Properties.                                                             *)
(***************************************************************************)

TypeOK ==
  /\ \A s \in Scalars : row[s] \in 0..MaxCommands
  /\ \A l \in Lists : row[l] \subseteq Items
  /\ stored \in BOOLEAN /\ raced \in BOOLEAN
  /\ cache = Nothing \/ DOMAIN cache = Settings
  /\ {mutationMu, setupLock} \subseteq {Idle} \cup DOMAIN jobs
  /\ overlapped \subseteq DOMAIN jobs
  /\ commands \in 0..MaxCommands /\ errors \in 0..MaxErrors

\* What the bot believes of a guild is what the table says, but for two moments: a writer
\* that has still to invalidate, and a reader that had queried the table when somebody
\* wrote to it and that cached what it had read.
CacheIsTrue ==
  cache \notin {Nothing, row} => raced \/ \E j \in DOMAIN jobs : At(j, "invalidate")

\* No edit of a guarded list is lost: whoever was blacklisted, whitelisted or exempted is so
\* until somebody says otherwise, however many moderators edit the list at a time.  (An edit
\* that is under way when the bot leaves the guild brings the old list back: promised follows.)
EditsStay ==
  \A l \in GuardedLists, i \in Items : (i \in row[l]) = promised[l, i]

\* The setup dashboard changes what was chosen in it and nothing else, unless somebody wrote
\* to the row while it was open (it then undoes that: provisionAndSave writes every setting).
ChangesWhatWasChosen ==
  \A j \in Jobs :
    Runs(j, "setup") /\ At(j, "write") /\ ~At(j, "write")' /\ row' # row =>
      j \in overlapped \/ \A s \in Settings \ jobs[j].item : row'[s] = row[s]

SetupChangesWhatWasChosen == [][ChangesWhatWasChosen]_vars
=============================================================================
