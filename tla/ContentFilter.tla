--------------------------- MODULE ContentFilter ----------------------------
(***************************************************************************)
(* The word and invite filters of one guild: what policy.Module keeps of   *)
(* them in guild_configs (GuildConfig) and in tables of their own, and the *)
(* two AutoMod rules at Discord that commands/filter's AutoModSyncer       *)
(* brings into line two seconds after the last change, one sync at a time, *)
(* and once more on the way out.                                           *)
(*                                                                         *)
(* A rule is modelled by what it enforces.  Who else edits the rules at    *)
(* Discord is not modelled.                                                *)
(***************************************************************************)
EXTENDS GuildConfig

CONSTANTS
  Worker,       \* the goroutine of a sync
  Entries,      \* words and patterns, allowed invites
  MaxEntries    \* MaxKeywordCount

VARIABLES
  tables,       \* part -> its entries
  task,         \* tasks[guild]: the parts to sync, {} for no task
  timer,        \* its timer runs
  inFlight, rerun,
  requeues,     \* workers whose sync is over and who have still to queue another
  rule,         \* part -> what the rule at Discord enforces
  exiting,      \* Flush
  failed,       \* ghost: parts whose last sync failed
  misled,       \* ghost: the sync's configuration came from a raced cache entry
  misset,       \* ghost: parts last synced from such an entry
  late          \* ghost: Flush met a change that could not be taken along

syncer == <<task, timer, inFlight, rerun, requeues>>
ghosts == <<failed, misled, misset, late>>
filterVars == <<vars, tables, syncer, rule, exiting, ghosts>>

Parts == {"invites", "words"}

\* The settings its rule depends on.
Concerns ==
  [invites |-> Written({SetInvitePunishment, InviteExemption}) \cap Settings,
   words |-> Written({WordExemption}) \cap Settings]

\* What a command changes: settings, or the table of a part.
Tabled(part) == Syncs(Command("table", <<{part}>>))
PartOf(c) ==
  CHOOSE part \in Parts : c = Tabled(part) \/ c.writes[1] \cap Concerns[part] # {}

\* What the rule of a part should enforce.
Wanted(part, config, ts) ==
  [settings |-> [s \in Concerns[part] |-> config[s]], entries |-> ts[part]]

FilterInit ==
  /\ ConfigInit /\ jobs = [j \in Jobs \cup {Worker} |-> Idle]
  /\ tables = [part \in Parts |-> {}]
  /\ task = {} /\ timer = FALSE /\ inFlight = FALSE /\ rerun = FALSE /\ requeues = 0
  /\ rule = [part \in Parts |-> Wanted(part, row, tables)]
  /\ exiting = "no" /\ failed = {} /\ misled = FALSE /\ misset = {} /\ late = FALSE

(***************************************************************************)
(* The commands.                                                           *)
(***************************************************************************)

\* A command on the settings of the filter, or on others.
Config(j) ==
  /\ Asks(j) \/ Works(j)
  /\ UNCHANGED <<tables, syncer, rule, exiting, ghosts>>

\* AddWord(s), AddRegex, AddAllowedInvite, their Remove and Clear: the filter's state is
\* read first, under mutationMu.
EditTable(j, part, edit, es) ==
  /\ Start(j, [Blank EXCEPT !.step = "get", !.then = "table", !.how = Tabled(part),
                            !.edit = edit, !.item = es])
  /\ mutationMu = Idle /\ mutationMu' = j
  /\ UNCHANGED <<row, stored, cache, setupLock, overlapped, raced, promised, errors>>
  /\ UNCHANGED <<tables, syncer, rule, exiting, ghosts>>

HandleInvites(j) ==
  \E e \in Entries, edit \in {"add", "remove"} : EditTable(j, "invites", edit, {e})

\* Several words may be added at a time.
HandleWords(j) ==
  \/ \E es \in SUBSET Entries \ {{}} : EditTable(j, "words", "add", es)
  \/ \E e \in Entries : EditTable(j, "words", "remove", {e})
  \/ EditTable(j, "words", "clear", {})

\* Patterns, one at a time, go into the same rule as the words.
HandleRegex(j) ==
  \/ \E e \in Entries, edit \in {"add", "remove"} : EditTable(j, "words", edit, {e})
  \/ EditTable(j, "words", "clear", {})

\* What AddWords takes: its map of what is there grows with what it takes, so each word
\* that is taken counts twice against the limit.
Taken(found, es) ==
  LET new == es \ found IN
  {ws \in SUBSET new :
     /\ \A n \in 0..(Cardinality(ws) - 1) : Cardinality(found) + 2 * n < MaxEntries
     /\ (ws = new) \/ (Cardinality(found) + 2 * Cardinality(ws) >= MaxEntries)}

\* The methods for one entry: what becomes of the table, {} for an error.  The invites have
\* no limit.
AddAllowedInvite(found, es) == {ts \in {found \cup es} : ~(es \subseteq found)}
AddRegex(found, es) == {ts \in AddAllowedInvite(found, es) : Cardinality(found) < MaxEntries}
RemoveAllowedInvite(found, es) == {ts \in {found \ es} : es \subseteq found}
RemoveRegex(found, es) == RemoveAllowedInvite(found, es)

\* AddWords with nothing to add is not an error.
Outcomes(part, found, edit, es) ==
  CASE edit = "clear" -> {{}}
    [] edit = "remove" -> IF part = "invites" THEN RemoveAllowedInvite(found, es)
                          ELSE RemoveRegex(found, es)
    [] edit = "add" /\ Cardinality(es) > 1 -> {found \cup ws : ws \in Taken(found, es)}
    [] OTHER -> IF part = "invites" THEN AddAllowedInvite(found, es) ELSE AddRegex(found, es)

Unlock(j) ==
  /\ mutationMu' = Unlocked(j) /\ overlapped' = overlapped \ {j}
  /\ UNCHANGED <<row, stored, cache, setupLock, raced, promised, commands>>

Table(j) ==
  LET part == CHOOSE p \in Parts : jobs[j].how = Tabled(p)
      found == tables[part]
      results == Outcomes(part, found, jobs[j].edit, jobs[j].item) IN
  /\ At(j, "table")
  /\ IF results = {} THEN Goes(j, "done") /\ UNCHANGED tables
     ELSE /\ Goes(j, "queue")
          /\ \E es \in results : tables' = [tables EXCEPT ![part] = es]
  /\ Unlock(j) /\ UNCHANGED <<errors, syncer, rule, exiting, ghosts>>

TableFails(j) ==
  /\ At(j, "table") /\ Fails /\ Goes(j, "done")
  /\ Unlock(j) /\ UNCHANGED <<tables, syncer, rule, exiting, ghosts>>

(***************************************************************************)
(* AutoModSyncer.                                                          *)
(***************************************************************************)

Elsewhere == UNCHANGED <<configVars, commands, tables>>

QueueSync(j) ==
  /\ At(j, "queue") /\ Goes(j, "done")
  /\ task' = task \cup {PartOf(jobs[j].how)} /\ timer' = TRUE
  /\ late' = (late \/ exiting # "no")
  /\ Elsewhere
  /\ UNCHANGED <<errors, inFlight, rerun, requeues, rule, exiting, failed, misled, misset>>

\* Mutant: a second sync starts beside the one that runs.
FlushAnyway ==
  /\ task' = {} /\ inFlight' = TRUE /\ UNCHANGED rerun
  /\ jobs' = [jobs EXCEPT ![Worker] =
                IF task = {} \/ inFlight THEN @
                ELSE [Blank EXCEPT !.step = "get", !.then = "load", !.item = task]]

\* flushGuild: what the timer calls, and Flush.
FlushGuild ==
  IF task = {} THEN UNCHANGED <<task, inFlight, rerun, jobs>>
  ELSE IF inFlight THEN rerun' = TRUE /\ UNCHANGED <<task, inFlight, jobs>>
  ELSE /\ task' = {} /\ inFlight' = TRUE /\ UNCHANGED rerun
       /\ jobs' = [jobs EXCEPT ![Worker] =
                     [Blank EXCEPT !.step = "get", !.then = "load", !.item = task]]

Fire ==
  /\ timer /\ timer' = FALSE /\ FlushGuild
  /\ Elsewhere /\ UNCHANGED <<errors, requeues, rule, exiting, ghosts>>

\* executeSync: the configuration, from the cache or the table...
ReadConfig ==
  /\ \/ Hit(Worker) /\ misled' = raced
     \/ Query(Worker) /\ misled' = FALSE
     \/ (Miss(Worker) \/ Fill(Worker)) /\ UNCHANGED misled
  /\ UNCHANGED <<tables, syncer, rule, exiting, failed, misset, late>>

\* ...the other tables...
Load ==
  /\ At(Worker, "load")
  /\ jobs' = [jobs EXCEPT ![Worker].updates = tables, ![Worker].step = "invites"]
  /\ Elsewhere /\ UNCHANGED <<errors, syncer, rule, exiting, ghosts>>

LoadFails ==
  /\ At(Worker, "query") \/ At(Worker, "load")
  /\ Fails /\ Goes(Worker, "end") /\ failed' = failed \cup jobs[Worker].item
  /\ Elsewhere /\ UNCHANGED <<syncer, rule, exiting, misled, misset, late>>

\* ...and the rules, one after the other: SyncAutoModInviteRule, SyncAutoModWordRule.
SyncRule(part) ==
  /\ At(Worker, part)
  /\ Goes(Worker, IF part = "invites" THEN "words" ELSE "end")
  /\ \/ part \notin jobs[Worker].item /\ UNCHANGED <<errors, rule, failed, misset>>
     \/ /\ part \in jobs[Worker].item
        /\ rule' = [rule EXCEPT ![part] = Wanted(part, jobs[Worker].seen, jobs[Worker].updates)]
        /\ failed' = failed \ {part}
        /\ misset' = IF misled THEN misset \cup {part} ELSE misset \ {part}
        /\ UNCHANGED errors
     \/ /\ part \in jobs[Worker].item
        /\ Fails /\ failed' = failed \cup {part} /\ UNCHANGED <<rule, misset>>
  /\ Elsewhere /\ UNCHANGED <<syncer, exiting, misled, late>>

\* Mutant: what came in meanwhile is forgotten.
EndSyncOnly ==
  /\ At(Worker, "end") /\ Goes(Worker, "done")
  /\ inFlight' = FALSE /\ rerun' = FALSE
  /\ Elsewhere /\ UNCHANGED <<errors, task, timer, requeues, rule, exiting, ghosts>>

\* The guild is free for the next sync before this worker is through.
EndSync ==
  /\ At(Worker, "end") /\ Goes(Worker, "done")
  /\ inFlight' = FALSE /\ rerun' = FALSE
  /\ requeues' = IF rerun THEN requeues + 1 ELSE requeues
  /\ Elsewhere /\ UNCHANGED <<errors, task, timer, rule, exiting, ghosts>>

\* The worker queues both parts, then lets the wait group go.
Requeue ==
  /\ requeues > 0 /\ requeues' = requeues - 1
  /\ task' = Parts /\ timer' = TRUE
  /\ Elsewhere /\ UNCHANGED <<jobs, errors, inFlight, rerun, rule, exiting, ghosts>>

(***************************************************************************)
(* Flush: the timers are stopped, the tasks flushed, the workers awaited.  *)
(***************************************************************************)

FlushBegins ==
  /\ exiting = "no" /\ exiting' = IF task = {} THEN "waiting" ELSE "flushing"
  /\ timer' = FALSE
  /\ Elsewhere /\ UNCHANGED <<jobs, errors, task, inFlight, rerun, requeues, rule, ghosts>>

FlushTasks ==
  /\ exiting = "flushing" /\ exiting' = "waiting"
  /\ FlushGuild /\ late' = (late \/ inFlight)
  /\ Elsewhere /\ UNCHANGED <<errors, timer, requeues, rule, failed, misled, misset>>

\* Mutant: nobody waits.
FlushReturns ==
  /\ exiting = "waiting" /\ exiting' = "done"
  /\ Elsewhere /\ UNCHANGED <<jobs, errors, syncer, rule, ghosts>>

FlushEnds ==
  /\ exiting = "waiting" /\ jobs[Worker] = Idle /\ requeues = 0 /\ exiting' = "done"
  /\ Elsewhere /\ UNCHANGED <<jobs, errors, syncer, rule, ghosts>>

\* Its context has ended.
FlushGivesUp ==
  /\ exiting = "waiting" /\ exiting' = "gave up"
  /\ Elsewhere /\ UNCHANGED <<jobs, errors, syncer, rule, ghosts>>

FilterNext ==
  /\ exiting \notin {"done", "gave up"}
  /\ \/ \E j \in Jobs :
          \/ Config(j) \/ Table(j) \/ TableFails(j) \/ QueueSync(j)
          \/ HandleInvites(j) \/ HandleWords(j) \/ HandleRegex(j)
     \/ Expire /\ UNCHANGED <<tables, syncer, rule, exiting, ghosts>>
     \/ Fire \/ ReadConfig \/ Load \/ LoadFails \/ (\E part \in Parts : SyncRule(part))
     \/ EndSync \/ Requeue
     \/ FlushBegins \/ FlushTasks \/ FlushEnds \/ FlushGivesUp

FilterSpec == FilterInit /\ [][FilterNext]_filterVars

(***************************************************************************)
(* Properties.                                                             *)
(***************************************************************************)

FilterTypeOK ==
  /\ TypeOK
  /\ \A part \in Parts : tables[part] \subseteq Entries
  /\ task \subseteq Parts /\ failed \subseteq Parts /\ misset \subseteq Parts
  /\ {timer, inFlight, rerun, misled, late} \subseteq BOOLEAN /\ requeues \in Nat
  /\ exiting \in {"no", "flushing", "waiting", "done", "gave up"}

\* A command that has changed the filter and not yet queued a sync.
Underway == \E j \in Jobs : jobs[j] # Idle /\ (At(j, "queue") \/ At(j, "invalidate"))

Settled(part) ==
  part \in failed \cup misset \/ rule[part] = Wanted(part, row, tables)

\* When everything is quiet, Discord enforces what the moderators asked for, whatever they
\* changed while a sync ran: only a sync that failed, or that read a configuration which had
\* been cached after it was overwritten, leaves a rule behind.
RuleFollows ==
  exiting = "no" /\ ~timer /\ jobs[Worker] = Idle /\ requeues = 0 /\ ~Underway
    => \A part \in Parts : Settled(part)

\* When Flush returns without an error, what was queued before it is at Discord, unless it
\* had to wait for a sync that was already running.
FlushDelivers ==
  exiting = "done" /\ ~late /\ ~Underway => \A part \in Parts : Settled(part)
=============================================================================
