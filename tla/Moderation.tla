---------------------------- MODULE Moderation -----------------------------
(***************************************************************************)
(* The moderation commands of one guild (commands/moderation): what        *)
(* executePunishment does between Discord, the member who is told and the  *)
(* moderation_cases table, the commands that change the table, and the     *)
(* confirmation that clearing it asks for (bot.PromptConfirmation).        *)
(*                                                                         *)
(* Every command runs in a goroutine of its own, so commands interleave    *)
(* at each call to Discord and to the database.  The role commands change  *)
(* roles through the role manager, which is a module of its own            *)
(* (RoleManager): here the mark a role stands for is given or taken.       *)
(* Arguments, wording and the modlog channel play no part.                 *)
(***************************************************************************)
EXTENDS Naturals, FiniteSets

CONSTANTS
  People, Mods,
  Owner, BotOwners,  \* of the guild, of the bot
  Rank,              \* person -> position of the highest role
  BotRank,
  Idle, Nobody,
  MaxCommands,       \* bound: commands that are started
  MaxErrors          \* bound: calls that fail

VARIABLES
  members, banned, inVoice,
  marks,       \* the <<person, mark>> in force
  cases,       \* moderation_cases
  lastCase,    \* its AUTOINCREMENT
  notices,     \* direct messages that announce a punishment
  jobs,        \* moderator -> the command it runs
  prompt,      \* moderator -> activePrompts, and the answer in the channel
  commands, errors,
  applied,     \* ghost: commands Discord carried out
  unsaved,     \* ghost: commands whose case was not saved, or was deleted
  undeleted    \* ghost: commands whose notice could not be taken back

guild == <<members, banned, inVoice, marks>>
table == <<cases, lastCase>>
ghosts == <<applied, unsaved, undeleted>>
vars == <<guild, table, notices, jobs, prompt, commands, errors, ghosts>>

(***************************************************************************)
(* The commands.                                                           *)
(***************************************************************************)

\* first: the member is told before the action, which is too late afterwards.
Told(action) == [action |-> action, mark |-> "", on |-> FALSE, first |-> TRUE]
Plain(action) == [action |-> action, mark |-> "", on |-> FALSE, first |-> FALSE]
Gives(mark) == [action |-> "mark", mark |-> mark, on |-> TRUE, first |-> FALSE]
Takes(mark) == [action |-> "mark", mark |-> mark, on |-> FALSE, first |-> FALSE]

Warn == Plain("warn")
Ban == Told("ban")
Unban == Plain("unban")
Kick == Told("kick")
VCKick == Plain("vckick")
Timeout == Gives("timeout")
Untimeout == Takes("timeout")
VCMute == Gives("vcmute")
VCDeafen == Gives("vcdeafen")
Mute == Gives("mute")
Unmute == Takes("mute")
Imute == Gives("imute")
Iunmute == Takes("imute")
Rmute == Gives("rmute")
Runmute == Takes("rmute")

Punishments ==
  {Warn, Ban, Unban, Kick, VCKick, Timeout, Untimeout, VCMute, VCDeafen,
   Mute, Unmute, Imute, Iunmute, Rmute, Runmute}

InVoiceOnly == {"vcmute", "vcdeafen"}

Marks == {p.mark : p \in Punishments}

(***************************************************************************)
(* State.                                                                  *)
(***************************************************************************)

Steps == {"notify", "act", "record", "tell", "edit", "ask", "clear"}
Answers == {"none", "open", "yes", "no"}
Numbers == 1..MaxCommands

TypeOK ==
  /\ members \subseteq People /\ banned \subseteq People /\ inVoice \subseteq members
  /\ marks \subseteq People \X Marks
  /\ cases \subseteq [id : Numbers, command : Numbers, person : People,
                      action : Punishments, reason : {"given", "edited"}]
  /\ lastCase \in 0..MaxCommands
  /\ notices \subseteq Numbers
  /\ \A m \in Mods : jobs[m] = Idle \/ jobs[m].step \in Steps
  /\ prompt \in [Mods -> [answer : Answers, by : People \cup {Nobody}]]
  /\ commands \in 0..MaxCommands /\ errors \in 0..MaxErrors
  /\ applied \subseteq Numbers /\ unsaved \subseteq Numbers /\ undeleted \subseteq Numbers

Silent == [answer |-> "none", by |-> Nobody]

Init ==
  /\ members \in {People} \cup {People \ {p} : p \in People \ (Mods \cup {Owner})}
  /\ banned = {} /\ inVoice = {} /\ marks = {}
  /\ cases = {} /\ lastCase = 0 /\ notices = {}
  /\ jobs = [m \in Mods |-> Idle] /\ prompt = [m \in Mods |-> Silent]
  /\ commands = 0 /\ errors = 0
  /\ applied = {} /\ unsaved = {} /\ undeleted = {}

Fails == errors < MaxErrors /\ errors' = errors + 1

At(m, step) == jobs[m] # Idle /\ jobs[m].step = step
To(m, step) == jobs' = [jobs EXCEPT ![m].step = step]
End(m) == jobs' = [jobs EXCEPT ![m] = Idle]

Free(m) == jobs[m] = Idle /\ commands < MaxCommands

Begin(m, step, p, how, id) ==
  /\ Free(m) /\ commands' = commands + 1
  /\ jobs' = [jobs EXCEPT ![m] = [step |-> step, number |-> commands + 1,
                                  person |-> p, how |-> how, id |-> id]]

(***************************************************************************)
(* Who may act on whom.                                                    *)
(***************************************************************************)

\* Authorizer.Evaluate for a member: neither the owner nor oneself, and both the
\* moderator, unless an owner, and the bot must stand above the member.
Evaluate(m, p) ==
  /\ p # Owner /\ p # m
  /\ m \in BotOwners \cup {Owner} \/ Rank[m] > Rank[p]
  /\ BotRank > Rank[p]

\* checkTargetAuthority: whoever is not a member is not compared.
Authorized(m, p) == p \in members => Evaluate(m, p)

(***************************************************************************)
(* executePunishment.                                                      *)
(***************************************************************************)

\* Guards of the commands before it: mute wants a member, vckick a voice channel.
Ready(c, p) ==
  /\ c = Mute => p \in members
  /\ c = VCKick => p \in inVoice

Punish(m, p, c) ==
  /\ Ready(c, p) /\ Authorized(m, p)
  /\ Begin(m, IF c.first THEN "notify" ELSE IF c = Warn THEN "record" ELSE "act", p, c, 0)
  /\ applied' = IF c = Warn THEN applied \cup {commands + 1} ELSE applied
  /\ UNCHANGED <<guild, table, notices, prompt, errors, unsaved, undeleted>>

\* sendPunishmentDM: a closed inbox is not an error that stops anything.
SendNotice(m) ==
  \/ notices' = notices \cup {jobs[m].number}
  \/ UNCHANGED notices

NotifyFirst(m) ==
  /\ At(m, "notify") /\ SendNotice(m) /\ To(m, "act")
  /\ UNCHANGED <<guild, table, prompt, commands, errors, ghosts>>

\* What Discord does, or UNCHANGED guild when it refuses.
Accepts(c, p) ==
  CASE c.action = "ban" -> TRUE
    [] c.action = "unban" -> p \in banned
    [] c.action = "vckick" -> p \in inVoice
    [] c.action = "mark" /\ c.on /\ c.mark \in InVoiceOnly -> p \in inVoice
    [] OTHER -> p \in members

Effect(c, p) ==
  /\ members' = IF c.action \in {"ban", "kick"} THEN members \ {p} ELSE members
  /\ banned' = CASE c.action = "ban" -> banned \cup {p}
                 [] c.action = "unban" -> banned \ {p}
                 [] OTHER -> banned
  /\ inVoice' = IF c.action \in {"ban", "kick", "vckick"} THEN inVoice \ {p} ELSE inVoice
  /\ marks' = CASE c.action # "mark" -> marks
                [] c.action = "mark" /\ c.on -> marks \cup {<<p, c.mark>>}
                [] OTHER -> marks \ {<<p, c.mark>>}

Act(m) ==
  LET c == jobs[m].how
      p == jobs[m].person IN
  /\ At(m, "act") /\ Accepts(c, p) /\ Effect(c, p)
  /\ applied' = applied \cup {jobs[m].number}
  /\ To(m, "record")
  /\ UNCHANGED <<table, notices, prompt, commands, errors, unsaved, undeleted>>

\* Mutant: what the member was told stays when the action fails.
RefusedInSilence(m) ==
  /\ At(m, "act")
  /\ \/ ~Accepts(jobs[m].how, jobs[m].person) /\ UNCHANGED errors
     \/ Fails
  /\ End(m)
  /\ UNCHANGED <<guild, table, notices, prompt, commands, ghosts>>

\* Mutant: the case is written although the action failed.
RefusedButRecorded(m) ==
  /\ At(m, "act")
  /\ \/ ~Accepts(jobs[m].how, jobs[m].person) /\ UNCHANGED errors
     \/ Fails
  /\ notices' = notices \ {jobs[m].number}
  /\ To(m, "record")
  /\ UNCHANGED <<guild, table, prompt, commands, ghosts>>

\* The action failed: a notice that was sent is deleted, and there is no case.
Refused(m) ==
  LET n == jobs[m].number IN
  /\ At(m, "act")
  /\ ~Accepts(jobs[m].how, jobs[m].person) \/ errors < MaxErrors
  /\ \E undone \in BOOLEAN :
       /\ notices' = IF undone THEN notices \ {n} ELSE notices
       /\ undeleted' = IF undone THEN undeleted ELSE undeleted \cup (notices \cap {n})
       /\ LET needed == (IF Accepts(jobs[m].how, jobs[m].person) THEN 1 ELSE 0)
                        + (IF ~undone THEN 1 ELSE 0) IN
          errors + needed <= MaxErrors /\ errors' = errors + needed
  /\ End(m)
  /\ UNCHANGED <<guild, table, prompt, commands, applied, unsaved>>

\* CreateModCase; a failure is logged and the command goes on.
Record(m) ==
  /\ At(m, "record")
  /\ \/ /\ lastCase' = lastCase + 1
        /\ cases' = cases \cup {[id |-> lastCase + 1, command |-> jobs[m].number,
                                 person |-> jobs[m].person, action |-> jobs[m].how,
                                 reason |-> "given"]}
        /\ UNCHANGED <<errors, unsaved>>
     \/ Fails /\ unsaved' = unsaved \cup {jobs[m].number} /\ UNCHANGED table
  /\ IF jobs[m].how.first THEN End(m) ELSE To(m, "tell")
  /\ UNCHANGED <<guild, notices, prompt, commands, applied, undeleted>>

Tell(m) ==
  /\ At(m, "tell") /\ SendNotice(m) /\ End(m)
  /\ UNCHANGED <<guild, table, prompt, commands, errors, ghosts>>

\* vcunmute and vcundeafen: neither a case nor a message.
UnmarkInVoice(m, p, mark) ==
  /\ jobs[m] = Idle /\ Authorized(m, p) /\ p \in inVoice /\ <<p, mark>> \in marks
  /\ marks' = marks \ {<<p, mark>>}
  /\ UNCHANGED <<members, banned, inVoice, table, notices, jobs, prompt, commands, errors, ghosts>>

VCUnmute(m, p) == UnmarkInVoice(m, p, "vcmute")
VCUndeafen(m, p) == UnmarkInVoice(m, p, "vcdeafen")

(***************************************************************************)
(* The table: case delete, reason, cases clear.                            *)
(***************************************************************************)

Numbered(id) == {c \in cases : c.id = id}
CommandsOf(rows) == {c.command : c \in rows}

DeleteCase(m, id) ==
  /\ jobs[m] = Idle /\ commands < MaxCommands /\ commands' = commands + 1
  /\ Numbered(id) # {}
  /\ cases' = cases \ Numbered(id)
  /\ unsaved' = unsaved \cup CommandsOf(Numbered(id))
  /\ UNCHANGED <<guild, lastCase, notices, jobs, prompt, errors, applied, undeleted>>

\* The case is looked up, and updated with a statement of its own.
Reason(m, id) ==
  /\ Numbered(id) # {}
  /\ Begin(m, "edit", Nobody, Warn, id)
  /\ UNCHANGED <<guild, table, notices, prompt, errors, ghosts>>

UpdateModCaseReason(m) ==
  LET id == jobs[m].id IN
  /\ At(m, "edit")
  /\ cases' = {IF c.id = id THEN [c EXCEPT !.reason = "edited"] ELSE c : c \in cases}
  /\ End(m)
  /\ UNCHANGED <<guild, lastCase, notices, prompt, commands, errors, ghosts>>

\* cases clear: the waiter is registered before the message with its buttons is sent.
AskToClear(m) ==
  /\ Begin(m, "ask", Nobody, Warn, 0)
  /\ prompt' = [prompt EXCEPT ![m] = [answer |-> "open", by |-> Nobody]]
  /\ UNCHANGED <<guild, table, notices, errors, ghosts>>

\* HandleConfirmationInteraction: only the author's press counts, and the channel
\* has room for the first.
Press(m, p, answer) ==
  /\ prompt[m].answer = "open" /\ p = m
  /\ prompt' = [prompt EXCEPT ![m] = [answer |-> answer, by |-> p]]
  /\ UNCHANGED <<guild, table, notices, jobs, commands, errors, ghosts>>

\* The select of PromptConfirmation takes the answer...
TakeAnswer(m) ==
  /\ At(m, "ask") /\ prompt[m].answer \in {"yes", "no"}
  /\ jobs' = [jobs EXCEPT ![m] = IF prompt[m].answer = "no" THEN Idle
                                 ELSE [@ EXCEPT !.step = "clear", !.person = prompt[m].by]]
  /\ prompt' = [prompt EXCEPT ![m] = Silent]
  /\ UNCHANGED <<guild, table, notices, commands, errors, ghosts>>

\* ...or the timer, even when both are ready.
PromptExpires(m) ==
  /\ At(m, "ask") /\ End(m)
  /\ prompt' = [prompt EXCEPT ![m] = Silent]
  /\ UNCHANGED <<guild, table, notices, commands, errors, ghosts>>

DeleteAllModCases(m) ==
  /\ At(m, "clear") /\ End(m)
  /\ \/ cases' = {} /\ unsaved' = unsaved \cup CommandsOf(cases) /\ UNCHANGED errors
     \/ Fails /\ UNCHANGED <<cases, unsaved>>
  /\ UNCHANGED <<guild, lastCase, notices, prompt, commands, applied, undeleted>>

(***************************************************************************)
(* People come and go.                                                     *)
(***************************************************************************)

MoveAbout(p) ==
  /\ p # Owner /\ p \notin Mods
  /\ \/ /\ p \in members \ inVoice
        /\ members' = members \ {p} /\ UNCHANGED inVoice
     \/ /\ p \notin members \cup banned
        /\ members' = members \cup {p} /\ UNCHANGED inVoice
     \/ /\ p \in members
        /\ inVoice' = IF p \in inVoice THEN inVoice \ {p} ELSE inVoice \cup {p}
        /\ UNCHANGED members
  /\ UNCHANGED <<banned, marks, table, notices, jobs, prompt, commands, errors, ghosts>>

Next ==
  \/ \E m \in Mods :
       \/ \E p \in People :
            \/ Free(m) /\ \E c \in Punishments : Punish(m, p, c)
            \/ VCUnmute(m, p) \/ VCUndeafen(m, p)
            \/ \E answer \in {"yes", "no"} : Press(m, p, answer)
       \/ NotifyFirst(m) \/ Act(m) \/ Refused(m) \/ Record(m) \/ Tell(m)
       \/ \E id \in Numbers : DeleteCase(m, id) \/ Reason(m, id)
       \/ UpdateModCaseReason(m)
       \/ AskToClear(m) \/ TakeAnswer(m) \/ PromptExpires(m) \/ DeleteAllModCases(m)
  \/ \E p \in People : MoveAbout(p)

Spec == Init /\ [][Next]_vars

(***************************************************************************)
(* Properties.                                                             *)
(***************************************************************************)

\* The moderation record is true, whatever fails and whoever works at the same time: a
\* case stands for one punishment that was carried out, and a punishment that was
\* carried out has its case unless the row could not be written or was deleted.
CasesAreTrue ==
  /\ CommandsOf(cases) \subseteq applied
  /\ \A c, d \in cases : c.command = d.command => c = d
  /\ \A n \in applied \ unsaved :
       n \in CommandsOf(cases) \/ \E m \in Mods : At(m, "record") /\ jobs[m].number = n

\* Nobody keeps a message about a punishment that did not happen, unless it could not be
\* taken back.
NoticesAreTrue ==
  \A n \in notices :
    n \in applied \cup undeleted \/ \E m \in Mods : At(m, "act") /\ jobs[m].number = n

\* Both, at every step of every command.
ModerationIsTrue == CasesAreTrue /\ NoticesAreTrue
=============================================================================
