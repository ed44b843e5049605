---------------------------- MODULE EmbedBuilder ----------------------------
(***************************************************************************)
(* The embed builder: EmbedSessionStore and the handlers of its buttons    *)
(* and modals (listeners/embed_builder.go), and the commands that start a  *)
(* session, keep templates or edit a message at once                       *)
(* (commands/utility/embed.go).                                            *)
(*                                                                         *)
(* Every interaction and every command is a goroutine.  A modal is handled *)
(* from end to end under the session's mutex, a button is not.  An embed   *)
(* is the texts of its parts, with the number of its fields and buttons;   *)
(* the names of templates, of channels and the wording play no part.       *)
(***************************************************************************)
EXTENDS Naturals, FiniteSets

CONSTANTS
  Jobs,             \* goroutines
  Builders,         \* session ids, one per launch
  Parts,            \* the modals in use, of AllParts
  Texts,            \* what a part may say
  Start, TooLong,   \* of them: at first; beyond Discord's limits
  MaxFields,        \* of fields, and of buttons
  Idle, Nothing, Cancelled,
  MaxInteractions,  \* bound: goroutines that are started
  MaxErrors         \* bound: calls to Discord and to the database that fail

AllParts == {"title", "color", "af", "img"}
Lists == {"field", "btn"}

VARIABLES
  sessions,  \* the keys of GlobalEmbedSessions.sessions
  content,   \* session -> its embed and buttons
  targets,   \* sessions that edit the message
  mu,        \* session -> who holds its mutex
  modals,    \* opened and not yet submitted
  shown,     \* session -> what the builder's own message shows
  message,   \* the bot's message that editembed is about
  template,  \* embed_templates, one name
  jobs,
  interactions, errors,
  over,      \* ghost: sessions whose author was told that they are over
  stale      \* ghost: sessions whose last view failed, or was older than its delivery

store == <<sessions, content, targets, mu>>
discord == <<modals, shown, message>>
bounds == <<interactions, errors>>
ghosts == <<over, stale>>
vars == <<store, discord, template, jobs, bounds, ghosts>>

(***************************************************************************)
(* Embeds.                                                                 *)
(***************************************************************************)

Default == [text |-> [p \in Parts |-> Start], count |-> [l \in Lists |-> 0]]

\* What JSON may hold: its excesses, of fields too, are all TooLong.
LoadEmbedFromJSON ==
  {[text |-> [p \in Parts |-> t], count |-> [field |-> 0, btn |-> n]] :
     t \in Texts \ {Start}, n \in {0, 1}}

ValidateEmbedSize(embed) == \A p \in Parts : embed.text[p] # TooLong

TypeOK ==
  /\ sessions \subseteq Builders /\ targets \subseteq Builders /\ over \subseteq Builders
  /\ \A b \in Builders : mu[b] \in Jobs \cup {Idle}
  /\ interactions \in 0..MaxInteractions /\ errors \in 0..MaxErrors

Init ==
  /\ sessions = {} /\ content = [b \in Builders |-> Nothing] /\ targets = {}
  /\ mu = [b \in Builders |-> Idle]
  /\ modals = {} /\ shown = [b \in Builders |-> Nothing]
  /\ message = Default /\ template = Nothing
  /\ jobs = [j \in Jobs |-> Idle] /\ interactions = 0 /\ errors = 0
  /\ over = {} /\ stale = {}

\* The builder's own message shows the embed above the builder's components: the custom
\* buttons are nowhere in it.
Viewed(embed) == [embed EXCEPT !.count["btn"] = 0]

\* seen: what is shown or posted; late: it came after the author was told that the session
\* is over.
Blank == [step |-> "auth", builder |-> Nothing, kind |-> "", modal |-> FALSE,
          seen |-> Nothing, late |-> FALSE]

At(j, step) == jobs[j] # Idle /\ jobs[j].step = step
Goes(j, step) == jobs' = [jobs EXCEPT ![j].step = step]
Ends(j) == jobs' = [jobs EXCEPT ![j] = Idle]
Starts(j, job) ==
  /\ jobs[j] = Idle /\ interactions < MaxInteractions
  /\ interactions' = interactions + 1
  /\ jobs' = [jobs EXCEPT ![j] = job]
Fails == errors < MaxErrors /\ errors' = errors + 1
Frees(b) == mu[b] = Idle
Unlocked(j) == [b \in Builders |-> IF mu[b] = j THEN Idle ELSE mu[b]]

(***************************************************************************)
(* Commands.                                                               *)
(***************************************************************************)

\* launchEmbedSession: the session first, then its message.
Launch(j, b, embed, targeted) ==
  /\ content[b] = Nothing
  /\ Starts(j, [Blank EXCEPT !.step = "launch", !.builder = b])
  /\ content' = [content EXCEPT ![b] = embed]
  /\ sessions' = sessions \cup {b}
  /\ targets' = IF targeted THEN targets \cup {b} ELSE targets
  /\ UNCHANGED <<mu, discord, template, errors, ghosts>>

Launched(j) ==
  LET b == jobs[j].builder IN
  /\ At(j, "launch") /\ Ends(j)
  /\ \/ /\ ValidateEmbedSize(content[b]) /\ shown' = [shown EXCEPT ![b] = Viewed(content[b])]
        /\ UNCHANGED errors
     \/ Fails /\ UNCHANGED shown
     \/ ~ValidateEmbedSize(content[b]) /\ UNCHANGED <<shown, errors>>
  /\ UNCHANGED <<store, modals, message, template, interactions, ghosts>>

\* embed: with nothing, or with JSON; JSON that cannot be read is reported, and a default
\* embed launched all the same.
EmbedCmd(j, b) ==
  \E embed \in {Default} \cup LoadEmbedFromJSON : Launch(j, b, embed, FALSE)

\* embed template load, which does not look at the size.
TemplateLoad(j, b) == template # Nothing /\ Launch(j, b, template, FALSE)

\* editembed without JSON: a session about the message.
Editembed(j, b) == Launch(j, b, message, TRUE)

\* editembed with JSON or a template: the message at once.
EditembedJSON(j) ==
  \E embed \in LoadEmbedFromJSON \cup ({template} \ {Nothing}) :
    /\ ValidateEmbedSize(embed)
    /\ Starts(j, Idle)
    /\ \/ message' = embed /\ UNCHANGED errors
       \/ Fails /\ UNCHANGED message
    /\ UNCHANGED <<store, modals, shown, template, ghosts>>

\* embed template save: read and written out again, its size not looked at.
TemplateSave(j) ==
  \E embed \in LoadEmbedFromJSON :
    /\ Starts(j, Idle)
    /\ \/ template' = embed /\ UNCHANGED errors
       \/ Fails /\ UNCHANGED template
    /\ UNCHANGED <<store, discord, ghosts>>

\* embed template delete: whatever the template is by the time of the answer.
TemplateDelete(j) ==
  /\ Starts(j, [Blank EXCEPT !.step = "confirm"])
  /\ UNCHANGED <<store, discord, template, errors, ghosts>>
DeleteConfirmed(j) ==
  /\ At(j, "confirm") /\ Ends(j)
  /\ \/ template' = Nothing /\ UNCHANGED errors
     \/ Fails /\ UNCHANGED template
     \/ UNCHANGED <<template, errors>>
  /\ UNCHANGED <<store, discord, interactions, ghosts>>

(***************************************************************************)
(* Interactions.                                                           *)
(***************************************************************************)

Buttons == Parts \cup Lists \cup {"import", "send", "clrfield", "clrbtn", "cancel"}
Clears == [clrfield |-> "field", clrbtn |-> "btn"]

\* The author clicks a button of the builder's message, or of the copy a client still shows.
Click(j, b, kind) ==
  /\ shown[b] # Nothing
  /\ Starts(j, [Blank EXCEPT !.builder = b, !.kind = kind, !.late = b \in over])
  /\ UNCHANGED <<store, discord, template, errors, ghosts>>

Submit(j, m) ==
  /\ Starts(j, [Blank EXCEPT !.builder = m.builder, !.kind = m.kind, !.modal = TRUE,
                             !.late = m.builder \in over])
  /\ modals' = modals \ {m}
  /\ UNCHANGED <<store, shown, message, template, errors, ghosts>>

\* The session is looked up; the handler keeps its pointer whatever the store does.
Authenticate(j) ==
  LET b == jobs[j].builder
      kind == jobs[j].kind IN
  /\ At(j, "auth")
  /\ \/ /\ b \in sessions
        /\ Goes(j, IF jobs[j].modal THEN IF kind = "send" THEN "send" ELSE "apply"
                   ELSE CASE kind \in Parts -> "read"
                          [] kind \in DOMAIN Clears -> "clear"
                          [] kind = "cancel" -> "cancel"
                          [] OTHER -> "open")
        /\ UNCHANGED over
     \/ b \notin sessions /\ Ends(j) /\ over' = over \cup {b}
  /\ UNCHANGED <<store, discord, template, bounds, stale>>

\* prompt...Modal: a modal about a part is filled in with what the part is now, which the
\* author may change.
ReadPart(j) ==
  /\ At(j, "read") /\ Frees(jobs[j].builder) /\ Goes(j, "open")
  /\ UNCHANGED <<store, discord, template, bounds, ghosts>>

OpenModal(j) ==
  LET job == jobs[j] IN
  /\ At(j, "open") /\ Ends(j)
  /\ \/ /\ modals' = modals \cup {[builder |-> job.builder, kind |-> job.kind]}
        /\ UNCHANGED errors
     \/ Fails /\ UNCHANGED modals
  /\ UNCHANGED <<store, shown, message, template, interactions, ghosts>>

\* clearEmbedFields, clearEmbedButtons: the mutex is given back before the answer.
Clear(j) ==
  LET b == jobs[j].builder IN
  /\ At(j, "clear") /\ Frees(b) /\ Goes(j, "view")
  /\ content' = [content EXCEPT ![b].count[Clears[jobs[j].kind]] = 0]
  /\ UNCHANGED <<sessions, targets, mu, discord, template, bounds, ghosts>>

\* Their answer reads the embed without it.
View(j) ==
  /\ At(j, "view")
  /\ jobs' = [jobs EXCEPT ![j].step = "answer", ![j].seen = Viewed(content[jobs[j].builder])]
  /\ UNCHANGED <<store, discord, template, bounds, ghosts>>

Cancel(j) ==
  /\ At(j, "cancel")
  /\ jobs' = [jobs EXCEPT ![j].step = "answer", ![j].seen = Cancelled]
  /\ sessions' = sessions \ {jobs[j].builder}
  /\ UNCHANGED <<content, targets, mu, discord, template, bounds, ghosts>>

\* applyTitleModal and its like, applyFieldModal, applyButtonModal, applyImportModal: the
\* embeds a modal may make of one.
Applied(embed, job) ==
  CASE job.kind \in Parts -> {[embed EXCEPT !.text[job.kind] = t] : t \in Texts}
    [] job.kind \in Lists ->
         IF embed.count[job.kind] >= MaxFields THEN {}
         ELSE {[embed EXCEPT !.count[job.kind] = @ + 1]}
    [] OTHER ->
         {IF new.count["btn"] > 0 THEN new
          ELSE [new EXCEPT !.count["btn"] = embed.count["btn"]] :
            new \in LoadEmbedFromJSON}

\* Mutant: the mutex is given back before the answer.
ApplyBriefly(j) ==
  LET b == jobs[j].builder IN
  /\ At(j, "apply") /\ Frees(b)
  /\ \E embed \in Applied(content[b], jobs[j]) :
       /\ content' = [content EXCEPT ![b] = embed]
       /\ jobs' = [jobs EXCEPT ![j].step = "answer", ![j].seen = Viewed(embed)]
  /\ UNCHANGED <<mu, sessions, targets, discord, template, bounds, ghosts>>

\* The mutex is held through the answer.
Apply(j) ==
  LET b == jobs[j].builder IN
  /\ At(j, "apply") /\ Frees(b)
  /\ \E embed \in Applied(content[b], jobs[j]) :
       /\ content' = [content EXCEPT ![b] = embed]
       /\ jobs' = [jobs EXCEPT ![j].step = "answer", ![j].seen = Viewed(embed)]
  /\ mu' = [mu EXCEPT ![b] = j]
  /\ UNCHANGED <<sessions, targets, discord, template, bounds, ghosts>>

\* A full list, or JSON that cannot be read.
Refuse(j) ==
  LET job == jobs[j] IN
  /\ At(j, "apply") /\ Frees(job.builder) /\ Ends(j)
  /\ \/ job.kind = "import"
     \/ job.kind \in Lists /\ content[job.builder].count[job.kind] >= MaxFields
  /\ UNCHANGED <<store, discord, template, bounds, ghosts>>

\* The answer replaces the builder's message.
Answer(j) ==
  LET b == jobs[j].builder
      seen == jobs[j].seen IN
  /\ At(j, "answer") /\ Ends(j) /\ mu' = Unlocked(j)
  /\ \/ /\ seen # Cancelled => ValidateEmbedSize(seen)
        /\ shown' = [shown EXCEPT ![b] = seen]
        /\ over' = IF seen = Cancelled THEN over \cup {b} ELSE over
        /\ stale' = IF mu[b] # j /\ seen # Cancelled /\ seen # Viewed(content[b]) /\ ~jobs[j].modal
                    THEN stale \cup {b} ELSE stale \ {b}
        /\ UNCHANGED errors
     \/ /\ \/ Fails
           \/ seen # Cancelled /\ ~ValidateEmbedSize(seen) /\ UNCHANGED errors
        /\ stale' = stale \cup {b}
        /\ UNCHANGED <<shown, over>>
  /\ UNCHANGED <<sessions, content, targets, modals, message, template, interactions>>

\* applySendModal: the author's permissions, and the size.
Send(j) ==
  LET b == jobs[j].builder IN
  /\ At(j, "send") /\ Frees(b)
  /\ \/ /\ ValidateEmbedSize(content[b]) /\ mu' = [mu EXCEPT ![b] = j]
        /\ jobs' = [jobs EXCEPT ![j].step = "post", ![j].seen = content[b]]
     \/ Ends(j) /\ UNCHANGED mu
  /\ UNCHANGED <<sessions, content, targets, discord, template, bounds, ghosts>>

\* The message is edited, or a new one sent.
Post(j) ==
  LET b == jobs[j].builder
      seen == jobs[j].seen IN
  /\ At(j, "post")
  /\ \/ /\ ValidateEmbedSize(seen) /\ Goes(j, "forget")
        /\ message' = IF b \in targets THEN seen ELSE message
        /\ UNCHANGED <<mu, errors>>
     \/ /\ Fails \/ (~ValidateEmbedSize(seen) /\ UNCHANGED errors)
        /\ Ends(j) /\ mu' = Unlocked(j) /\ UNCHANGED message
  /\ UNCHANGED <<sessions, content, targets, modals, shown, template, interactions, ghosts>>

\* Mutant: it is left to the cleanup.
LeftToSweep(j) ==
  /\ At(j, "forget") /\ Goes(j, "tell")
  /\ UNCHANGED <<sessions, content, targets, mu, discord, template, bounds, ghosts>>

\* The session is deleted before the author is told.
Forget(j) ==
  /\ At(j, "forget") /\ Goes(j, "tell")
  /\ sessions' = sessions \ {jobs[j].builder}
  /\ UNCHANGED <<content, targets, mu, discord, template, bounds, ghosts>>

Tell(j) ==
  /\ At(j, "tell") /\ Ends(j) /\ mu' = Unlocked(j)
  /\ \/ over' = over \cup {jobs[j].builder} /\ UNCHANGED errors
     \/ Fails /\ UNCHANGED over
  /\ UNCHANGED <<sessions, content, targets, discord, template, interactions, stale>>

\* StartCleanupRoutine: half an hour after the launch, in use or not.
Sweep(b) ==
  /\ b \in sessions /\ shown[b] # Nothing
  /\ sessions' = sessions \ {b}
  /\ UNCHANGED <<content, targets, mu, discord, template, jobs, bounds, ghosts>>

Commands(j) ==
  \/ \E b \in Builders : EmbedCmd(j, b) \/ TemplateLoad(j, b) \/ Editembed(j, b)
  \/ EditembedJSON(j) \/ TemplateSave(j) \/ TemplateDelete(j)
  \/ Launched(j) \/ DeleteConfirmed(j)

Buttoned(j) ==
  \/ \E b \in Builders, kind \in Buttons : Click(j, b, kind)
  \/ Authenticate(j) \/ ReadPart(j) \/ OpenModal(j)
  \/ Clear(j) \/ View(j) \/ Cancel(j) \/ Answer(j)

Modal(j) ==
  \/ \E m \in modals : Submit(j, m)
  \/ Apply(j) \/ Refuse(j) \/ Send(j) \/ Post(j) \/ Forget(j) \/ Tell(j)

Next ==
  \/ \E j \in Jobs : Commands(j) \/ Buttoned(j) \/ Modal(j)
  \/ \E b \in Builders : Sweep(b)

Spec == Init /\ [][Next]_vars

(***************************************************************************)
(* Properties.                                                             *)
(***************************************************************************)

\* Whatever the author clicks or submits after being told that the builder is finished,
\* cancelled or expired is refused: it is not in time to send or to change anything,
\* although the handlers keep the session by its pointer and never look it up again.
OverIsOver == \A j \in Jobs : jobs[j] # Idle /\ jobs[j].late => jobs[j].step = "auth"

\* While nobody is working on a session, its message shows the embed that would be sent, but for
\* the custom buttons, however the answers to its modals and buttons were ordered: unless the
\* last answer failed, or was a Clear's, which is given after the mutex.
ShownIsCurrent ==
  \A b \in Builders \ stale :
    shown[b] \notin {Nothing, Cancelled} /\ (\A j \in Jobs : jobs[j] # Idle => jobs[j].builder # b)
      => shown[b] = Viewed(content[b])
=============================================================================
