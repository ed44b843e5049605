------------------------------ MODULE Pagination ------------------------------
(***************************************************************************)
(* A message with several pages (bot/messaging.go, listeners/              *)
(* pagination.go): buttons turn its pages while a session of it is in the  *)
(* store, each use renews a timer, and when the timer runs out the session *)
(* and the buttons go.                                                     *)
(*                                                                         *)
(* There is one message; sessions of others share nothing with it but the  *)
(* store.  Handlers run concurrently, a handler holds no lock while it     *)
(* talks to Discord, and the callback of a timer that has fired cannot be  *)
(* stopped.  Presses by others than the author and the modal that asks for *)
(* a page change nothing.                                                  *)
(***************************************************************************)
EXTENDS Naturals

CONSTANTS
  Jobs,         \* bound: handlers and callbacks at a time
  Off,          \* no timer
  Pages,        \* len(Embeds)
  MaxPresses,   \* bound: presses of buttons
  MaxErrors,    \* bound: calls that fail
  SweepAfter    \* how often a session is renewed at least before it is 15 minutes old

VARIABLES
  opener,       \* SendPaginatedEmbeds: where it is
  message,      \* in Discord: the page shown, 0 when there is no message; its buttons
  stored,       \* the session is in the store
  page,         \* PaginationSession.CurrentPage, from 1
  gen,          \* PaginationSession.gen
  timer,        \* the generation whose timer runs, or Off
  jobs,
  running,      \* PaginationStore.running: the clean-up routine
  presses, errors,
  forsaken      \* ghost: the sweep dropped the session, or a call that was to end it failed

vars == <<opener, message, stored, page, gen, timer, jobs, running, presses, errors, forsaken>>
bounds == <<presses, errors>>

AtRest == [pc |-> "idle", page |-> 0, gen |-> 0]
Kinds == {"next", "previous", "jump", "close"}
PCs == {"idle", "respond", "reset", "delete message", "expire", "forget", "strip"} \cup Kinds

TypeOK ==
  /\ opener \in {"start", "sent", "done"}
  /\ message \in [page : 0..Pages, buttons : BOOLEAN]
  /\ stored \in BOOLEAN /\ page \in 1..Pages /\ gen \in 0..MaxPresses /\ timer \in 0..MaxPresses \cup {Off}
  /\ jobs \in [Jobs -> [pc : PCs, page : 0..Pages, gen : 0..MaxPresses]]
  /\ running \in BOOLEAN
  /\ presses \in 0..MaxPresses /\ errors \in 0..MaxErrors /\ forsaken \in BOOLEAN

Init ==
  /\ opener = "start" /\ message = [page |-> 0, buttons |-> FALSE]
  /\ stored = FALSE /\ page = 1 /\ gen = 0 /\ timer = Off
  /\ jobs = [j \in Jobs |-> AtRest] /\ running = FALSE
  /\ presses = 0 /\ errors = 0 /\ forsaken = FALSE

Fails == errors < MaxErrors /\ errors' = errors + 1
At(j, pc) == jobs[j].pc = pc
To(j, pc) == jobs' = [jobs EXCEPT ![j].pc = pc]
End(j) == jobs' = [jobs EXCEPT ![j] = AtRest]
Free(j) == At(j, "idle")

(***************************************************************************)
(* SendPaginatedEmbeds.                                                    *)
(***************************************************************************)

\* The buttons are there before the session is: who presses one is told it has expired.
Send ==
  /\ opener = "start"
  /\ \/ message' = [page |-> 1, buttons |-> TRUE] /\ opener' = "sent" /\ UNCHANGED errors
     \/ Fails /\ opener' = "done" /\ UNCHANGED message
  /\ UNCHANGED <<stored, page, gen, timer, jobs, running, presses, forsaken>>

Set ==
  /\ opener = "sent" /\ opener' = "done"
  /\ stored' = TRUE /\ timer' = gen
  /\ UNCHANGED <<message, page, gen, jobs, running, bounds, forsaken>>

(***************************************************************************)
(* The handlers of the buttons and of the modal.                           *)
(***************************************************************************)

\* validatePaginationInteraction: the session is looked up once.
Press(j, kind) ==
  /\ message.buttons /\ stored /\ Free(j)
  /\ presses < MaxPresses /\ presses' = presses + 1
  /\ To(j, kind)
  /\ UNCHANGED <<opener, message, stored, page, gen, timer, running, errors, forsaken>>

Turned(kind) ==
  CASE kind = "next" -> {IF page < Pages THEN page + 1 ELSE 1}
    [] kind = "previous" -> {IF page > 1 THEN page - 1 ELSE Pages}
    [] OTHER -> 1..Pages

\* Under the mutex of the session, be it stored or not by now.
Turn(j, kind) ==
  /\ At(j, kind) /\ kind # "close"
  /\ \E p \in Turned(kind) :
       page' = p /\ jobs' = [jobs EXCEPT ![j].pc = "respond", ![j].page = p]
  /\ UNCHANGED <<opener, message, stored, gen, timer, running, bounds, forsaken>>

\* A modal with a number that is none, or out of range, ends there.
JumpNowhere(j) ==
  /\ At(j, "jump") /\ End(j)
  /\ UNCHANGED <<opener, message, stored, page, gen, timer, running, bounds, forsaken>>

\* The response shows the page, with its buttons; a failure is only logged.
Respond(j) ==
  /\ At(j, "respond") /\ To(j, "reset")
  /\ \/ message.page # 0 /\ message' = [page |-> jobs[j].page, buttons |-> TRUE] /\ UNCHANGED errors
     \/ UNCHANGED message /\ ((message.page = 0 /\ UNCHANGED errors) \/ Fails)
  /\ UNCHANGED <<opener, stored, page, gen, timer, running, presses, forsaken>>

\* Mutant: a session that is over is not renewed.
ResetIfStored(j) ==
  /\ At(j, "reset") /\ End(j)
  /\ IF stored THEN gen' = gen + 1 /\ timer' = gen + 1 ELSE UNCHANGED <<gen, timer>>
  /\ UNCHANGED <<opener, message, stored, page, running, bounds, forsaken>>

\* resetSessionTimer.
Reset(j) ==
  /\ At(j, "reset") /\ End(j)
  /\ gen' = gen + 1 /\ timer' = gen + 1
  /\ UNCHANGED <<opener, message, stored, page, running, bounds, forsaken>>

\* PaginationStore.Delete stops the timer of a session it finds.
Delete == stored' = FALSE /\ timer' = IF stored THEN Off ELSE timer

Close(j) ==
  /\ At(j, "close") /\ Delete
  /\ To(j, "delete message")
  /\ UNCHANGED <<opener, message, page, gen, running, bounds, forsaken>>

DeleteMessage(j) ==
  /\ At(j, "delete message") /\ End(j)
  /\ \/ message' = [page |-> 0, buttons |-> FALSE] /\ UNCHANGED <<errors, forsaken>>
     \/ Fails /\ forsaken' = TRUE /\ UNCHANGED message
  /\ UNCHANGED <<opener, stored, page, gen, timer, running, presses>>

(***************************************************************************)
(* The timer.                                                              *)
(***************************************************************************)

Fire(j) ==
  /\ timer # Off /\ Free(j)
  /\ timer' = Off
  /\ jobs' = [jobs EXCEPT ![j] = [AtRest EXCEPT !.pc = "expire", !.gen = timer]]
  /\ UNCHANGED <<opener, message, stored, page, gen, running, bounds, forsaken>>

\* The callback of a renewed session does nothing if it was renewed again meanwhile; the
\* first one, of SendPaginatedEmbeds, does not ask.
Expire(j) ==
  /\ At(j, "expire")
  /\ IF jobs[j].gen \in {0, gen} THEN To(j, "forget") ELSE End(j)
  /\ UNCHANGED <<opener, message, stored, page, gen, timer, running, bounds, forsaken>>

\* The session's mutex was released: it may have been renewed by now.
Forget(j) ==
  /\ At(j, "forget") /\ Delete
  /\ To(j, "strip")
  /\ UNCHANGED <<opener, message, page, gen, running, bounds, forsaken>>

\* The buttons are taken off.
Strip(j) ==
  /\ At(j, "strip") /\ End(j)
  /\ \/ message' = [message EXCEPT !.buttons = FALSE] /\ UNCHANGED <<errors, forsaken>>
     \/ Fails /\ forsaken' = TRUE /\ UNCHANGED message
  /\ UNCHANGED <<opener, stored, page, gen, timer, running, presses>>

(***************************************************************************)
(* The clean-up routine.                                                   *)
(***************************************************************************)

StartCleanup ==
  /\ ~running /\ running' = TRUE
  /\ UNCHANGED <<opener, message, stored, page, gen, timer, jobs, bounds, forsaken>>

StopCleanup ==
  /\ running /\ running' = FALSE
  /\ UNCHANGED <<opener, message, stored, page, gen, timer, jobs, bounds, forsaken>>

\* A session older than 15 minutes goes, in use or not, and leaves its buttons: its
\* timer is stopped.
Sweep ==
  /\ running /\ stored /\ gen >= SweepAfter
  /\ Delete /\ forsaken' = TRUE
  /\ UNCHANGED <<opener, message, page, gen, jobs, running, bounds>>

(***************************************************************************)
(* The specification.                                                      *)
(***************************************************************************)

JobStep(j) ==
  \/ \E kind \in Kinds : Press(j, kind) \/ Turn(j, kind)
  \/ JumpNowhere(j) \/ Respond(j) \/ Reset(j) \/ Close(j) \/ DeleteMessage(j)
  \/ Fire(j) \/ Expire(j) \/ Forget(j) \/ Strip(j)

Next == Send \/ Set \/ (\E j \in Jobs : JobStep(j)) \/ StartCleanup \/ StopCleanup \/ Sweep

Spec == Init /\ [][Next]_vars

(***************************************************************************)
(* Properties.                                                             *)
(***************************************************************************)

\* Somebody will end the session: a timer, its callback, or a handler that renews it.
Ending ==
  \/ opener = "sent" \/ timer # Off
  \/ \E j \in Jobs : \/ jobs[j].pc \in {"reset", "forget"}
                     \/ At(j, "expire") /\ jobs[j].gen \in {0, gen}

\* However presses, renewals, expiries and closing overlap, buttons never stay on a
\* message without a session, and a session never stays without a timer: whatever is
\* still there, somebody will take it off (pagination.go:132-164).
ButtonsExpire ==
  \/ forsaken \/ Ending
  \/ /\ ~stored
     /\ message.buttons => \E j \in Jobs : At(j, "strip") \/ At(j, "delete message")
=============================================================================
