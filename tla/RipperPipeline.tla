---------------------------- MODULE RipperPipeline ----------------------------
(***************************************************************************)
(* The queue of media downloads (internal/ripper/pipeline.go, slots.go):   *)
(* requests take a slot of their user and a place in a bounded queue, one  *)
(* dispatcher hands them to a bounded number of workers, each worker       *)
(* downloads into a scratch directory and hands the files to the callback  *)
(* of the request, and Stop cancels what runs and empties the queue.       *)
(*                                                                         *)
(* One goroutine (main) starts and stops the pipeline; it may start it     *)
(* again.  Requests come and lose their context at any time.  A callback   *)
(* is always given, and a user always has an ID, as in RipCmd.Execute.     *)
(* Start on a running or a stopping pipeline and Stop on one that does not *)
(* run return at once: they are no steps.                                  *)
(***************************************************************************)
EXTENDS Naturals, Sequences, FiniteSets

CONSTANTS
  Tasks,          \* requests to download
  Users,
  Requester,      \* the user of each request
  NoTask,
  MaxUserSlots, MaxConcurrentDownloads, QueueCapacity,    \* Options
  MaxStarts,      \* bound: calls of Start
  Impatient       \* bound: requests whose context may end

ASSUME PipelineAssumption ==
  /\ IsFiniteSet(Tasks) /\ NoTask \notin Tasks
  /\ Requester \in [Tasks -> Users]
  /\ MaxUserSlots \in Nat \ {0} /\ MaxConcurrentDownloads \in Nat \ {0}
  /\ QueueCapacity \in Nat \ {0} /\ MaxStarts \in Nat \ {0} 
  /\ Impatient \subseteq Tasks

VARIABLES
  state,          \* Pipeline.state
  live,           \* Pipeline.ctx is not cancelled and stopCh is open
  taskCh,         \* the queue
  active,         \* slotManager.active: user -> slots
  workerCh,       \* tokens in workerCh
  wg,             \* goroutines of the run: the dispatcher (dispatcherWg too) and the workers
  disp,           \* the dispatcher: where it is, the task it holds, whether it then returns
  main,           \* where Start or StopWithTimeout is
  waiter,         \* the goroutine of StopWithTimeout that waits for the workers
  task,           \* the requests
  starts

vars == <<state, live, taskCh, active, workerCh, wg, disp, main,
          waiter, task, starts>>
pipe == <<state, live, main, waiter, starts>>

(***************************************************************************)
(* A request: where it is, whether its context has ended and nobody has    *)
(* looked at it yet, the outcomes its callback was called with, the        *)
(* callback that runs, its scratch directory and whether the cleaner has   *)
(* waited ten seconds for the callback.                                    *)
(***************************************************************************)
Working == {"begin", "download", "panicked", "deliver", "leave"}
Accepted == {"queued", "held"} \cup Working
Places == {"new", "refused", "cancelled", "over"} \cup Accepted
Outcomes == {"files", "error", "stopped"}

TypeOK ==
  /\ state \in {"stopped", "running", "stopping"} /\ live \in BOOLEAN
  /\ taskCh \in Seq(Tasks) /\ Len(taskCh) <= QueueCapacity
  /\ active \in [Users -> 0..MaxUserSlots]
  /\ workerCh \in 0..MaxConcurrentDownloads /\ wg \in Nat
  /\ disp \in [pc : {"none", "select", "have", "drop"}, t : Tasks \cup {NoTask}, last : BOOLEAN]
  /\ main \in {"idle", "waiting", "draining"}
  /\ waiter \in {"none", "waits", "done"}
  /\ task \in [Tasks -> [at : Places, gone : BOOLEAN, outs : Seq(Outcomes),
                         cb : {"none", "running", "done"},
                         dir : BOOLEAN, overdue : BOOLEAN]]
  /\ starts \in 0..MaxStarts

NoDispatcher == [pc |-> "none", t |-> NoTask, last |-> FALSE]
Selecting == [pc |-> "select", t |-> NoTask, last |-> FALSE]

Init ==
  /\ state = "stopped" /\ live = FALSE /\ taskCh = <<>>
  /\ active = [u \in Users |-> 0]
  /\ workerCh = 0 /\ wg = 0
  /\ disp = NoDispatcher /\ main = "idle" /\ waiter = "none"
  /\ task = [t \in Tasks |-> [at |-> "new", gone |-> FALSE, outs |-> <<>>, cb |-> "none",
                              dir |-> FALSE, overdue |-> FALSE]]
  /\ starts = 0

(***************************************************************************)
(* Helpers.                                                                *)
(***************************************************************************)

\* slotManager.tryAcquire and release; a release that finds no slot does nothing.
Acquire(u) == active' = [active EXCEPT ![u] = @ + 1]
Release(u) == active' = [active EXCEPT ![u] = IF @ <= 1 THEN 0 ELSE @ - 1]

Goto(t, place) == task' = [task EXCEPT ![t].at = place]

\* The context of t has been looked at: nothing asks for it again.
Past(t, place) == task' = [task EXCEPT ![t].at = place, ![t].gone = FALSE]

\* The callback of t is called with outcome o, and t goes to place.
Call(t, o, place) ==
  task' = [task EXCEPT ![t].at = place, ![t].gone = FALSE, ![t].cb = "running",
                       ![t].outs = Append(@, o)]

(***************************************************************************)
(* Start and StopWithTimeout.                                              *)
(***************************************************************************)

\* The counters go up after p.mu is released; only main could see the difference.
Start ==
  /\ main = "idle" /\ state = "stopped" /\ starts < MaxStarts
  /\ state' = "running" /\ live' = TRUE /\ starts' = starts + 1
  /\ wg' = wg + 1 /\ disp' = Selecting /\ waiter' = "none"
  /\ UNCHANGED <<taskCh, active, workerCh, main, task>>

Stop ==
  /\ main = "idle" /\ state = "running"
  /\ state' = "stopping" /\ live' = FALSE /\ main' = "waiting" /\ waiter' = "waits"
  /\ UNCHANGED <<taskCh, active, workerCh, wg, disp, task, starts>>

\* Mutant: only the dispatcher is waited for.
WorkersNotAwaited ==
  /\ waiter = "waits" /\ disp.pc = "none"
  /\ waiter' = "done" /\ state' = "stopped"
  /\ UNCHANGED <<live, taskCh, active, workerCh, wg, disp, main, task, starts>>

\* Dispatcher and workers have ended; wg counts the dispatcher too.
WorkersEnded ==
  /\ waiter = "waits" /\ wg = 0
  /\ waiter' = "done" /\ state' = "stopped"
  /\ UNCHANGED <<live, taskCh, active, workerCh, wg, disp, main, task, starts>>

\* The waiter is done, or the timeout has passed: the queue is emptied next.
StopWaited ==
  /\ main = "waiting"
  /\ main' = "draining"
  /\ UNCHANGED <<state, live, taskCh, active, workerCh, wg, disp, waiter, task, starts>>

\* drainRemaining takes one task; a goroutine calls its callback.
Drain ==
  /\ main = "draining" /\ taskCh # <<>>
  /\ LET t == Head(taskCh) IN Release(Requester[t]) /\ Call(t, "stopped", "cancelled")
  /\ taskCh' = Tail(taskCh)
  /\ UNCHANGED <<workerCh, wg, disp, pipe>>

\* Mutant: Stop leaves the queue alone.
DrainNothing ==
  /\ main = "draining"
  /\ main' = "idle"
  /\ UNCHANGED <<state, live, taskCh, active, workerCh, wg, disp, waiter, task, starts>>

Drained ==
  /\ main = "draining" /\ taskCh = <<>>
  /\ main' = "idle"
  /\ UNCHANGED <<state, live, taskCh, active, workerCh, wg, disp, waiter, task, starts>>

(***************************************************************************)
(* Requests.                                                               *)
(***************************************************************************)

\* Submit under p.mu: it needs a running pipeline, a slot and a place.
Submit(t) ==
  /\ task[t].at = "new" /\ ~task[t].gone
  /\ state = "running" /\ live
  /\ active[Requester[t]] < MaxUserSlots /\ Len(taskCh) < QueueCapacity
  /\ Acquire(Requester[t])
  /\ taskCh' = Append(taskCh, t)
  /\ Goto(t, "queued")
  /\ UNCHANGED <<workerCh, wg, disp, pipe>>

\* A slot taken for a queue that is full is given back under the same lock.
SubmitRefused(t) ==
  /\ task[t].at = "new"
  /\ \/ task[t].gone
     \/ state # "running" \/ ~live
     \/ active[Requester[t]] >= MaxUserSlots
     \/ Len(taskCh) = QueueCapacity
  /\ Past(t, "refused")
  /\ UNCHANGED <<taskCh, active, workerCh, wg, disp, pipe>>

\* The context of a request ends; once the dispatcher has looked at it, that is
\* one of the ways a download fails.
RequestGone(t) ==
  /\ t \in Impatient /\ ~task[t].gone
  /\ task[t].at \in {"new", "queued", "held"}
  /\ task' = [task EXCEPT ![t].gone = TRUE]
  /\ UNCHANGED <<taskCh, active, workerCh, wg, disp, pipe>>

(***************************************************************************)
(* runDispatcher.                                                          *)
(***************************************************************************)

\* The dispatcher returns.
Leave ==
  /\ disp' = NoDispatcher
  /\ wg' = wg - 1

DispatcherStops ==
  /\ disp.pc = "select" /\ ~live
  /\ Leave
  /\ UNCHANGED <<state, live, taskCh, active, workerCh, main, waiter, task, starts>>

\* A select that finds a task and a closed channel may take either.
Receive ==
  /\ disp.pc = "select" /\ taskCh # <<>>
  /\ disp' = [disp EXCEPT !.pc = "have", !.t = Head(taskCh)]
  /\ taskCh' = Tail(taskCh)
  /\ Goto(Head(taskCh), "held")
  /\ UNCHANGED <<active, workerCh, wg, pipe>>

\* Mutant: the slot of a request that is gone is not given back.
DropGoneKeepsSlot ==
  /\ disp.pc = "have" /\ task[disp.t].gone
  /\ Call(disp.t, "error", "cancelled")
  /\ disp' = [disp EXCEPT !.pc = "drop"]
  /\ UNCHANGED <<taskCh, active, workerCh, wg, pipe>>

DropGone ==
  /\ disp.pc = "have" /\ task[disp.t].gone
  /\ Release(Requester[disp.t]) /\ Call(disp.t, "error", "cancelled")
  /\ disp' = [disp EXCEPT !.pc = "drop"]
  /\ UNCHANGED <<taskCh, workerCh, wg, pipe>>

\* The request was alive when it was looked at; it may have ended since.
Dispatch ==
  /\ disp.pc = "have" /\ workerCh < MaxConcurrentDownloads
  /\ workerCh' = workerCh + 1 /\ wg' = wg + 1
  /\ Past(disp.t, "begin")
  /\ disp' = Selecting
  /\ UNCHANGED <<taskCh, active, pipe>>

\* cancelQueuedTask.
DropStopped ==
  /\ disp.pc = "have" /\ ~live
  /\ Release(Requester[disp.t]) /\ Call(disp.t, "stopped", "cancelled")
  /\ disp' = [disp EXCEPT !.pc = "drop", !.last = TRUE]
  /\ UNCHANGED <<taskCh, workerCh, wg, pipe>>

\* The callback of a dropped task has returned to the dispatcher.
Dropped ==
  /\ disp.pc = "drop" /\ task[disp.t].cb = "done"
  /\ IF disp.last THEN Leave ELSE disp' = Selecting /\ UNCHANGED wg
  /\ UNCHANGED <<state, live, taskCh, active, workerCh, main, waiter, task, starts>>

(***************************************************************************)
(* runWorker, executeTask and deliverOutcome.                              *)
(***************************************************************************)

\* The request is gone, or its scratch directory cannot be made.
BeginFails(t) ==
  /\ task[t].at = "begin"
  /\ Call(t, "error", "deliver")
  /\ UNCHANGED <<taskCh, active, workerCh, wg, disp, pipe>>

Begin(t) ==
  /\ task[t].at = "begin"
  /\ task' = [task EXCEPT ![t].at = "download", ![t].dir = TRUE]
  /\ UNCHANGED <<taskCh, active, workerCh, wg, disp, pipe>>

\* The download fails, times out, is cancelled or yields nothing valid; or it
\* yields files.
Downloaded(t) ==
  /\ task[t].at = "download"
  /\ \E o \in {"files", "error"} : Call(t, o, "deliver")
  /\ UNCHANGED <<taskCh, active, workerCh, wg, disp, pipe>>

\* Mutant: a panic is reported by the callback and then as a failed download.
PanicsAndFails(t) ==
  /\ task[t].at = "download"
  /\ task' = [task EXCEPT ![t].at = "panicked", ![t].dir = FALSE, ![t].cb = "running",
                          ![t].outs = @ \o <<"error", "error">>]
  /\ UNCHANGED <<taskCh, active, workerCh, wg, disp, pipe>>

\* Mutant: a panic ends the worker without its deferred calls.
PanicsOutright(t) ==
  /\ task[t].at = "download"
  /\ task' = [task EXCEPT ![t].at = "over", ![t].dir = FALSE, ![t].cb = "running",
                          ![t].outs = Append(@, "error")]
  /\ UNCHANGED <<taskCh, active, workerCh, wg, disp, pipe>>

\* A panic removes the directory on its way to runWorker, which cancels the task.
Panics(t) ==
  /\ task[t].at = "download"
  /\ task' = [task EXCEPT ![t].at = "panicked", ![t].dir = FALSE, ![t].cb = "running",
                          ![t].outs = Append(@, "error")]
  /\ UNCHANGED <<taskCh, active, workerCh, wg, disp, pipe>>

\* The callback returns or panics, whoever waits for it.
CallbackReturns(t) ==
  /\ task[t].cb = "running"
  /\ task' = [task EXCEPT ![t].cb = "done", ![t].overdue = FALSE,
                          ![t].at = CASE @ = "cancelled" -> "over"
                                      [] @ = "panicked" -> "leave"
                                      [] OTHER -> @]
  /\ UNCHANGED <<taskCh, active, workerCh, wg, disp, pipe>>

\* deliverOutcome returns after its callback: the directory goes.
Delivered(t) ==
  /\ task[t].at = "deliver" /\ task[t].cb = "done"
  /\ task' = [task EXCEPT ![t].at = "leave", ![t].dir = FALSE]
  /\ UNCHANGED <<taskCh, active, workerCh, wg, disp, pipe>>

\* Mutant: a worker that gives up on the callback removes the directory at once.
GiveUpAndClean(t) ==
  /\ task[t].at = "deliver" /\ task[t].cb = "running"
  /\ task' = [task EXCEPT ![t].at = "leave", ![t].dir = FALSE]
  /\ UNCHANGED <<taskCh, active, workerCh, wg, disp, pipe>>

\* PresentationTimeout, or Stop has cancelled the context: the worker leaves
\* while the callback goes on, and a cleaner waits for it.
GiveUp(t) ==
  /\ task[t].at = "deliver" /\ task[t].cb = "running"
  /\ Goto(t, "leave")
  /\ UNCHANGED <<taskCh, active, workerCh, wg, disp, pipe>>

\* The cleaner waits for the callback, at most ten seconds.
Clean(t) ==
  /\ task[t].at \in {"leave", "over"} /\ task[t].dir
  /\ task' = [task EXCEPT ![t].dir = FALSE, ![t].overdue = task[t].cb = "running"]
  /\ UNCHANGED <<taskCh, active, workerCh, wg, disp, pipe>>

\* The worker gives its token and its slot back.
EndWorker(t) ==
  /\ task[t].at = "leave"
  /\ workerCh' = workerCh - 1
  /\ Release(Requester[t]) /\ wg' = wg - 1
  /\ Goto(t, "over")
  /\ UNCHANGED <<taskCh, disp, pipe>>

(***************************************************************************)
(* The specification.                                                      *)
(***************************************************************************)

MainStep == StopWaited \/ Drain \/ Drained
DispatcherStep == DispatcherStops \/ Receive \/ DropGone \/ Dispatch \/ DropStopped \/ Dropped
WorkerStep(t) == BeginFails(t) \/ Begin(t) \/ Downloaded(t) \/ Panics(t) \/ Delivered(t)
                 \/ GiveUp(t) \/ EndWorker(t)

Next ==
  \/ Start \/ Stop \/ WorkersEnded \/ MainStep \/ DispatcherStep
  \/ \E t \in Tasks : \/ Submit(t) \/ SubmitRefused(t) \/ RequestGone(t)
                      \/ WorkerStep(t) \/ CallbackReturns(t) \/ Clean(t)

Spec == Init /\ [][Next]_vars

(***************************************************************************)
(* Every goroutine goes on: a download ends by DownloadTimeout, a worker   *)
(* waits no longer than PresentationTimeout for a callback, and a callback *)
(* the dispatcher itself waits for has a context of two seconds.  Less is  *)
(* assumed: that somebody goes on in each of the three parts.  Requests    *)
(* need not come, and nothing needs to be stopped or started.              *)
(***************************************************************************)
FairSpec ==
  /\ Spec
  /\ WF_vars(WorkersEnded \/ MainStep) /\ WF_vars(DispatcherStep)
  /\ WF_vars(\E t \in Tasks : WorkerStep(t) \/ CallbackReturns(t))

(***************************************************************************)
(* Properties.                                                             *)
(***************************************************************************)

Holding(u) == {t \in Tasks : Requester[t] = u /\ task[t].at \in Accepted}

\* A user has as many slots as accepted requests that are neither over nor
\* cancelled: no path gives a slot back twice or never (pipeline.go:181, 211,
\* 230, 250, 279, 494, and the release that ignores an empty slot, slots.go:39).
SlotsCounted == \A u \in Users : active[u] = Cardinality(Holding(u))

\* A request that was accepted is answered once, whichever of the dispatcher, a
\* worker, a panic and Stop ends it; one that was refused is never answered.
OneAnswer ==
  \A t \in Tasks : /\ Len(task[t].outs) <= 1
                   /\ task[t].at = "over" => Len(task[t].outs) = 1
                   /\ task[t].at \in {"new", "refused"} => task[t].outs = <<>>

\* A stopped pipeline is quiet, and once Stop has returned nothing is left in the
\* queue for the next start (pipeline.go:149-163): dispatcher, workers, tokens.
StoppedIsQuiet ==
  state = "stopped" =>
    /\ disp.pc = "none" /\ workerCh = 0 /\ wg = 0
    /\ \A t \in Tasks : task[t].at \notin Working
    /\ main = "idle" => taskCh = <<>>

\* The files stay while their callback runs, for ten seconds after the worker
\* gave up on it (pipeline.go:345-371).
FilesKept ==
  \A t \in Tasks : (task[t].cb = "running" /\ task[t].outs = <<"files">> /\ ~task[t].overdue)
                     => task[t].dir

\* Every accepted request is answered, whatever is stopped or fails meanwhile.
AllAnswered == \A t \in Tasks : task[t].at = "queued" ~> task[t].outs # <<>>

\* Stop comes to its end also when it has timed out: the pipeline can be started
\* again (pipeline.go:149-156).
StopEnds == state = "stopping" ~> state = "stopped"

\* No path through a request, a panic or a restart loses or keeps a slot, a token, a
\* goroutine or a directory that is another's to have.
ResourcesKept == SlotsCounted /\ StoppedIsQuiet /\ FilesKept

\* Nobody waits for ever, neither those who asked nor the one who stops the pipeline.
NobodyWaits == AllAnswered /\ StopEnds
=============================================================================
