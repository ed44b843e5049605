---------------------------- MODULE PolicyProofs ----------------------------
(***************************************************************************)
(* Proofs about the queue of media downloads, for any requests, users,     *)
(* slots, workers and starts; and about the services of a guild that go by *)
(* its configuration, each an instance with its own specification: the     *)
(* commands that change settings (the cache is true and no edit is lost),  *)
(* the command gate, and the filters.                                      *)
(***************************************************************************)
EXTENDS RipperPipeline, MCServices, FiniteSetTheorems, SequenceTheorems, TLAPS

Outcome == [at : Places, gone : BOOLEAN, outs : Seq(Outcomes),
            cb : {"none", "running", "done"}, dir : BOOLEAN, overdue : BOOLEAN]

Workers == {t \in Tasks : task[t].at \in Working}

\* How far a request is says how often it was answered, whether its callback has
\* run, and whether its files must be there.
Consistent(r) ==
  /\ r.at \in {"new", "refused", "queued", "held", "begin", "download"} => r.outs = <<>> /\ r.cb = "none"
  /\ r.at \in {"cancelled", "panicked"} => r.cb = "running"
  /\ r.at \in {"cancelled", "panicked", "deliver", "leave", "over"} => Len(r.outs) = 1
  /\ r.at = "download" => r.dir
  /\ (r.cb = "running" /\ r.outs = <<"files">> /\ ~r.overdue) => r.dir

TasksConsistent == \A t \in Tasks : Consistent(task[t])

\* The queue holds tasks that are queued, each once; the dispatcher holds one that
\* is held.
QueueConsistent ==
  /\ \A i \in 1..Len(taskCh) : task[taskCh[i]].at = "queued"
  /\ \A i, k \in 1..Len(taskCh) : taskCh[i] = taskCh[k] => i = k
  /\ disp.pc \in {"have", "drop"} => disp.t \in Tasks
  /\ disp.pc = "have" => task[disp.t].at = "held"

\* Tokens and the wait group count the workers and the dispatcher.
WorkersCounted ==
  /\ workerCh = Cardinality(Workers)
  /\ wg = workerCh + (IF disp.pc = "none" THEN 0 ELSE 1)

\* The phases of main and its waiter.
PhasesAgree ==
  /\ live = (state = "running")
  /\ main # "idle" => state # "running"
  /\ waiter = "waits" => state = "stopping"
  /\ state = "stopped" => wg = 0
  /\ (main = "idle" /\ state # "running") => taskCh = <<>>

PipelineInv ==
  TypeOK /\ TasksConsistent /\ QueueConsistent /\ SlotsCounted /\ WorkersCounted /\ PhasesAgree

(***************************************************************************)
(* Counting: what a step of one request does to the slots and the workers. *)
(***************************************************************************)

LEMMA HoldingFinite == \A u \in Users : IsFiniteSet(Holding(u))
BY FS_Subset, PipelineAssumption DEF Holding

LEMMA WorkersFinite == IsFiniteSet(Workers)
BY FS_Subset, PipelineAssumption DEF Workers

LEMMA OthersHold ==
  ASSUME NEW t \in Tasks, \A s \in Tasks \ {t} : task'[s] = task[s],
         NEW u \in Users, u # Requester[t] \/ (task'[t].at \in Accepted) = (task[t].at \in Accepted)
  PROVE  Holding(u)' = Holding(u)
BY DEF Holding

\* A request that stays accepted, or stays away, leaves the slots as they are.
LEMMA SlotsKept ==
  ASSUME SlotsCounted, UNCHANGED active, NEW t \in Tasks, \A s \in Tasks \ {t} : task'[s] = task[s],
         (task'[t].at \in Accepted) = (task[t].at \in Accepted)
  PROVE  SlotsCounted'
BY OthersHold DEF SlotsCounted

\* A request that is accepted takes a slot.
LEMMA SlotTaken ==
  ASSUME TypeOK, SlotsCounted, NEW t \in Tasks, \A s \in Tasks \ {t} : task'[s] = task[s],
         task[t].at \notin Accepted, task'[t].at \in Accepted,
         active[Requester[t]] < MaxUserSlots, Acquire(Requester[t])
  PROVE  SlotsCounted' /\ active' \in [Users -> 0..MaxUserSlots]
<1> DEFINE r == Requester[t]
<1>1. r \in Users
  BY PipelineAssumption
<1>2. active \in [Users -> 0..MaxUserSlots] /\ MaxUserSlots \in Nat
  BY PipelineAssumption DEF TypeOK
<1>3. active' = [active EXCEPT ![r] = active[r] + 1]
  BY DEF Acquire
<1>4. active' \in [Users -> 0..MaxUserSlots]
  BY <1>1, <1>2, <1>3
<1>5. Holding(r)' = Holding(r) \cup {t} /\ t \notin Holding(r)
  BY DEF Holding
<1>6. Cardinality(Holding(r)') = Cardinality(Holding(r)) + 1
  BY <1>1, <1>5, HoldingFinite, FS_AddElement
<1>7. ASSUME NEW u \in Users PROVE active'[u] = Cardinality(Holding(u))'
  <2>1. CASE u = r
    BY <2>1, <1>1, <1>2, <1>3, <1>6 DEF SlotsCounted
  <2>2. CASE u # r
    BY <2>2, <1>2, <1>3, OthersHold DEF SlotsCounted
  <2> QED BY <2>1, <2>2
<1> QED BY <1>4, <1>7 DEF SlotsCounted

\* A request that is over gives its slot back.
LEMMA SlotGivenBack ==
  ASSUME TypeOK, SlotsCounted, NEW t \in Tasks, \A s \in Tasks \ {t} : task'[s] = task[s],
         task[t].at \in Accepted, task'[t].at \notin Accepted, Release(Requester[t])
  PROVE  SlotsCounted' /\ active' \in [Users -> 0..MaxUserSlots]
<1> DEFINE r == Requester[t]
<1>1. r \in Users
  BY PipelineAssumption
<1>2. active \in [Users -> 0..MaxUserSlots] /\ MaxUserSlots \in Nat
  BY PipelineAssumption DEF TypeOK
<1>3. active' = [active EXCEPT ![r] = IF active[r] <= 1 THEN 0 ELSE active[r] - 1]
  BY DEF Release
<1>4. active' \in [Users -> 0..MaxUserSlots]
  BY <1>1, <1>2, <1>3
<1>5. Holding(r)' = Holding(r) \ {t} /\ t \in Holding(r)
  BY DEF Holding
<1>6. Cardinality(Holding(r)') = Cardinality(Holding(r)) - 1
  BY <1>1, <1>5, HoldingFinite, FS_RemoveElement
<1>7. active[r] = Cardinality(Holding(r)) /\ Cardinality(Holding(r)') \in Nat
  <2>1. IsFiniteSet(Holding(r)')
    BY <1>1, <1>5, HoldingFinite, FS_RemoveElement
  <2> QED BY <2>1, <1>1, FS_CardinalityType DEF SlotsCounted
<1>8. ASSUME NEW u \in Users PROVE active'[u] = Cardinality(Holding(u))'
  <2>1. CASE u = r
    BY <2>1, <1>1, <1>2, <1>3, <1>6, <1>7
  <2>2. CASE u # r
    BY <2>2, <1>2, <1>3, OthersHold DEF SlotsCounted
  <2> QED BY <2>1, <2>2
<1> QED BY <1>4, <1>8 DEF SlotsCounted

LEMMA WorkersKept ==
  ASSUME NEW t \in Tasks, \A s \in Tasks \ {t} : task'[s] = task[s],
         (task'[t].at \in Working) = (task[t].at \in Working)
  PROVE  Workers' = Workers
BY DEF Workers

LEMMA WorkerBegins ==
  ASSUME NEW t \in Tasks, \A s \in Tasks \ {t} : task'[s] = task[s],
         task[t].at \notin Working, task'[t].at \in Working
  PROVE  Cardinality(Workers)' = Cardinality(Workers) + 1
<1>1. Workers' = Workers \cup {t} /\ t \notin Workers
  BY DEF Workers
<1> QED BY <1>1, WorkersFinite, FS_AddElement

LEMMA WorkerEnds ==
  ASSUME NEW t \in Tasks, \A s \in Tasks \ {t} : task'[s] = task[s],
         task[t].at \in Working, task'[t].at \notin Working
  PROVE  Cardinality(Workers)' = Cardinality(Workers) - 1 /\ Cardinality(Workers)' \in Nat
<1>1. Workers' = Workers \ {t} /\ t \in Workers
  BY DEF Workers
<1>2. IsFiniteSet(Workers \ {t}) /\ Cardinality(Workers \ {t}) = Cardinality(Workers) - 1
  BY <1>1, WorkersFinite, FS_RemoveElement
<1> QED BY <1>1, <1>2, FS_CardinalityType

(***************************************************************************)
(* The steps of one request.                                               *)
(***************************************************************************)

LEMMA CallIs ==
  ASSUME TypeOK, NEW t \in Tasks, NEW o \in Outcomes, NEW place \in Places,
         task[t].outs = <<>>, Call(t, o, place)
  PROVE  /\ task' \in [Tasks -> Outcome]
         /\ \A s \in Tasks \ {t} : task'[s] = task[s]
         /\ task'[t].at = place /\ task'[t].outs = <<o>> /\ task'[t].cb = "running"
         /\ task'[t].dir = task[t].dir /\ task'[t].overdue = task[t].overdue
<1> DEFINE r == [task[t] EXCEPT !.at = place, !.gone = FALSE, !.cb = "running", !.outs = <<o>>]
<1>1. task \in [Tasks -> Outcome]
  BY DEF TypeOK, Outcome
<1>2. Append(task[t].outs, o) = <<o>> /\ <<o>> \in Seq(Outcomes)
  OBVIOUS
<1>3. task' = [task EXCEPT ![t] = r]
  BY <1>1, <1>2, Zenon DEF Call
<1>4. r \in Outcome /\ r.at = place /\ r.outs = <<o>> /\ r.cb = "running"
      /\ r.dir = task[t].dir /\ r.overdue = task[t].overdue
  BY <1>1, <1>2 DEF Outcome
<1> HIDE DEF r
<1> QED BY <1>1, <1>3, <1>4

LEMMA GotoIs ==
  ASSUME TypeOK, NEW t \in Tasks, NEW place \in Places, Goto(t, place) \/ Past(t, place)
  PROVE  /\ task' \in [Tasks -> Outcome]
         /\ \A s \in Tasks \ {t} : task'[s] = task[s]
         /\ task'[t].at = place /\ task'[t].outs = task[t].outs /\ task'[t].cb = task[t].cb
         /\ task'[t].dir = task[t].dir /\ task'[t].overdue = task[t].overdue
<1>1. task \in [Tasks -> Outcome] /\ task[t] \in Outcome
  BY DEF TypeOK, Outcome
<1>2. PICK r \in Outcome : /\ task' = [task EXCEPT ![t] = r]
                           /\ r.at = place /\ r.outs = task[t].outs /\ r.cb = task[t].cb
                           /\ r.dir = task[t].dir /\ r.overdue = task[t].overdue
  <2>1. CASE Goto(t, place)
    <3> DEFINE r == [task[t] EXCEPT !.at = place]
    <3>1. r \in Outcome /\ r.at = place /\ r.outs = task[t].outs /\ r.cb = task[t].cb
          /\ r.dir = task[t].dir /\ r.overdue = task[t].overdue
      BY <1>1 DEF Outcome
    <3>2. task' = [task EXCEPT ![t] = r]
      BY <2>1, Zenon DEF Goto
    <3> HIDE DEF r
    <3> QED BY <3>1, <3>2
  <2>2. CASE Past(t, place)
    <3> DEFINE r == [task[t] EXCEPT !.at = place, !.gone = FALSE]
    <3>1. r \in Outcome /\ r.at = place /\ r.outs = task[t].outs /\ r.cb = task[t].cb
          /\ r.dir = task[t].dir /\ r.overdue = task[t].overdue
      BY <1>1 DEF Outcome
    <3>2. task' = [task EXCEPT ![t] = r]
      BY <2>2, Zenon DEF Past
    <3> HIDE DEF r
    <3> QED BY <3>1, <3>2
  <2> QED BY <2>1, <2>2
<1> QED BY <1>1, <1>2

LEMMA OthersConsistent ==
  ASSUME TasksConsistent, NEW t \in Tasks, \A s \in Tasks \ {t} : task'[s] = task[s],
         Consistent(task'[t])
  PROVE  TasksConsistent'
BY DEF TasksConsistent

\* A step of a request that is in nobody's queue leaves the queue consistent.
LEMMA QueueKept ==
  ASSUME TypeOK, QueueConsistent, UNCHANGED <<taskCh, disp>>, NEW t \in Tasks,
         \A s \in Tasks \ {t} : task'[s] = task[s],
         task[t].at \notin {"queued", "held"} \/ task'[t].at = task[t].at
  PROVE  QueueConsistent'
<1>1. \A i \in 1..Len(taskCh) : taskCh[i] \in Tasks
  BY DEF TypeOK
<1> QED BY <1>1 DEF QueueConsistent

\* What a step of a worker or a callback leaves alone.
Aside == UNCHANGED <<taskCh, disp, pipe>>

\* A step of a request that stays accepted or away, working or not.
LEMMA RequestMoves ==
  ASSUME PipelineInv, NEW t \in Tasks, UNCHANGED <<active, workerCh, wg>>, Aside,
         task' \in [Tasks -> Outcome], \A s \in Tasks \ {t} : task'[s] = task[s],
         Consistent(task'[t]),
         task[t].at \notin {"queued", "held"} \/ task'[t].at = task[t].at,
         (task'[t].at \in Accepted) = (task[t].at \in Accepted),
         (task'[t].at \in Working) = (task[t].at \in Working)
  PROVE  PipelineInv'
<1> USE DEF Aside, pipe
<1>1. TypeOK'
  BY DEF TypeOK, PipelineInv, Outcome
<1>2. TasksConsistent'
  BY OthersConsistent DEF PipelineInv
<1>3. QueueConsistent'
  BY QueueKept DEF PipelineInv
<1>4. SlotsCounted'
  BY SlotsKept DEF PipelineInv
<1>5. WorkersCounted'
  <2>1. Workers' = Workers
    BY WorkersKept
  <2> QED BY <2>1 DEF WorkersCounted, PipelineInv
<1>6. PhasesAgree'
  BY DEF PhasesAgree, PipelineInv
<1> QED BY <1>1, <1>2, <1>3, <1>4, <1>5, <1>6 DEF PipelineInv

LEMMA RefusedKeeps == ASSUME PipelineInv, NEW t \in Tasks, SubmitRefused(t) PROVE PipelineInv'
<1>1. task[t].at = "new" /\ Past(t, "refused") /\ Consistent(task[t])
  BY DEF SubmitRefused, PipelineInv, TasksConsistent
<1>2. /\ task' \in [Tasks -> Outcome] /\ \A s \in Tasks \ {t} : task'[s] = task[s]
      /\ task'[t].at = "refused" /\ task'[t].outs = task[t].outs /\ task'[t].cb = task[t].cb
  BY <1>1, GotoIs DEF PipelineInv, Places
<1>3. Consistent(task'[t])
  BY <1>1, <1>2 DEF Consistent
<1> QED BY <1>1, <1>2, <1>3, RequestMoves DEF SubmitRefused, Aside, pipe, Accepted, Working

LEMMA GoneKeeps == ASSUME PipelineInv, NEW t \in Tasks, RequestGone(t) PROVE PipelineInv'
<1> DEFINE r == [task[t] EXCEPT !.gone = TRUE]
<1>1. task \in [Tasks -> Outcome] /\ task' = [task EXCEPT ![t] = r]
  BY Zenon DEF RequestGone, PipelineInv, TypeOK, Outcome
<1>2. r \in Outcome /\ r.at = task[t].at /\ r.outs = task[t].outs /\ r.cb = task[t].cb
      /\ r.dir = task[t].dir /\ r.overdue = task[t].overdue
  BY <1>1 DEF Outcome
<1> HIDE DEF r
<1>3. task' \in [Tasks -> Outcome] /\ task'[t] = r /\ \A s \in Tasks \ {t} : task'[s] = task[s]
  BY <1>1, <1>2
<1>4. Consistent(task'[t])
  BY <1>2, <1>3 DEF PipelineInv, TasksConsistent, Consistent
<1> QED BY <1>2, <1>3, <1>4, RequestMoves DEF RequestGone, Aside, pipe

LEMMA BeginFailsKeeps == ASSUME PipelineInv, NEW t \in Tasks, BeginFails(t) PROVE PipelineInv'
<1>1. task[t].at = "begin" /\ Call(t, "error", "deliver") /\ Consistent(task[t])
  BY DEF BeginFails, PipelineInv, TasksConsistent
<1>2. /\ task' \in [Tasks -> Outcome] /\ \A s \in Tasks \ {t} : task'[s] = task[s]
      /\ task'[t].at = "deliver" /\ task'[t].outs = <<"error">>
  <2>1. task[t].outs = <<>> /\ "error" \in Outcomes /\ "deliver" \in Places
    BY <1>1 DEF Consistent, Outcomes, Places, Accepted, Working
  <2> QED BY <1>1, <2>1, CallIs DEF PipelineInv
<1>3. Consistent(task'[t])
  BY <1>2 DEF Consistent
<1> QED BY <1>1, <1>2, <1>3, RequestMoves DEF BeginFails, Aside, pipe, Accepted, Working

LEMMA BeginKeeps == ASSUME PipelineInv, NEW t \in Tasks, Begin(t) PROVE PipelineInv'
<1> DEFINE r == [task[t] EXCEPT !.at = "download", !.dir = TRUE]
<1>1. task \in [Tasks -> Outcome] /\ task' = [task EXCEPT ![t] = r] /\ task[t].at = "begin"
  BY Zenon DEF Begin, PipelineInv, TypeOK, Outcome
<1>2. r \in Outcome /\ r.at = "download" /\ r.outs = task[t].outs /\ r.cb = task[t].cb /\ r.dir
  BY <1>1 DEF Outcome, Places, Accepted, Working
<1> HIDE DEF r
<1>3. task' \in [Tasks -> Outcome] /\ task'[t] = r /\ \A s \in Tasks \ {t} : task'[s] = task[s]
  BY <1>1, <1>2
<1>4. Consistent(task'[t])
  BY <1>1, <1>2, <1>3 DEF PipelineInv, TasksConsistent, Consistent
<1> QED BY <1>1, <1>2, <1>3, <1>4, RequestMoves DEF Begin, Aside, pipe, Accepted, Working

LEMMA DownloadedKeeps == ASSUME PipelineInv, NEW t \in Tasks, Downloaded(t) PROVE PipelineInv'
<1>1. PICK o \in {"files", "error"} : Call(t, o, "deliver")
  BY DEF Downloaded
<1>2. task[t].at = "download" /\ Consistent(task[t])
  BY DEF Downloaded, PipelineInv, TasksConsistent
<1>3. /\ task' \in [Tasks -> Outcome] /\ \A s \in Tasks \ {t} : task'[s] = task[s]
      /\ task'[t].at = "deliver" /\ task'[t].outs = <<o>> /\ task'[t].dir = task[t].dir
  <2>1. task[t].outs = <<>> /\ o \in Outcomes /\ "deliver" \in Places
    BY <1>2 DEF Consistent, Outcomes, Places, Accepted, Working
  <2> QED BY <1>1, <2>1, CallIs DEF PipelineInv
<1>4. Consistent(task'[t])
  BY <1>2, <1>3 DEF Consistent
<1> QED BY <1>2, <1>3, <1>4, RequestMoves DEF Downloaded, Aside, pipe, Accepted, Working

LEMMA PanicsKeeps == ASSUME PipelineInv, NEW t \in Tasks, Panics(t) PROVE PipelineInv'
<1> DEFINE r == [task[t] EXCEPT !.at = "panicked", !.dir = FALSE, !.cb = "running", !.outs = <<"error">>]
<1>1. task \in [Tasks -> Outcome] /\ task[t].at = "download" /\ Consistent(task[t])
  BY DEF Panics, PipelineInv, TypeOK, Outcome, TasksConsistent
<1>2. Append(task[t].outs, "error") = <<"error">>
  <2>1. task[t].outs = <<>>
    BY <1>1 DEF Consistent
  <2> QED BY <2>1
<1>3. task' = [task EXCEPT ![t] = r]
  BY <1>1, <1>2, Zenon DEF Panics
<1>4. r \in Outcome /\ r.at = "panicked" /\ r.outs = <<"error">> /\ r.cb = "running"
  <2>1. <<"error">> \in Seq(Outcomes)
    BY DEF Outcomes
  <2> QED BY <1>1, <2>1 DEF Outcome, Places, Accepted, Working
<1> HIDE DEF r
<1>5. task' \in [Tasks -> Outcome] /\ task'[t] = r /\ \A s \in Tasks \ {t} : task'[s] = task[s]
  BY <1>1, <1>3, <1>4
<1>6. Consistent(task'[t])
  <2>1. Len(<<"error">>) = 1 /\ <<"error">> # <<"files">>
    OBVIOUS
  <2> QED BY <1>4, <1>5, <2>1 DEF Consistent
<1> QED BY <1>1, <1>4, <1>5, <1>6, RequestMoves DEF Panics, Aside, pipe, Accepted, Working

LEMMA CallbackReturnsKeeps ==
  ASSUME PipelineInv, NEW t \in Tasks, CallbackReturns(t)
  PROVE  PipelineInv'
<1> DEFINE place == IF task[t].at = "cancelled" THEN "over"
                    ELSE IF task[t].at = "panicked" THEN "leave" ELSE task[t].at
           r == [task[t] EXCEPT !.cb = "done", !.overdue = FALSE, !.at = place]
<1>1. task \in [Tasks -> Outcome] /\ task[t].cb = "running" /\ Consistent(task[t])
  BY DEF CallbackReturns, PipelineInv, TypeOK, Outcome, TasksConsistent
<1>2. (CASE task[t].at = "cancelled" -> "over" [] task[t].at = "panicked" -> "leave"
         [] OTHER -> task[t].at) = place
  OBVIOUS
<1>3. task' = [task EXCEPT ![t] = r]
  BY <1>1, <1>2 DEF CallbackReturns
<1>4. r \in Outcome /\ r.at = place /\ r.outs = task[t].outs /\ r.cb = "done"
  BY <1>1 DEF Outcome, Places, Accepted, Working
<1> HIDE DEF r
<1>5. task' \in [Tasks -> Outcome] /\ task'[t] = r /\ \A s \in Tasks \ {t} : task'[s] = task[s]
  BY <1>1, <1>3, <1>4
<1>6. task[t].at \in {"cancelled", "panicked", "deliver", "leave", "over"}
  BY <1>1 DEF Consistent, Outcome, Places, Accepted, Working
<1>7. Consistent(task'[t])
  BY <1>1, <1>4, <1>5, <1>6 DEF Consistent
<1> QED BY <1>4, <1>5, <1>6, <1>7, RequestMoves DEF CallbackReturns, Aside, pipe, Accepted, Working

LEMMA DeliveredKeeps == ASSUME PipelineInv, NEW t \in Tasks, Delivered(t) PROVE PipelineInv'
<1> DEFINE r == [task[t] EXCEPT !.at = "leave", !.dir = FALSE]
<1>1. task \in [Tasks -> Outcome] /\ task[t].at = "deliver" /\ task[t].cb = "done"
      /\ Consistent(task[t]) /\ task' = [task EXCEPT ![t] = r]
  BY Zenon DEF Delivered, PipelineInv, TypeOK, Outcome, TasksConsistent
<1>2. r \in Outcome /\ r.at = "leave" /\ r.outs = task[t].outs /\ r.cb = "done"
  BY <1>1 DEF Outcome, Places, Accepted, Working
<1> HIDE DEF r
<1>3. task' \in [Tasks -> Outcome] /\ task'[t] = r /\ \A s \in Tasks \ {t} : task'[s] = task[s]
  BY <1>1, <1>2
<1>4. Consistent(task'[t])
  BY <1>1, <1>2, <1>3 DEF Consistent
<1> QED BY <1>1, <1>2, <1>3, <1>4, RequestMoves DEF Delivered, Aside, pipe, Accepted, Working

LEMMA GiveUpKeeps == ASSUME PipelineInv, NEW t \in Tasks, GiveUp(t) PROVE PipelineInv'
<1>1. task[t].at = "deliver" /\ Goto(t, "leave") /\ Consistent(task[t])
  BY DEF GiveUp, PipelineInv, TasksConsistent
<1>2. /\ task' \in [Tasks -> Outcome] /\ \A s \in Tasks \ {t} : task'[s] = task[s]
      /\ task'[t].at = "leave" /\ task'[t].outs = task[t].outs /\ task'[t].cb = task[t].cb
      /\ task'[t].dir = task[t].dir /\ task'[t].overdue = task[t].overdue
  BY <1>1, GotoIs DEF PipelineInv, Places, Accepted, Working
<1>3. Consistent(task'[t])
  BY <1>1, <1>2 DEF Consistent
<1> QED BY <1>1, <1>2, <1>3, RequestMoves DEF GiveUp, Aside, pipe, Accepted, Working

LEMMA CleanKeeps == ASSUME PipelineInv, NEW t \in Tasks, Clean(t) PROVE PipelineInv'
<1> DEFINE late == task[t].cb = "running"
           r == [task[t] EXCEPT !.dir = FALSE, !.overdue = late]
<1>1. task \in [Tasks -> Outcome] /\ task[t].at \in {"leave", "over"} /\ Consistent(task[t])
      /\ task' = [task EXCEPT ![t] = r]
  BY Zenon DEF Clean, PipelineInv, TypeOK, Outcome, TasksConsistent
<1>2. r \in Outcome /\ r.at = task[t].at /\ r.outs = task[t].outs /\ r.cb = task[t].cb
      /\ r.overdue = late
  BY <1>1 DEF Outcome
<1> HIDE DEF r
<1>3. task' \in [Tasks -> Outcome] /\ task'[t] = r /\ \A s \in Tasks \ {t} : task'[s] = task[s]
  BY <1>1, <1>2
<1>4. Consistent(task'[t])
  BY <1>1, <1>2, <1>3 DEF Consistent
<1> QED BY <1>1, <1>2, <1>3, <1>4, RequestMoves DEF Clean, Aside, pipe

(***************************************************************************)
(* The steps of the queue, the dispatcher and main.                        *)
(***************************************************************************)

LEMMA SubmitKeeps == ASSUME PipelineInv, NEW t \in Tasks, Submit(t) PROVE PipelineInv'
<1>1. /\ task' \in [Tasks -> Outcome] /\ \A s \in Tasks \ {t} : task'[s] = task[s]
      /\ task'[t].at = "queued" /\ task'[t].outs = task[t].outs /\ task'[t].cb = task[t].cb
      /\ task[t].at = "new"
  BY GotoIs DEF Submit, PipelineInv, Places, Accepted
<1>2. taskCh \in Seq(Tasks) /\ taskCh' = Append(taskCh, t) /\ Len(taskCh) < QueueCapacity
      /\ Len(taskCh) <= QueueCapacity /\ QueueCapacity \in Nat /\ Len(taskCh) \in Nat
  BY PipelineAssumption DEF Submit, PipelineInv, TypeOK
<1>3. SlotsCounted' /\ active' \in [Users -> 0..MaxUserSlots]
  BY <1>1, SlotTaken DEF Submit, PipelineInv, Accepted, Working
<1>4. TypeOK'
  <2>1. taskCh' \in Seq(Tasks) /\ Len(taskCh') <= QueueCapacity
    BY <1>2
  <2> QED BY <1>1, <1>3, <2>1 DEF Submit, PipelineInv, TypeOK, pipe, Outcome
<1>5. TasksConsistent'
  <2>1. Consistent(task'[t])
    BY <1>1 DEF PipelineInv, TasksConsistent, Consistent
  <2> QED BY <1>1, <2>1, OthersConsistent DEF PipelineInv
<1>6. QueueConsistent'
  <2>1. \A i \in 1..Len(taskCh) : taskCh'[i] = taskCh[i] /\ taskCh[i] \in Tasks \ {t}
    BY <1>1, <1>2 DEF PipelineInv, QueueConsistent
  <2>2. Len(taskCh') = Len(taskCh) + 1 /\ taskCh'[Len(taskCh')] = t
    BY <1>2
  <2>3. \A i \in 1..Len(taskCh') : i \in 1..Len(taskCh) \/ i = Len(taskCh')
    BY <1>2, <2>2
  <2>4. \A i \in 1..Len(taskCh') : task'[taskCh'[i]].at = "queued"
    BY <1>1, <2>1, <2>2, <2>3 DEF PipelineInv, QueueConsistent
  <2>5. \A i, k \in 1..Len(taskCh') : taskCh'[i] = taskCh'[k] => i = k
    BY <2>1, <2>2, <2>3 DEF PipelineInv, QueueConsistent
  <2>6. disp' = disp /\ (disp.pc = "have" => disp.t # t)
    BY <1>1 DEF Submit, PipelineInv, QueueConsistent
  <2> QED BY <1>1, <2>4, <2>5, <2>6 DEF PipelineInv, QueueConsistent
<1>7. WorkersCounted'
  <2>1. Workers' = Workers
    BY <1>1, WorkersKept DEF Working
  <2> QED BY <2>1 DEF WorkersCounted, PipelineInv, Submit
<1>8. PhasesAgree'
  BY DEF PhasesAgree, PipelineInv, Submit, pipe
<1> QED BY <1>3, <1>4, <1>5, <1>6, <1>7, <1>8 DEF PipelineInv

\* The first of the queue leaves it; it is queued, and no other place holds it.
LEMMA HeadLeaves ==
  ASSUME PipelineInv, taskCh # <<>>, taskCh' = Tail(taskCh), NEW t, t = Head(taskCh)
  PROVE  /\ t \in Tasks /\ task[t].at = "queued"
         /\ taskCh' \in Seq(Tasks) /\ Len(taskCh') <= QueueCapacity
         /\ \A i \in 1..Len(taskCh') : taskCh'[i] = taskCh[i + 1] /\ i + 1 \in 1..Len(taskCh)
         /\ \A i \in 1..Len(taskCh') : taskCh'[i] \in Tasks \ {t} /\ task[taskCh'[i]].at = "queued"
         /\ \A i, k \in 1..Len(taskCh') : taskCh'[i] = taskCh'[k] => i = k
<1>1. taskCh \in Seq(Tasks) /\ Len(taskCh) <= QueueCapacity /\ QueueCapacity \in Nat
  BY PipelineAssumption DEF PipelineInv, TypeOK
<1>2. Len(taskCh) \in Nat \ {0} /\ t = taskCh[1] /\ 1 \in 1..Len(taskCh) /\ t \in Tasks
  BY <1>1
<1>3. taskCh' \in Seq(Tasks) /\ Len(taskCh') = Len(taskCh) - 1
  BY <1>1
<1>4. \A i \in 1..Len(taskCh') : taskCh'[i] = taskCh[i + 1] /\ i + 1 \in 1..Len(taskCh)
  BY <1>1, <1>2, <1>3
<1>5. \A i \in 1..Len(taskCh) : taskCh[i] \in Tasks /\ task[taskCh[i]].at = "queued"
  BY <1>1 DEF PipelineInv, QueueConsistent
<1>6. \A i, k \in 1..Len(taskCh) : taskCh[i] = taskCh[k] => i = k
  BY DEF PipelineInv, QueueConsistent
<1>7. \A i \in 1..Len(taskCh') : i \in Int /\ i > 0 /\ i + 1 # 1
  BY <1>3
<1>8. \A i \in 1..Len(taskCh') : taskCh'[i] # t
  BY <1>2, <1>4, <1>6, <1>7
<1>9. \A i, k \in 1..Len(taskCh') : taskCh'[i] = taskCh'[k] => i = k
  BY <1>4, <1>6, <1>7
<1> QED BY <1>1, <1>2, <1>3, <1>4, <1>5, <1>8, <1>9

LEMMA DrainKeeps == ASSUME PipelineInv, Drain PROVE PipelineInv'
<1>1. PICK t : /\ t = Head(taskCh) /\ Release(Requester[t]) /\ Call(t, "stopped", "cancelled")
               /\ taskCh # <<>> /\ taskCh' = Tail(taskCh)
  BY DEF Drain
<1>2. t \in Tasks /\ task[t].at = "queued" /\ Consistent(task[t])
  BY <1>1, HeadLeaves DEF PipelineInv, TasksConsistent
<1>3. /\ task' \in [Tasks -> Outcome] /\ \A s \in Tasks \ {t} : task'[s] = task[s]
      /\ task'[t].at = "cancelled" /\ task'[t].outs = <<"stopped">> /\ task'[t].cb = "running"
  <2>1. task[t].outs = <<>> /\ "stopped" \in Outcomes /\ "cancelled" \in Places
    BY <1>2 DEF Consistent, Outcomes, Places
  <2> QED BY <1>1, <1>2, <2>1, CallIs DEF PipelineInv
<1>4. SlotsCounted' /\ active' \in [Users -> 0..MaxUserSlots]
  BY <1>1, <1>2, <1>3, SlotGivenBack DEF PipelineInv, Accepted, Working
<1>5. TypeOK'
  BY <1>1, <1>3, <1>4, HeadLeaves DEF Drain, PipelineInv, TypeOK, pipe, Outcome
<1>6. TasksConsistent'
  <2>1. Len(<<"stopped">>) = 1 /\ <<"stopped">> # <<"files">>
    OBVIOUS
  <2>2. Consistent(task'[t])
    BY <1>3, <2>1 DEF Consistent
  <2> QED BY <1>2, <1>3, <2>2, OthersConsistent DEF PipelineInv
<1>7. QueueConsistent'
  <2>1. /\ \A i \in 1..Len(taskCh') : taskCh'[i] \in Tasks \ {t} /\ task[taskCh'[i]].at = "queued"
        /\ \A i, k \in 1..Len(taskCh') : taskCh'[i] = taskCh'[k] => i = k
    BY <1>1, HeadLeaves
  <2>2. disp' = disp /\ (disp.pc = "have" => disp.t # t)
    BY <1>2 DEF Drain, PipelineInv, QueueConsistent
  <2> QED BY <1>3, <2>1, <2>2 DEF PipelineInv, QueueConsistent
<1>8. WorkersCounted'
  <2>1. Workers' = Workers
    BY <1>2, <1>3, WorkersKept DEF Working
  <2> QED BY <2>1 DEF WorkersCounted, PipelineInv, Drain
<1>9. PhasesAgree'
  BY DEF PhasesAgree, PipelineInv, Drain, pipe
<1> QED BY <1>4, <1>5, <1>6, <1>7, <1>8, <1>9 DEF PipelineInv

LEMMA ReceiveKeeps == ASSUME PipelineInv, Receive PROVE PipelineInv'
<1>1. PICK t : /\ t = Head(taskCh) /\ Goto(t, "held") /\ taskCh # <<>> /\ taskCh' = Tail(taskCh)
               /\ disp' = [disp EXCEPT !.pc = "have", !.t = t]
  BY DEF Receive
<1>2. t \in Tasks /\ task[t].at = "queued"
  BY <1>1, HeadLeaves
<1>3. /\ task' \in [Tasks -> Outcome] /\ \A s \in Tasks \ {t} : task'[s] = task[s]
      /\ task'[t].at = "held" /\ task'[t].outs = task[t].outs /\ task'[t].cb = task[t].cb
  BY <1>1, <1>2, GotoIs DEF PipelineInv, Places, Accepted
<1>4. disp' \in [pc : {"none", "select", "have", "drop"}, t : Tasks \cup {NoTask}, last : BOOLEAN]
      /\ disp'.pc = "have" /\ disp'.t = t
  BY <1>1, <1>2 DEF PipelineInv, TypeOK
<1>5. TypeOK'
  BY <1>1, <1>3, <1>4, HeadLeaves DEF Receive, PipelineInv, TypeOK, pipe, Outcome
<1>6. TasksConsistent'
  <2>1. Consistent(task'[t])
    BY <1>2, <1>3 DEF PipelineInv, TasksConsistent, Consistent
  <2> QED BY <1>2, <1>3, <2>1, OthersConsistent DEF PipelineInv
<1>7. QueueConsistent'
  <2>1. /\ \A i \in 1..Len(taskCh') : taskCh'[i] \in Tasks \ {t} /\ task[taskCh'[i]].at = "queued"
        /\ \A i, k \in 1..Len(taskCh') : taskCh'[i] = taskCh'[k] => i = k
    BY <1>1, HeadLeaves
  <2> QED BY <1>2, <1>3, <1>4, <2>1 DEF PipelineInv, QueueConsistent
<1>8. SlotsCounted'
  BY <1>2, <1>3, SlotsKept DEF PipelineInv, Receive, Accepted
<1>9. WorkersCounted'
  <2>1. Workers' = Workers
    BY <1>2, <1>3, WorkersKept DEF Working
  <2>2. disp.pc # "none" /\ disp'.pc # "none"
    BY <1>4 DEF Receive
  <2> QED BY <2>1, <2>2 DEF WorkersCounted, PipelineInv, Receive
<1>10. PhasesAgree'
  BY <1>1, HeadLeaves DEF PhasesAgree, PipelineInv, Receive, pipe
<1> QED BY <1>5, <1>6, <1>7, <1>8, <1>9, <1>10 DEF PipelineInv

\* The dispatcher drops the request it holds, because it is gone or to stop.
LEMMA DropKeeps ==
  ASSUME PipelineInv, disp.pc = "have", NEW o \in {"error", "stopped"}, Release(Requester[disp.t]),
         Call(disp.t, o, "cancelled"), NEW last \in BOOLEAN,
         disp' = [disp EXCEPT !.pc = "drop", !.last = last],
         UNCHANGED <<taskCh, workerCh, wg, pipe>>
  PROVE  PipelineInv'
<1>1. PICK t \in Tasks : /\ t = disp.t /\ Release(Requester[t]) /\ Call(t, o, "cancelled")
                         /\ task[t].at = "held" /\ Consistent(task[t])
  BY DEF PipelineInv, QueueConsistent, TasksConsistent
<1>2. /\ task' \in [Tasks -> Outcome] /\ \A s \in Tasks \ {t} : task'[s] = task[s]
      /\ task'[t].at = "cancelled" /\ task'[t].outs = <<o>> /\ task'[t].cb = "running"
  <2>1. task[t].outs = <<>> /\ o \in Outcomes /\ "cancelled" \in Places
    BY <1>1 DEF Consistent, Outcomes, Places
  <2> QED BY <1>1, <2>1, CallIs DEF PipelineInv
<1>3. SlotsCounted' /\ active' \in [Users -> 0..MaxUserSlots]
  BY <1>1, <1>2, SlotGivenBack DEF PipelineInv, Accepted, Working
<1>4. disp' \in [pc : {"none", "select", "have", "drop"}, t : Tasks \cup {NoTask}, last : BOOLEAN]
      /\ disp'.pc = "drop" /\ disp'.t = t
  BY <1>1 DEF PipelineInv, TypeOK
<1>5. TypeOK'
  BY <1>2, <1>3, <1>4 DEF PipelineInv, TypeOK, pipe, Outcome
<1>6. TasksConsistent'
  <2>1. Len(<<o>>) = 1 /\ <<o>> # <<"files">>
    OBVIOUS
  <2>2. Consistent(task'[t])
    BY <1>2, <2>1 DEF Consistent
  <2> QED BY <1>2, <2>2, OthersConsistent DEF PipelineInv
<1>7. QueueConsistent'
  <2>1. \A i \in 1..Len(taskCh) : taskCh[i] \in Tasks \ {t}
    BY <1>1 DEF PipelineInv, QueueConsistent, TypeOK
  <2> QED BY <1>2, <1>4, <2>1 DEF PipelineInv, QueueConsistent
<1>8. WorkersCounted'
  <2>1. Workers' = Workers
    BY <1>1, <1>2, WorkersKept DEF Working
  <2> QED BY <1>4, <2>1 DEF WorkersCounted, PipelineInv
<1>9. PhasesAgree'
  BY DEF PhasesAgree, PipelineInv, pipe
<1> QED BY <1>3, <1>5, <1>6, <1>7, <1>8, <1>9 DEF PipelineInv

LEMMA DropGoneKeeps == ASSUME PipelineInv, DropGone PROVE PipelineInv'
<1>1. disp' = [disp EXCEPT !.pc = "drop", !.last = disp.last] /\ disp.last \in BOOLEAN
  BY DEF DropGone, PipelineInv, TypeOK
<1> QED BY <1>1, DropKeeps DEF DropGone

LEMMA DropStoppedKeeps == ASSUME PipelineInv, DropStopped PROVE PipelineInv'
BY DropKeeps DEF DropStopped

LEMMA DispatchKeeps == ASSUME PipelineInv, Dispatch PROVE PipelineInv'
<1>1. PICK t \in Tasks : /\ t = disp.t /\ Past(t, "begin") /\ task[t].at = "held" /\ Consistent(task[t])
  BY DEF Dispatch, PipelineInv, QueueConsistent, TasksConsistent
<1>2. /\ task' \in [Tasks -> Outcome] /\ \A s \in Tasks \ {t} : task'[s] = task[s]
      /\ task'[t].at = "begin" /\ task'[t].outs = task[t].outs /\ task'[t].cb = task[t].cb
  BY <1>1, GotoIs DEF PipelineInv, Places, Accepted, Working
<1>3. workerCh' \in 0..MaxConcurrentDownloads /\ wg' \in Nat
  BY PipelineAssumption DEF Dispatch, PipelineInv, TypeOK
<1>4. TypeOK'
  BY <1>2, <1>3 DEF Dispatch, Selecting, PipelineInv, TypeOK, pipe, Outcome
<1>5. TasksConsistent'
  <2>1. Consistent(task'[t])
    BY <1>1, <1>2 DEF Consistent
  <2> QED BY <1>2, <2>1, OthersConsistent DEF PipelineInv
<1>6. QueueConsistent'
  <2>1. \A i \in 1..Len(taskCh) : taskCh[i] \in Tasks \ {t}
    BY <1>1 DEF PipelineInv, QueueConsistent, TypeOK
  <2> QED BY <1>2, <2>1 DEF Dispatch, Selecting, PipelineInv, QueueConsistent
<1>7. SlotsCounted'
  BY <1>1, <1>2, SlotsKept DEF PipelineInv, Dispatch, Accepted, Working
<1>8. WorkersCounted'
  <2>1. Cardinality(Workers)' = Cardinality(Workers) + 1
    BY <1>1, <1>2, WorkerBegins DEF Working
  <2>2. disp.pc # "none" /\ disp'.pc # "none"
    BY DEF Dispatch, Selecting
  <2>3. workerCh \in Nat /\ workerCh' = workerCh + 1 /\ wg' = wg + 1
    BY PipelineAssumption DEF Dispatch, PipelineInv, TypeOK
  <2> QED BY <2>1, <2>2, <2>3 DEF WorkersCounted, PipelineInv
<1>9. PhasesAgree'
  <2>1. state # "stopped"
    BY PipelineAssumption DEF Dispatch, PhasesAgree, PipelineInv, WorkersCounted, TypeOK
  <2> QED BY <2>1 DEF PhasesAgree, PipelineInv, Dispatch, pipe
<1> QED BY <1>4, <1>5, <1>6, <1>7, <1>8, <1>9 DEF PipelineInv

LEMMA EndWorkerKeeps == ASSUME PipelineInv, NEW t \in Tasks, EndWorker(t) PROVE PipelineInv'
<1>1. task[t].at = "leave" /\ Goto(t, "over") /\ Consistent(task[t])
  BY DEF EndWorker, PipelineInv, TasksConsistent
<1>2. /\ task' \in [Tasks -> Outcome] /\ \A s \in Tasks \ {t} : task'[s] = task[s]
      /\ task'[t].at = "over" /\ task'[t].outs = task[t].outs /\ task'[t].cb = task[t].cb
      /\ task'[t].dir = task[t].dir /\ task'[t].overdue = task[t].overdue
  BY <1>1, GotoIs DEF PipelineInv, Places
<1>3. SlotsCounted' /\ active' \in [Users -> 0..MaxUserSlots]
  BY <1>1, <1>2, SlotGivenBack DEF EndWorker, PipelineInv, Accepted, Working
<1>4. Cardinality(Workers)' = Cardinality(Workers) - 1 /\ Cardinality(Workers)' \in Nat
  BY <1>1, <1>2, WorkerEnds DEF Working
<1>5. /\ workerCh = Cardinality(Workers) /\ workerCh' = workerCh - 1 /\ wg' = wg - 1
      /\ wg = workerCh + (IF disp.pc = "none" THEN 0 ELSE 1)
      /\ workerCh \in Nat /\ workerCh <= MaxConcurrentDownloads /\ MaxConcurrentDownloads \in Nat
  BY PipelineAssumption DEF EndWorker, PipelineInv, WorkersCounted, TypeOK
<1>6. workerCh' \in 0..MaxConcurrentDownloads /\ wg' \in Nat
  BY <1>4, <1>5
<1>7. TypeOK'
  BY <1>2, <1>3, <1>6 DEF EndWorker, PipelineInv, TypeOK, pipe, Outcome
<1>8. TasksConsistent'
  <2>1. Consistent(task'[t])
    BY <1>1, <1>2 DEF Consistent
  <2> QED BY <1>2, <2>1, OthersConsistent DEF PipelineInv
<1>9. QueueConsistent'
  BY <1>1, <1>2, QueueKept DEF PipelineInv, EndWorker
<1>10. WorkersCounted'
  BY <1>4, <1>5 DEF WorkersCounted, EndWorker
<1>11. PhasesAgree'
  <2>1. state # "stopped"
    BY <1>4, <1>5 DEF PhasesAgree, PipelineInv
  <2> QED BY <2>1 DEF PhasesAgree, PipelineInv, EndWorker, pipe
<1> QED BY <1>3, <1>7, <1>8, <1>9, <1>10, <1>11 DEF PipelineInv

\* The steps of main and of the dispatcher that no request notices.
Unnoticed == UNCHANGED <<active, workerCh, task>>

LEMMA RequestsUnnoticed ==
  ASSUME PipelineInv, Unnoticed
  PROVE  TasksConsistent' /\ SlotsCounted' /\ Workers' = Workers
BY DEF Unnoticed, PipelineInv, TasksConsistent, Consistent, SlotsCounted, Holding, Workers

LEMMA MainKeeps ==
  ASSUME PipelineInv, Start \/ Stop \/ WorkersEnded \/ StopWaited \/ Drained
  PROVE  PipelineInv'
<1>1. Unnoticed /\ taskCh' = taskCh
  BY DEF Start, Stop, WorkersEnded, StopWaited, Drained, Unnoticed
<1>2. TasksConsistent' /\ SlotsCounted' /\ Workers' = Workers
  BY <1>1, RequestsUnnoticed
<1>3. wg \in Nat /\ starts \in 0..MaxStarts /\ MaxStarts \in Nat
  BY PipelineAssumption DEF PipelineInv, TypeOK
<1>4. CASE Start
  <2>1. disp.pc = "none"
    BY <1>4, PipelineAssumption DEF Start, PipelineInv, PhasesAgree, WorkersCounted, TypeOK
  <2>2. TypeOK'
    BY <1>1, <1>3, <1>4 DEF Start, Selecting, PipelineInv, TypeOK, Unnoticed
  <2>3. QueueConsistent'
    BY <1>1, <1>4 DEF Start, Selecting, PipelineInv, QueueConsistent, Unnoticed
  <2>4. WorkersCounted'
    <3>1. workerCh' = workerCh /\ wg' = wg + 1 /\ disp'.pc = "select"
      BY <1>4 DEF Start, Selecting
    <3>2. workerCh = Cardinality(Workers) /\ wg = workerCh + 0 /\ workerCh \in Nat
      BY <2>1, PipelineAssumption DEF PipelineInv, WorkersCounted, TypeOK
    <3> QED BY <1>2, <3>1, <3>2 DEF WorkersCounted
  <2>5. PhasesAgree'
    BY <1>4 DEF Start, PipelineInv, PhasesAgree
  <2> QED BY <1>2, <2>2, <2>3, <2>4, <2>5 DEF PipelineInv
<1>5. CASE Stop \/ WorkersEnded \/ StopWaited \/ Drained
  <2>1. UNCHANGED <<disp, wg>>
    BY <1>5 DEF Stop, WorkersEnded, StopWaited, Drained
  <2>2. TypeOK'
    BY <1>1, <1>5, <2>1 DEF Stop, WorkersEnded, StopWaited, Drained, PipelineInv, TypeOK, Unnoticed
  <2>3. QueueConsistent' /\ WorkersCounted'
    BY <1>1, <1>2, <2>1 DEF PipelineInv, QueueConsistent, WorkersCounted, Unnoticed
  <2>4. PhasesAgree'
    BY <1>5 DEF Stop, WorkersEnded, StopWaited, Drained, PipelineInv, PhasesAgree
  <2> QED BY <1>2, <2>2, <2>3, <2>4 DEF PipelineInv
<1> QED BY <1>4, <1>5

LEMMA DispatcherReturnsKeeps ==
  ASSUME PipelineInv, DispatcherStops \/ Dropped
  PROVE  PipelineInv'
<1>1. Unnoticed /\ UNCHANGED <<taskCh, pipe>> /\ disp.pc # "none"
      /\ (Leave \/ (disp' = Selecting /\ wg' = wg))
  BY DEF DispatcherStops, Dropped, Unnoticed, pipe
<1>2. TasksConsistent' /\ SlotsCounted' /\ Workers' = Workers
  BY <1>1, RequestsUnnoticed
<1>3. workerCh \in Nat /\ wg = workerCh + 1
  BY <1>1, PipelineAssumption DEF PipelineInv, TypeOK, WorkersCounted
<1>4. /\ disp' \in [pc : {"none", "select"}, t : {NoTask}, last : {FALSE}]
      /\ wg' = workerCh + (IF disp'.pc = "none" THEN 0 ELSE 1)
  <2>1. CASE Leave
    <3>1. disp' = NoDispatcher /\ wg' = wg - 1
      BY <2>1 DEF Leave
    <3>2. NoDispatcher \in [pc : {"none", "select"}, t : {NoTask}, last : {FALSE}] /\ NoDispatcher.pc = "none"
      BY DEF NoDispatcher
    <3>3. wg' = workerCh + 0
      BY <1>3, <3>1
    <3> QED BY <3>1, <3>2, <3>3
  <2>2. CASE disp' = Selecting /\ wg' = wg
    <3>1. Selecting \in [pc : {"none", "select"}, t : {NoTask}, last : {FALSE}] /\ Selecting.pc = "select"
      BY DEF Selecting
    <3> QED BY <1>3, <2>2, <3>1
  <2> QED BY <1>1, <2>1, <2>2
<1>5. TypeOK'
  <2>1. wg' \in Nat /\ disp' \in [pc : {"none", "select", "have", "drop"}, t : Tasks \cup {NoTask}, last : BOOLEAN]
    <3>1. wg' = workerCh \/ wg' = workerCh + 1
      BY <1>3, <1>4
    <3>2. wg' \in Nat
      BY <1>3, <3>1
    <3>3. \A d \in [pc : {"none", "select"}, t : {NoTask}, last : {FALSE}] :
            d \in [pc : {"none", "select", "have", "drop"}, t : Tasks \cup {NoTask}, last : BOOLEAN]
      OBVIOUS
    <3> QED BY <1>4, <3>2, <3>3
  <2> QED BY <1>1, <2>1 DEF PipelineInv, TypeOK, Unnoticed, pipe
<1>6. QueueConsistent'
  BY <1>1, <1>4 DEF PipelineInv, QueueConsistent, Unnoticed
<1>7. WorkersCounted'
  BY <1>1, <1>2, <1>4 DEF PipelineInv, WorkersCounted, Unnoticed
<1>8. PhasesAgree'
  BY <1>1, <1>3 DEF PipelineInv, PhasesAgree, pipe
<1> QED BY <1>2, <1>5, <1>6, <1>7, <1>8 DEF PipelineInv

(***************************************************************************)
(* The theorems.                                                           *)
(***************************************************************************)

LEMMA PipelineInit == Init => PipelineInv
<1> SUFFICES ASSUME Init PROVE PipelineInv
  OBVIOUS
<1>1. \A t \in Tasks : task[t].at = "new" /\ Consistent(task[t])
  BY DEF Init, Consistent
<1>2. \A u \in Users : Holding(u) = {}
  BY <1>1 DEF Holding, Accepted, Working
<1>3. Workers = {}
  BY <1>1 DEF Workers, Working
<1>4. TypeOK
  <2>1. task \in [Tasks -> Outcome]
    BY DEF Init, Outcome, Places
  <2>2. taskCh \in Seq(Tasks) /\ Len(taskCh) <= QueueCapacity
    BY PipelineAssumption DEF Init
  <2>3. /\ active \in [Users -> 0..MaxUserSlots]
        /\ workerCh \in 0..MaxConcurrentDownloads /\ wg \in Nat /\ starts \in 0..MaxStarts
    BY PipelineAssumption DEF Init
  <2> QED BY <2>1, <2>2, <2>3 DEF Init, TypeOK, NoDispatcher, Outcome
<1>5. SlotsCounted
  BY <1>2, FS_EmptySet DEF Init, SlotsCounted
<1>6. WorkersCounted
  BY <1>3, FS_EmptySet DEF Init, WorkersCounted, NoDispatcher
<1>7. QueueConsistent
  <2>1. 1..Len(taskCh) = {}
    BY DEF Init
  <2> QED BY <2>1 DEF Init, QueueConsistent, NoDispatcher
<1>8. TasksConsistent /\ PhasesAgree
  BY <1>1 DEF Init, TasksConsistent, PhasesAgree
<1> QED BY <1>4, <1>5, <1>6, <1>7, <1>8 DEF PipelineInv

LEMMA PipelineStep == PipelineInv /\ [Next]_vars => PipelineInv'
<1> SUFFICES ASSUME PipelineInv, [Next]_vars PROVE PipelineInv'
  OBVIOUS
<1>1. CASE Start \/ Stop \/ WorkersEnded \/ MainStep
  BY <1>1, MainKeeps, DrainKeeps DEF MainStep
<1>2. CASE DispatcherStep
  BY <1>2, ReceiveKeeps, DropGoneKeeps, DispatchKeeps, DropStoppedKeeps, DispatcherReturnsKeeps
     DEF DispatcherStep
<1>3. ASSUME NEW t \in Tasks, Submit(t) \/ SubmitRefused(t) \/ RequestGone(t)
      PROVE  PipelineInv'
  BY <1>3, SubmitKeeps, RefusedKeeps, GoneKeeps
<1>4. ASSUME NEW t \in Tasks, WorkerStep(t) \/ CallbackReturns(t) \/ Clean(t)
      PROVE  PipelineInv'
  BY <1>4, BeginFailsKeeps, BeginKeeps, DownloadedKeeps, PanicsKeeps, DeliveredKeeps, GiveUpKeeps,
     EndWorkerKeeps, CallbackReturnsKeeps, CleanKeeps DEF WorkerStep
<1>5. CASE UNCHANGED vars
  <2>1. Unnoticed /\ UNCHANGED <<taskCh, wg, disp, pipe>>
    BY <1>5 DEF vars, Unnoticed, pipe
  <2>2. TypeOK'
    BY <2>1 DEF PipelineInv, TypeOK, Unnoticed, pipe
  <2>3. QueueConsistent' /\ PhasesAgree'
    BY <2>1 DEF PipelineInv, QueueConsistent, PhasesAgree, Unnoticed, pipe
  <2>4. TasksConsistent' /\ SlotsCounted' /\ WorkersCounted'
    BY <2>1, RequestsUnnoticed DEF PipelineInv, WorkersCounted, Unnoticed
  <2> QED BY <2>2, <2>3, <2>4 DEF PipelineInv
<1> QED BY <1>1, <1>2, <1>3, <1>4, <1>5 DEF Next

THEOREM InvariantHolds == Spec => []PipelineInv
BY PipelineInit, PipelineStep, PTL DEF Spec

\* The variables keep their types, whatever the numbers of requests, slots, workers and
\* starts are: no counter of a slot or of the wait group falls below zero.
THEOREM TypeCorrect == Spec => []TypeOK
BY InvariantHolds, PTL DEF PipelineInv

\* An accepted request is answered at most once, and once it is over exactly once,
\* whichever of the dispatcher, its worker, a panic and Stop ends it.
THEOREM OneAnswerAlways == Spec => []OneAnswer
<1>1. PipelineInv => OneAnswer
  <2> SUFFICES ASSUME PipelineInv, NEW t \in Tasks
               PROVE  /\ Len(task[t].outs) <= 1
                      /\ task[t].at = "over" => Len(task[t].outs) = 1
                      /\ task[t].at \in {"new", "refused"} => task[t].outs = <<>>
    BY DEF OneAnswer
  <2>1. task[t].at \in Places /\ Consistent(task[t])
    BY DEF PipelineInv, TypeOK, TasksConsistent
  <2>2. Len(<<>>) = 0
    OBVIOUS
  <2>3. task[t].outs = <<>> \/ Len(task[t].outs) = 1
    BY <2>1 DEF Consistent, Places, Accepted, Working
  <2>4. Len(task[t].outs) = 0 \/ Len(task[t].outs) = 1
    BY <2>2, <2>3, Zenon
  <2>5. Len(task[t].outs) <= 1
    <3>1. \A n \in {0, 1} : n <= 1
      OBVIOUS
    <3>2. Len(task[t].outs) \in {0, 1}
      BY <2>4, Zenon
    <3> QED BY <3>1, <3>2, Zenon
  <2> QED BY <2>1, <2>5 DEF Consistent
<1> QED BY <1>1, InvariantHolds, PTL

\* Slots, tokens, goroutines and directories are kept as long as they are needed and no
\* longer: a slot per accepted request, a quiet pipeline after Stop, the files while
\* their callback runs.
THEOREM ResourcesKeptAlways == Spec => []ResourcesKept
<1>1. PipelineInv => StoppedIsQuiet
  <2> SUFFICES ASSUME PipelineInv, state = "stopped" PROVE StoppedIsQuiet
    BY DEF StoppedIsQuiet
  <2>1. wg = 0 /\ (main = "idle" => taskCh = <<>>)
    BY DEF PipelineInv, PhasesAgree
  <2>2. disp.pc = "none" /\ workerCh = 0
    BY <2>1, PipelineAssumption DEF PipelineInv, TypeOK, WorkersCounted
  <2>3. Workers = {}
    BY <2>2, WorkersFinite, FS_EmptySet DEF PipelineInv, WorkersCounted
  <2> QED BY <2>1, <2>2, <2>3 DEF StoppedIsQuiet, Workers
<1>2. PipelineInv => FilesKept
  BY DEF PipelineInv, TasksConsistent, Consistent, FilesKept
<1>3. PipelineInv => ResourcesKept
  BY <1>1, <1>2 DEF PipelineInv, ResourcesKept
<1> QED BY <1>3, InvariantHolds, PTL

-----------------------------------------------------------------------------
(***************************************************************************)
(* The services that share the guild's configuration, as instances.        *)
(***************************************************************************)

\* The slots, and what one step of the process is for each of the services.
Slots == <<focus, s1, s2, s3, s4, s5, s6, s7, s8, s9, s10, s11, s12, s13, s14, s15, s16, s17, s18,
           s19, s20, s21, s22, s23>>

LEMMA SlotsStay == ASSUME UNCHANGED <<focus, From1, lockVars>> PROVE UNCHANGED Slots
BY DEF Slots, From1, From7, From10, From12, From15, From16, From17

LEMMA StepOfOne ==
  ASSUME [ServicesNext]_<<focus, From1, lockVars>>
  PROVE  /\ focus' = focus
         /\ focus = "configuration" => [Config!Next]_(Config!vars)
         /\ focus = "filter" => [Filter!FilterNext]_(Filter!filterVars)
         /\ focus = "gate" => [Gate!GateNext]_(Gate!gateVars)
<1>1. CASE ServicesNext
  BY <1>1 DEF ServicesNext
<1>2. CASE UNCHANGED <<focus, From1, lockVars>>
  <2>1. UNCHANGED Slots
    BY <1>2, SlotsStay
  <2>2. UNCHANGED Config!vars /\ UNCHANGED Gate!gateVars
    BY <2>1 DEF Slots, Config!vars, Config!configVars, Gate!gateVars, Gate!vars, Gate!configVars
  <2>3. UNCHANGED Filter!filterVars
    BY <2>1 DEF Slots, Filter!filterVars, Filter!vars, Filter!configVars, Filter!syncer,
      Filter!ghosts
  <2> QED BY <2>1, <2>2, <2>3 DEF Slots
<1> QED BY <1>1, <1>2

LEMMA InitOfOne ==
  ASSUME ServicesInit
  PROVE  /\ focus = "configuration" => Config!Init
         /\ focus = "filter" => Filter!FilterInit
         /\ focus = "gate" => Gate!GateInit
BY DEF ServicesInit

-----------------------------------------------------------------------------
(***************************************************************************)
(* The configuration of a guild, which several services share.  A reader   *)
(* that has not seen what was written since knows that it has not, and a   *)
(* writer that has not yet invalidated the cached copy is on its way.      *)
(***************************************************************************)

\* The variables by name.
guildRow == s1
configCache == s3
policyMu == s4
routines == s6
overlappedBy == s9
cacheRaced == s10
promisedItems == s11
USE DEF guildRow, configCache, policyMu, routines, overlappedBy, cacheRaced, promisedItems

\* A goroutine at work.
Fields == {"step", "then", "seen", "how", "edit", "item", "value", "updates", "rest"}
IsTask(job) == job = [f \in Fields |-> job[f]]
IdleIsNoTask == ~IsTask(NoJob)

AtStep(j, step) == routines[j] # NoJob /\ routines[j].step = step
Begun(step, then) ==
  [step |-> step, then |-> then, seen |-> Nothing, how |-> Nothing,
   edit |-> "add", item |-> Nothing, value |-> 0, updates |-> << >>, rest |-> << >>]
To(job, step) == [job EXCEPT !.step = step]

LEMMA ToIs ==
  ASSUME NEW job, NEW step, IsTask(job)
  PROVE  /\ IsTask(To(job, step)) /\ To(job, step).step = step
         /\ \A f \in Fields \ {"step"} : To(job, step)[f] = job[f]
BY DEF IsTask, Fields, To

\* What a reader that does not know better caches is the row; and what is cached is the row,
\* unless it raced or will be thrown away.
FillFits(j) ==
  AtStep(j, "fill") => j \in overlappedBy \/ routines[j].seen \in {Nothing, guildRow}

CacheFits ==
  /\ configCache \notin {Nothing, guildRow} =>
       cacheRaced \/ \E j \in DOMAIN routines : AtStep(j, "invalidate")
  /\ \A j \in DOMAIN routines : FillFits(j)

\* A step of j that leaves the row and the cache alone.
LEMMA QuietFits ==
  ASSUME CacheFits, NEW j \in DOMAIN routines, NEW r, routines' = [routines EXCEPT ![j] = r],
         UNCHANGED <<guildRow, configCache, cacheRaced>>,
         overlappedBy \ {j} \subseteq overlappedBy',
         ~AtStep(j, "invalidate"),
         r # NoJob /\ r.step = "fill" => j \in overlappedBy' \/ r.seen \in {Nothing, guildRow}
  PROVE  CacheFits'
<1>1. /\ DOMAIN routines' = DOMAIN routines /\ routines'[j] = r
      /\ \A k \in DOMAIN routines \ {j} : routines'[k] = routines[k]
  OBVIOUS
<1>2. ASSUME NEW k \in DOMAIN routines PROVE FillFits(k)'
  BY <1>1 DEF CacheFits, FillFits, AtStep
<1>3. ASSUME NEW k \in DOMAIN routines, AtStep(k, "invalidate") PROVE AtStep(k, "invalidate")'
  BY <1>1, <1>3 DEF AtStep
<1>4. CASE \E k \in DOMAIN routines : AtStep(k, "invalidate")
  BY <1>1, <1>2, <1>3, <1>4 DEF CacheFits
<1>5. CASE ~\E k \in DOMAIN routines : AtStep(k, "invalidate")
  BY <1>1, <1>2, <1>5 DEF CacheFits
<1> QED BY <1>4, <1>5

\* The cache is filled.
LEMMA FilledFits ==
  ASSUME CacheFits, NEW j \in DOMAIN routines, NEW r, routines' = [routines EXCEPT ![j] = r],
         AtStep(j, "fill"), UNCHANGED guildRow,
         configCache' = routines[j].seen, cacheRaced' = (j \in overlappedBy),
         overlappedBy \ {j} \subseteq overlappedBy',
         r # NoJob => r.step # "fill"
  PROVE  CacheFits'
<1>1. /\ DOMAIN routines' = DOMAIN routines /\ routines'[j] = r
      /\ \A k \in DOMAIN routines \ {j} : routines'[k] = routines[k]
  OBVIOUS
<1>2. ASSUME NEW k \in DOMAIN routines PROVE FillFits(k)'
  BY <1>1 DEF CacheFits, FillFits, AtStep
<1>3. configCache' \notin {Nothing, guildRow} => cacheRaced'
  BY DEF CacheFits, FillFits
<1> QED BY <1>1, <1>2, <1>3 DEF CacheFits

\* The row is written, or deleted.
LEMMA WrittenFits ==
  ASSUME CacheFits, NEW j \in DOMAIN routines, NEW r, routines' = [routines EXCEPT ![j] = r],
         r # NoJob, r.step = "invalidate",
         \A k \in DOMAIN routines \ {j} :
           k \in overlappedBy \/ (routines[k] # NoJob /\ routines[k].seen # Nothing)
             => k \in overlappedBy'
  PROVE  CacheFits'
<1>1. /\ DOMAIN routines' = DOMAIN routines /\ routines'[j] = r
      /\ \A k \in DOMAIN routines \ {j} : routines'[k] = routines[k]
  OBVIOUS
<1>2. ASSUME NEW k \in DOMAIN routines PROVE FillFits(k)'
  BY <1>1 DEF CacheFits, FillFits, AtStep
<1>3. AtStep(j, "invalidate")'
  BY <1>1 DEF AtStep
<1> QED BY <1>1, <1>2, <1>3 DEF CacheFits

\* The cached copy is thrown away.
LEMMA InvalidatedFits ==
  ASSUME CacheFits, NEW j \in DOMAIN routines, NEW r, routines' = [routines EXCEPT ![j] = r],
         UNCHANGED <<guildRow, overlappedBy>>, configCache' = Nothing,
         r # NoJob => r.step # "fill"
  PROVE  CacheFits'
<1>1. /\ DOMAIN routines' = DOMAIN routines /\ routines'[j] = r
      /\ \A k \in DOMAIN routines \ {j} : routines'[k] = routines[k]
  OBVIOUS
<1>2. ASSUME NEW k \in DOMAIN routines PROVE FillFits(k)'
  BY <1>1 DEF CacheFits, FillFits, AtStep
<1> QED BY <1>1, <1>2 DEF CacheFits

LEMMA ExpiredFits ==
  ASSUME CacheFits, UNCHANGED <<guildRow, overlappedBy, routines>>, configCache' = Nothing
  PROVE  CacheFits'
BY DEF CacheFits, FillFits, AtStep

-----------------------------------------------------------------------------
(***************************************************************************)
(* The commands that change settings.  What a command is about to write to *)
(* a guarded list is the row's with its item added or removed, for it      *)
(* holds the mutex; what the setup dashboard is about to write is the      *)
(* row's, but for what was chosen; and whoever was overtaken is known.     *)
(***************************************************************************)

\* What is no configuration is the value of an empty cache.
NothingIsNoRow == \A settings : \A c : c = [s \in settings |-> c[s]] => c # Nothing
ConfigAssumed ==
  /\ IdleIsNoTask /\ NoJob \notin Jobs
  /\ NothingIsNoRow /\ Nothing \notin Items \cup Written

Listed == "blacklisted_users"
Voice == {"voicemaster_category_id"}
Shape(c, kind, writes, guarded) ==
  /\ c.kind = kind /\ c.writes = writes /\ c.guarded = guarded
  /\ c.synced = FALSE /\ c.limited = FALSE

LEMMA WrittenAre ==
  /\ Shape(Catalogue!Prefix, "set", <<{"prefix"}>>, FALSE)
  /\ Shape(Catalogue!VoiceSetup, "set", <<{"voicemaster_trigger_channel_id"}, Voice>>, FALSE)
  /\ Shape(Catalogue!BlacklistUser, "edit", <<{Listed}>>, TRUE)
  /\ Shape(Catalogue!BlacklistClear, "clear",
           <<{Listed, "blacklisted_roles", "blacklisted_channels"}>>, TRUE)
  /\ Shape(Catalogue!Setup, "setup", <<UNION Catalogue!Sections>>, FALSE)
<1>1. Shape(Catalogue!Prefix, "set", <<{"prefix"}>>, FALSE)
  BY DEF Shape, Catalogue!Prefix, Catalogue!Compares, Catalogue!Sets, Catalogue!Command
<1>2. Shape(Catalogue!VoiceSetup, "set", <<{"voicemaster_trigger_channel_id"}, Voice>>, FALSE)
  BY DEF Shape, Catalogue!VoiceSetup, Catalogue!Command, Voice
<1>3. Shape(Catalogue!BlacklistUser, "edit", <<{Listed}>>, TRUE)
  BY DEF Shape, Catalogue!BlacklistUser, Catalogue!Guards, Catalogue!Edits, Catalogue!Command, Listed
<1>4. Shape(Catalogue!BlacklistClear, "clear",
            <<{Listed, "blacklisted_roles", "blacklisted_channels"}>>, TRUE)
  BY DEF Shape, Catalogue!BlacklistClear, Catalogue!Guards, Catalogue!Command, Listed
<1>5. Shape(Catalogue!Setup, "setup", <<UNION Catalogue!Sections>>, FALSE)
  BY DEF Shape, Catalogue!Setup, Catalogue!Command
<1> QED BY <1>1, <1>2, <1>3, <1>4, <1>5

LEMMA SetupLeavesLists == Listed \notin UNION Catalogue!Sections
BY DEF Listed, Catalogue!Sections, Catalogue!ConfigureGeneral, Catalogue!ConfigureLogs,
  Catalogue!ConfigureStarboard, Catalogue!ConfigureWelcome, Catalogue!ConfigureRoles,
  Catalogue!ConfigureVoice, Catalogue!ConfigureLeveling, Catalogue!ConfigureSafeguards

LEMMA ListsAre ==
  /\ Config!Lists = {Listed} /\ Config!GuardedLists = {Listed} /\ Listed \in Config!Settings
  /\ Config!Settings = {"prefix", "voicemaster_trigger_channel_id", Listed} \cup Voice
<1>1. Config!Of({"edit", "toggle"}) = {Catalogue!BlacklistUser}
  BY WrittenAre DEF Config!Of, Written, Shape
<1>2. Config!Written({Catalogue!BlacklistUser}) = {Listed}
  BY WrittenAre DEF Config!Written, Shape
<1>3. Config!Lists = {Listed}
  BY <1>1, <1>2 DEF Config!Lists
<1>4. Listed \in Config!Written({c \in Written : c.guarded})
  <2>1. Catalogue!BlacklistUser \in {c \in Written : c.guarded}
    <3>1. Catalogue!BlacklistUser.guarded
      BY WrittenAre DEF Shape
    <3> QED BY <3>1 DEF Written
  <2>2. Listed \in UNION {Catalogue!BlacklistUser.writes[n] : n \in DOMAIN Catalogue!BlacklistUser.writes}
    BY WrittenAre DEF Shape
  <2> QED BY <2>1, <2>2 DEF Config!Written
<1>5. Config!Of({"set"}) = {Catalogue!Prefix, Catalogue!VoiceSetup}
  BY WrittenAre DEF Config!Of, Written, Shape
<1>6. Config!Scalars = {"prefix", "voicemaster_trigger_channel_id"} \cup Voice
  <2>1. UNION {Catalogue!Prefix.writes[n] : n \in DOMAIN Catalogue!Prefix.writes} = {"prefix"}
    BY WrittenAre DEF Shape
  <2>2. UNION {Catalogue!VoiceSetup.writes[n] : n \in DOMAIN Catalogue!VoiceSetup.writes}
          = {"voicemaster_trigger_channel_id"} \cup Voice
    BY WrittenAre DEF Shape
  <2> QED BY <1>5, <2>1, <2>2 DEF Config!Scalars, Config!Written
<1> QED BY <1>3, <1>4, <1>6 DEF Config!GuardedLists, Config!Settings

\* The goroutines: a look at the configuration, the guild is left, or one of the commands.
Look(t) == t.how = Nothing /\ t.then = "done" /\ t.step \in {"get", "query", "fill"}
Left(t) == t.how = Nothing /\ t.step = "invalidate"
Scalar(t) ==
  /\ t.how \in {Catalogue!Prefix, Catalogue!VoiceSetup}
  /\ t.step \in {"check", "write", "invalidate"}
  /\ Listed \notin DOMAIN t.updates /\ t.rest \in {<< >>, <<Voice>>}
Edited(t) ==
  /\ t.how = Catalogue!BlacklistUser /\ t.item \in Items
  /\ t.step \in {"list", "write", "invalidate"}
  /\ t.step = "write" => DOMAIN t.updates = {Listed}
Cleared(t) ==
  /\ t.how = Catalogue!BlacklistClear /\ t.item = Nothing /\ t.step \in {"write", "invalidate"}
  /\ DOMAIN t.updates = {Listed} /\ t.updates[Listed] = {}
Staged(t) ==
  /\ t.how = Catalogue!Setup /\ t.then = "stage"
  /\ t.step \in {"get", "query", "fill", "stage", "write", "invalidate"}
  /\ t.step \in {"fill", "stage", "write"} => t.seen # Nothing
  /\ t.step = "write" => Listed \notin DOMAIN t.updates

ConfigTask(t) ==
  /\ IsTask(t)
  /\ \/ (Look(t) \/ Left(t) \/ Edited(t) \/ Cleared(t) \/ Staged(t)) /\ t.rest = << >>
     \/ Scalar(t)

\* Whoever edits a guarded list holds the mutex.
Guarded(t) == t.how \in {Catalogue!BlacklistUser, Catalogue!BlacklistClear}

\* What an edit, and the setup dashboard, is about to write, unless it was overtaken.
EditIsOfRow(t, config) ==
  t.how = Catalogue!BlacklistUser /\ t.step = "write" =>
    t.updates[Listed] = IF t.edit = "add" THEN config[Listed] \cup {t.item}
                        ELSE config[Listed] \ {t.item}

SetupIsOfRow(t, config) ==
  t.how = Catalogue!Setup =>
    /\ t.step \in {"fill", "stage"} =>
         \A s \in Config!Settings \ t.item : t.seen[s] = config[s]
    /\ t.step = "write" => \A s \in DOMAIN t.updates \ t.item : t.updates[s] = config[s]

InTime(j) ==
  routines[j] # NoJob /\ j \notin overlappedBy =>
    EditIsOfRow(routines[j], guildRow) /\ SetupIsOfRow(routines[j], guildRow)

ConfigTypes ==
  /\ routines = [j \in Jobs |-> routines[j]]
  /\ \A j \in Jobs : routines[j] # NoJob => ConfigTask(routines[j])
  /\ guildRow = [s \in Config!Settings |-> guildRow[s]]
  /\ DOMAIN promisedItems = Config!Lists \X Items

ConfigInv ==
  /\ ConfigTypes /\ CacheFits
  /\ \A j \in Jobs : routines[j] # NoJob /\ Guarded(routines[j]) => policyMu = j
  /\ \A j \in Jobs : InTime(j)
  /\ Config!EditsStay

LEMMA ConfigTaskIs ==
  ASSUME ConfigInv, NEW j \in Jobs, routines[j] # NoJob
  PROVE  /\ ConfigTask(routines[j]) /\ IsTask(routines[j])
         /\ j \in DOMAIN routines /\ CacheFits
BY DEF ConfigInv, ConfigTypes, ConfigTask

LEMMA ConfigGoesTo ==
  ASSUME NEW j \in Jobs, NEW step, Config!Goes(j, step)
  PROVE  routines' = [routines EXCEPT ![j] = IF step = "done" THEN NoJob ELSE To(routines[j], step)]
BY DEF Config!Goes, To

LEMMA ConfigBlank == IsTask(Config!Blank)
BY DEF IsTask, Fields, Config!Blank

LEMMA RowIsSome == ASSUME ConfigInv, ConfigAssumed PROVE guildRow # Nothing
BY DEF ConfigInv, ConfigTypes, ConfigAssumed, NothingIsNoRow

\* The mutex stays with whoever edits a list, and j has it if it does.
MutexFits(j, r) ==
  /\ \A k \in Jobs \ {j} : policyMu = k => policyMu' = k
  /\ r # NoJob /\ Guarded(r) => policyMu' = j

\* A step of j: what has to be shown of it.
LEMMA CommandStep ==
  ASSUME ConfigInv, ConfigAssumed, NEW j \in Jobs, NEW r, routines' = [routines EXCEPT ![j] = r],
         r # NoJob => ConfigTask(r), MutexFits(j, r),
         guildRow' = [s \in Config!Settings |-> guildRow'[s]],
         DOMAIN promisedItems' = Config!Lists \X Items,
         CacheFits', \A k \in Jobs : InTime(k)', Config!EditsStay'
  PROVE  ConfigInv'
<1>1. /\ routines' = [k \in Jobs |-> routines'[k]] /\ routines'[j] = r
      /\ \A k \in Jobs \ {j} : routines'[k] = routines[k]
  BY DEF ConfigInv, ConfigTypes
<1>2. ConfigTypes'
  BY <1>1 DEF ConfigInv, ConfigTypes
<1>3. ASSUME NEW k \in Jobs, routines'[k] # NoJob, Guarded(routines'[k]) PROVE policyMu' = k
  BY <1>1, <1>3 DEF ConfigInv, MutexFits
<1> QED BY <1>2, <1>3 DEF ConfigInv, Guarded

\* A step that leaves the row alone.
LEMMA SameRow ==
  ASSUME ConfigInv, ConfigAssumed, NEW j \in Jobs, NEW r, routines' = [routines EXCEPT ![j] = r],
         r # NoJob => ConfigTask(r), MutexFits(j, r), UNCHANGED <<guildRow, promisedItems>>,
         overlappedBy \ {j} \subseteq overlappedBy', CacheFits',
         r # NoJob /\ j \notin overlappedBy' => EditIsOfRow(r, guildRow) /\ SetupIsOfRow(r, guildRow)
  PROVE  ConfigInv'
<1>1. /\ routines'[j] = r /\ \A k \in Jobs \ {j} : routines'[k] = routines[k]
  BY DEF ConfigInv, ConfigTypes
<1>2. ASSUME NEW k \in Jobs PROVE InTime(k)'
  <2>1. CASE k = j
    BY <1>1, <2>1 DEF InTime, EditIsOfRow, SetupIsOfRow
  <2>2. CASE k # j
    <3>1. InTime(k)
      BY DEF ConfigInv
    <3> QED BY <1>1, <2>2, <3>1 DEF InTime, EditIsOfRow, SetupIsOfRow
  <2> QED BY <2>1, <2>2
<1>3. Config!EditsStay'
  BY DEF ConfigInv, Config!EditsStay
<1> QED BY <1>2, <1>3, CommandStep DEF ConfigInv, ConfigTypes

\* A step that leaves the row and the cache alone.
LEMMA QuietConfig ==
  ASSUME ConfigInv, ConfigAssumed, NEW j \in Jobs, NEW r, routines' = [routines EXCEPT ![j] = r],
         r # NoJob => ConfigTask(r), MutexFits(j, r),
         UNCHANGED <<guildRow, configCache, cacheRaced, promisedItems>>,
         overlappedBy \ {j} \subseteq overlappedBy', ~AtStep(j, "invalidate"),
         r # NoJob /\ r.step = "fill" => r.seen = guildRow,
         r # NoJob /\ j \notin overlappedBy' => EditIsOfRow(r, guildRow) /\ SetupIsOfRow(r, guildRow)
  PROVE  ConfigInv'
<1>1. j \in DOMAIN routines /\ CacheFits
  BY DEF ConfigInv, ConfigTypes
<1>2. CacheFits'
  BY <1>1, QuietFits
<1> QED BY <1>2, SameRow

-----------------------------------------------------------------------------
\* The commands begin.
LEMMA ConfigBegins ==
  ASSUME ConfigInv, ConfigAssumed, NEW j \in Jobs, NEW r, Config!Start(j, r), ConfigTask(r),
         MutexFits(j, r), r.step # "fill",
         UNCHANGED <<guildRow, configCache, cacheRaced, promisedItems, overlappedBy>>,
         EditIsOfRow(r, guildRow), SetupIsOfRow(r, guildRow)
  PROVE  ConfigInv'
<1>1. routines' = [routines EXCEPT ![j] = r] /\ routines[j] = NoJob
  BY DEF Config!Start, Config!Free
<1> QED BY <1>1, QuietConfig DEF AtStep

LEMMA ConfigReads ==
  ASSUME ConfigInv, ConfigAssumed, NEW j \in Jobs, Config!Read(j) PROVE ConfigInv'
<1> DEFINE r == [Config!Blank EXCEPT !.step = "get"]
<1>1. IsTask(r) /\ r.step = "get" /\ r.how = Nothing /\ r.then = "done" /\ r.rest = << >>
  BY DEF IsTask, Fields, Config!Blank
<1>2. /\ Config!Start(j, r) /\ UNCHANGED policyMu
      /\ UNCHANGED <<guildRow, configCache, cacheRaced, promisedItems, overlappedBy>>
  BY DEF Config!Read, Config!configVars
<1> HIDE DEF r
<1>3. ConfigTask(r) /\ ~Guarded(r)
  BY <1>1 DEF ConfigTask, Look, Guarded, Written, ConfigAssumed
<1>4. EditIsOfRow(r, guildRow) /\ SetupIsOfRow(r, guildRow) /\ MutexFits(j, r)
  BY <1>1, <1>2, <1>3 DEF Written, EditIsOfRow, SetupIsOfRow, MutexFits
<1> QED BY <1>1, <1>2, <1>3, <1>4, ConfigBegins

\* The commands are five different ones.
LEMMA CommandsDiffer ==
  /\ \A c \in {Catalogue!Prefix, Catalogue!VoiceSetup} :
       c \notin {Catalogue!BlacklistUser, Catalogue!BlacklistClear, Catalogue!Setup}
  /\ Catalogue!BlacklistUser \notin {Catalogue!BlacklistClear, Catalogue!Setup}
  /\ Catalogue!BlacklistClear # Catalogue!Setup
BY WrittenAre DEF Shape

LEMMA ConfigSets ==
  ASSUME ConfigInv, ConfigAssumed, NEW j \in Jobs, NEW c \in Written, Config!Set(j, c)
  PROVE  ConfigInv'
<1>0. /\ c \in {Catalogue!Prefix, Catalogue!VoiceSetup} /\ c.synced = FALSE /\ c.guarded = FALSE
      /\ c.writes \in {<<{"prefix"}>>, <<{"voicemaster_trigger_channel_id"}, Voice>>}
  BY WrittenAre DEF Shape, Config!Set, Written
<1>1. PICK value \in {0, s7 + 1} :
        Config!Start(j, [Config!Blank EXCEPT
                         !.step = Config!First(c, IF c.compares THEN "check" ELSE "write"),
                         !.then = "write", !.how = c, !.value = value,
                         !.updates = Config!NewUpdates(Head(c.writes), value),
                         !.rest = Tail(c.writes)])
  BY DEF Config!Set
<1> DEFINE step == Config!First(c, IF c.compares THEN "check" ELSE "write")
           u == Config!NewUpdates(Head(c.writes), value)
           rest == Tail(c.writes)
<1>2. step \in {"check", "write"}
  BY <1>0 DEF Config!First
<1>3. Head(c.writes) \in {{"prefix"}, {"voicemaster_trigger_channel_id"}} /\ rest \in {<< >>, <<Voice>>}
  <2>1. CASE c.writes = <<{"prefix"}>>
    <3>1. Head(<<{"prefix"}>>) = {"prefix"} /\ Tail(<<{"prefix"}>>) = << >>
      OBVIOUS
    <3> QED BY <2>1, <3>1
  <2>2. CASE c.writes = <<{"voicemaster_trigger_channel_id"}, Voice>>
    <3> DEFINE x == {"voicemaster_trigger_channel_id"}
    <3> HIDE DEF x
    <3>1. Head(<<x, Voice>>) = x /\ Tail(<<x, Voice>>) = <<Voice>>
      OBVIOUS
    <3> QED BY <2>2, <3>1 DEF x
  <2> QED BY <1>0, <2>1, <2>2
<1>4. Listed \notin DOMAIN u
  BY <1>3 DEF Config!NewUpdates, Listed
<1> HIDE DEF step, u, rest
<1> DEFINE r == [Config!Blank EXCEPT !.step = step, !.then = "write", !.how = c, !.value = value,
                                     !.updates = u, !.rest = rest]
<1>5. /\ IsTask(r) /\ r.step = step /\ r.then = "write" /\ r.how = c /\ r.updates = u
      /\ r.rest = rest
  BY DEF IsTask, Fields, Config!Blank
<1>6. Config!Start(j, r)
  BY <1>1 DEF step, u, rest
<1> HIDE DEF r
<1>7. ConfigTask(r)
  BY <1>0, <1>2, <1>3, <1>4, <1>5 DEF ConfigTask, Scalar
<1>8. UNCHANGED <<guildRow, configCache, cacheRaced, promisedItems, overlappedBy, policyMu>>
  BY <1>0 DEF Config!Set, Config!Locks
<1>9. EditIsOfRow(r, guildRow) /\ SetupIsOfRow(r, guildRow) /\ MutexFits(j, r)
  BY <1>0, <1>5, <1>8, CommandsDiffer DEF EditIsOfRow, SetupIsOfRow, MutexFits, Guarded
<1> QED BY <1>2, <1>5, <1>6, <1>7, <1>8, <1>9, ConfigBegins

\* A guarded command waits for the mutex.
LEMMA LockIsTaken ==
  ASSUME ConfigAssumed, NEW j \in Jobs, NEW c, c.guarded = TRUE, Config!Locks(j, c), NEW r
  PROVE  MutexFits(j, r)
BY DEF Config!Locks, MutexFits, ConfigAssumed

LEMMA ConfigEdits ==
  ASSUME ConfigInv, ConfigAssumed, NEW j \in Jobs, NEW c \in Written,
         NEW edit, NEW i \in Items, Config!Edit(j, c, edit, i)
  PROVE  ConfigInv'
<1>0. c = Catalogue!BlacklistUser /\ c.synced = FALSE /\ c.guarded = TRUE
  BY WrittenAre DEF Shape, Config!Edit, Written
<1> DEFINE r == [Config!Blank EXCEPT !.step = "list", !.then = "list", !.how = c, !.edit = edit,
                                     !.item = i]
<1>1. /\ IsTask(r) /\ r.step = "list" /\ r.how = c /\ r.item = i /\ r.rest = << >>
  BY DEF IsTask, Fields, Config!Blank
<1>2. Config!Start(j, r)
  BY <1>0 DEF Config!Edit, Config!First
<1> HIDE DEF r
<1>3. ConfigTask(r)
  BY <1>0, <1>1 DEF ConfigTask, Edited
<1>4. UNCHANGED <<guildRow, configCache, cacheRaced, promisedItems, overlappedBy>>
  BY DEF Config!Edit
<1>5. MutexFits(j, r)
  BY <1>0, LockIsTaken DEF Config!Edit
<1>6. EditIsOfRow(r, guildRow) /\ SetupIsOfRow(r, guildRow)
  BY <1>0, <1>1, CommandsDiffer DEF EditIsOfRow, SetupIsOfRow
<1> QED BY <1>1, <1>2, <1>3, <1>4, <1>5, <1>6, ConfigBegins

LEMMA ConfigClears ==
  ASSUME ConfigInv, ConfigAssumed, NEW j \in Jobs, NEW c \in Written, Config!Clear(j, c)
  PROVE  ConfigInv'
<1>0. /\ c = Catalogue!BlacklistClear /\ c.guarded = TRUE
      /\ c.writes[1] = {Listed, "blacklisted_roles", "blacklisted_channels"}
  BY WrittenAre DEF Shape, Config!Clear, Written
<1> DEFINE u == Config!NewUpdates(c.writes[1], {})
<1>1. DOMAIN u = {Listed} /\ u[Listed] = {}
  <2>1. c.writes[1] \cap Config!Settings = {Listed}
    BY <1>0, ListsAre DEF Voice, Listed
  <2> QED BY <2>1 DEF Config!NewUpdates
<1> HIDE DEF u
<1> DEFINE r == [Config!Blank EXCEPT !.step = "write", !.how = c, !.updates = u]
<1>2. /\ IsTask(r) /\ r.step = "write" /\ r.how = c /\ r.item = Nothing /\ r.rest = << >>
      /\ r.updates = u
  BY DEF IsTask, Fields, Config!Blank
<1>3. Config!Start(j, r)
  BY DEF Config!Clear, u
<1> HIDE DEF r
<1>4. ConfigTask(r)
  BY <1>0, <1>1, <1>2 DEF ConfigTask, Cleared
<1>5. UNCHANGED <<guildRow, configCache, cacheRaced, promisedItems, overlappedBy>>
  BY DEF Config!Clear
<1>6. MutexFits(j, r)
  BY <1>0, LockIsTaken DEF Config!Clear
<1>7. EditIsOfRow(r, guildRow) /\ SetupIsOfRow(r, guildRow)
  BY <1>0, <1>2, CommandsDiffer DEF EditIsOfRow, SetupIsOfRow
<1> QED BY <1>2, <1>3, <1>4, <1>5, <1>6, <1>7, ConfigBegins

LEMMA SetupBegins ==
  ASSUME ConfigInv, ConfigAssumed, NEW j \in Jobs, NEW c \in Written,
         Config!AcquireSetupLock(j, c)
  PROVE  ConfigInv'
<1>0. c = Catalogue!Setup
  BY WrittenAre DEF Shape, Config!AcquireSetupLock, Written
<1> DEFINE r == [Config!Blank EXCEPT !.step = "get", !.then = "stage", !.how = c, !.item = {},
                                     !.value = s7 + 1]
<1>1. IsTask(r) /\ r.step = "get" /\ r.then = "stage" /\ r.how = c /\ r.rest = << >>
  BY DEF IsTask, Fields, Config!Blank
<1>2. /\ Config!Start(j, r) /\ UNCHANGED policyMu
      /\ UNCHANGED <<guildRow, configCache, cacheRaced, promisedItems, overlappedBy>>
  BY DEF Config!AcquireSetupLock
<1> HIDE DEF r
<1>3. ConfigTask(r)
  BY <1>0, <1>1 DEF ConfigTask, Staged
<1>4. EditIsOfRow(r, guildRow) /\ SetupIsOfRow(r, guildRow) /\ MutexFits(j, r)
  BY <1>0, <1>1, <1>2, CommandsDiffer DEF EditIsOfRow, SetupIsOfRow, MutexFits, Guarded
<1> QED BY <1>1, <1>2, <1>3, <1>4, ConfigBegins

\* The bot leaves the guild.
LEMMA ConfigLeft ==
  ASSUME ConfigInv, ConfigAssumed, NEW j \in Jobs, Config!LeaveGuild(j) PROVE ConfigInv'
<1> DEFINE r == [Config!Blank EXCEPT !.step = "invalidate"]
<1>1. IsTask(r) /\ r.step = "invalidate" /\ r.how = Nothing /\ r.rest = << >>
  BY DEF IsTask, Fields, Config!Blank
<1>2. routines' = [routines EXCEPT ![j] = r] /\ routines[j] = NoJob
  BY DEF Config!LeaveGuild, Config!Start, Config!Free
<1>3. /\ guildRow' = Config!Defaults /\ UNCHANGED policyMu
      /\ promisedItems' = [p \in DOMAIN promisedItems |-> FALSE]
      /\ overlappedBy' = overlappedBy \cup Config!Informed
                           \cup {k \in DOMAIN routines : Config!At(k, "write")}
  BY DEF Config!LeaveGuild
<1> HIDE DEF r
<1>4. ConfigTask(r) /\ r # NoJob /\ ~Guarded(r)
  BY <1>1 DEF ConfigTask, Left, Guarded, ConfigAssumed, IdleIsNoTask, Written
<1>5. /\ routines'[j] = r /\ \A k \in Jobs \ {j} : routines'[k] = routines[k]
      /\ DOMAIN routines = Jobs /\ CacheFits
  BY <1>2 DEF ConfigInv, ConfigTypes
<1>6. CacheFits'
  <2>1. \A k \in DOMAIN routines \ {j} :
          k \in overlappedBy \/ (routines[k] # NoJob /\ routines[k].seen # Nothing)
            => k \in overlappedBy'
    BY <1>3 DEF Config!Informed
  <2> QED BY <1>1, <1>2, <1>4, <1>5, <2>1, WrittenFits
<1>7. ASSUME NEW k \in Jobs PROVE InTime(k)'
  <2>1. CASE k = j
    BY <1>1, <1>5, <2>1 DEF InTime, EditIsOfRow, SetupIsOfRow, ConfigAssumed, Written
  <2>2. CASE k # j /\ routines[k] # NoJob
    <3>1. ConfigTask(routines[k]) /\ routines'[k] = routines[k]
      BY <1>5, <2>2 DEF ConfigInv, ConfigTypes
    <3>2. routines[k].seen # Nothing \/ routines[k].step = "write" => k \in overlappedBy'
      BY <1>3, <1>5, <2>2 DEF Config!Informed, Config!At
    <3>3. EditIsOfRow(routines[k], guildRow') \/ routines[k].step = "write"
      BY DEF EditIsOfRow
    <3>4. SetupIsOfRow(routines[k], guildRow') \/ routines[k].seen # Nothing
      BY <3>1, CommandsDiffer DEF SetupIsOfRow, ConfigTask, Look, Left, Edited, Cleared, Staged, Scalar,
        ConfigAssumed, Written
    <3> QED BY <3>1, <3>2, <3>3, <3>4 DEF InTime
  <2>3. CASE k # j /\ routines[k] = NoJob
    BY <1>5, <2>3 DEF InTime
  <2> QED BY <2>1, <2>2, <2>3
<1>8. Config!EditsStay'
  <2>1. ASSUME NEW i \in Items PROVE i \notin guildRow'[Listed] /\ promisedItems'[<<Listed, i>>] = FALSE
    <3>1. guildRow'[Listed] = {}
      BY <1>3, ListsAre DEF Config!Defaults
    <3>2. <<Listed, i>> \in DOMAIN promisedItems
      BY ListsAre DEF ConfigInv, ConfigTypes
    <3> QED BY <1>3, <3>1, <3>2
  <2>2. SUFFICES ASSUME NEW l \in Config!GuardedLists, NEW i \in Items
                 PROVE  (i \in guildRow'[l]) = promisedItems'[<<l, i>>]
    BY DEF Config!EditsStay
  <2>3. l = Listed
    BY <2>2, ListsAre
  <2> DEFINE listed == i \in guildRow'[l]
             said == promisedItems'[<<l, i>>]
  <2>4. ~listed /\ said = FALSE
    BY <2>1, <2>3
  <2>5. listed = FALSE
    BY <2>4
  <2> QED BY <2>4, <2>5
<1>9. MutexFits(j, r)
  BY <1>3, <1>4 DEF MutexFits
<1>10. /\ guildRow' = [s \in Config!Settings |-> guildRow'[s]]
       /\ DOMAIN promisedItems' = Config!Lists \X Items
  BY <1>3 DEF Config!Defaults, ConfigInv, ConfigTypes
<1> QED BY <1>2, <1>4, <1>6, <1>7, <1>8, <1>9, <1>10, CommandStep

-----------------------------------------------------------------------------
\* The commands go on.
LEMMA MutexStays ==
  ASSUME ConfigInv, NEW j \in Jobs, NEW r, UNCHANGED policyMu,
         r # NoJob /\ Guarded(r) => routines[j] # NoJob /\ Guarded(routines[j])
  PROVE  MutexFits(j, r)
BY DEF ConfigInv, MutexFits

LEMMA MutexEnds ==
  ASSUME NEW j \in Jobs, policyMu' = Config!Unlocked(j) PROVE MutexFits(j, NoJob)
BY DEF MutexFits, Config!Unlocked

\* A command ends and leaves the cache alone.
LEMMA ConfigEnds ==
  ASSUME ConfigInv, ConfigAssumed, NEW j \in Jobs, routines' = [routines EXCEPT ![j] = NoJob],
         MutexFits(j, NoJob), UNCHANGED <<guildRow, configCache, cacheRaced, promisedItems>>,
         overlappedBy \ {j} \subseteq overlappedBy', ~AtStep(j, "invalidate")
  PROVE  ConfigInv'
BY QuietConfig

LEMMA ConfigAbandons ==
  ASSUME ConfigInv, ConfigAssumed, NEW j \in Jobs, Config!Abandon(j), ~AtStep(j, "invalidate")
  PROVE  ConfigInv'
<1>1. /\ routines' = [routines EXCEPT ![j] = NoJob] /\ policyMu' = Config!Unlocked(j)
      /\ UNCHANGED <<guildRow, configCache, cacheRaced, promisedItems>>
      /\ overlappedBy \ {j} \subseteq overlappedBy'
  BY DEF Config!Abandon, Config!Goes, Config!Frees
<1> QED BY <1>1, MutexEnds, ConfigEnds

LEMMA NothingGuards ==
  ASSUME ConfigAssumed, NEW r, r.how \in {Nothing, Catalogue!Prefix, Catalogue!VoiceSetup, Catalogue!Setup}
  PROVE  ~Guarded(r)
BY CommandsDiffer DEF Guarded, ConfigAssumed, Written

\* Whose turn it is, by the step.
LEMMA WhoIsAt ==
  ASSUME ConfigInv, NEW j \in Jobs, NEW step, Config!At(j, step)
  PROVE  /\ routines[j] # NoJob /\ routines[j].step = step /\ AtStep(j, step)
         /\ ConfigTask(routines[j]) /\ IsTask(routines[j]) /\ j \in DOMAIN routines /\ CacheFits
         /\ step # "invalidate" => ~AtStep(j, "invalidate")
         /\ step \in {"get", "query", "fill"} => Look(routines[j]) \/ Staged(routines[j])
         /\ step = "check" => Scalar(routines[j])
         /\ step = "list" => Edited(routines[j])
         /\ step = "stage" => Staged(routines[j])
         /\ step \notin {"check", "write", "invalidate"} => routines[j].rest = << >>
<1>1. /\ routines[j] # NoJob /\ routines[j].step = step
  BY DEF Config!At
<1> QED BY <1>1, ConfigTaskIs DEF AtStep, ConfigTask, Look, Left, Scalar, Edited, Cleared, Staged

LEMMA SetupGoesOn ==
  ASSUME ConfigInv, NEW j \in Jobs, NEW r, IsTask(r), r.how = Catalogue!Setup, r.then = "stage",
         r.step \in {"get", "query", "fill", "stage"}, r.rest = << >>,
         r.step \in {"fill", "stage"} => r.seen # Nothing, UNCHANGED policyMu, ConfigAssumed
  PROVE  ConfigTask(r) /\ MutexFits(j, r)
<1>1. ~Guarded(r)
  BY NothingGuards
<1> QED BY <1>1, MutexStays DEF ConfigTask, Staged

LEMMA ConfigHits ==
  ASSUME ConfigInv, ConfigAssumed, NEW j \in Jobs, Config!Hit(j) PROVE ConfigInv'
<1> DEFINE t == routines[j]
           r == [t EXCEPT !.step = t.then, !.seen = configCache]
<1>1. Config!At(j, "get") /\ configCache # Nothing
  BY DEF Config!Hit
<1>2. /\ IsTask(t) /\ t.rest = << >> /\ ~AtStep(j, "invalidate")
      /\ Look(t) \/ Staged(t)
  BY <1>1, WhoIsAt
<1>3. /\ UNCHANGED <<guildRow, configCache, cacheRaced, promisedItems, policyMu>>
      /\ overlappedBy \ {j} \subseteq overlappedBy'
  BY DEF Config!Hit
<1>4. CASE Look(t)
  <2>1. routines' = [routines EXCEPT ![j] = NoJob]
    BY <1>4 DEF Config!Hit, Look
  <2>2. MutexFits(j, NoJob)
    BY <1>3, MutexStays
  <2> QED BY <1>2, <1>3, <2>1, <2>2, ConfigEnds
<1>5. CASE Staged(t)
  <2>1. routines' = [routines EXCEPT ![j] = r]
    BY <1>5 DEF Config!Hit, Staged
  <2>2. /\ IsTask(r) /\ r.step = "stage" /\ r.then = "stage" /\ r.how = Catalogue!Setup
        /\ r.seen = configCache /\ r.rest = t.rest
    BY <1>2, <1>5 DEF IsTask, Fields, Staged
  <2> HIDE DEF r
  <2>4. ConfigTask(r) /\ MutexFits(j, r)
    BY <1>1, <1>2, <1>3, <2>2, SetupGoesOn
  <2>5. ASSUME j \notin overlappedBy' PROVE configCache = guildRow
    BY <1>5, <2>5 DEF Config!Hit, Staged
  <2>6. j \notin overlappedBy' => EditIsOfRow(r, guildRow) /\ SetupIsOfRow(r, guildRow)
    BY <2>2, <2>5, CommandsDiffer DEF EditIsOfRow, SetupIsOfRow
  <2> QED BY <1>2, <1>3, <2>1, <2>2, <2>4, <2>6, QuietConfig
<1> QED BY <1>2, <1>4, <1>5

LEMMA ConfigMisses ==
  ASSUME ConfigInv, ConfigAssumed, NEW j \in Jobs, Config!Miss(j) PROVE ConfigInv'
<1> DEFINE t == routines[j]
           r == To(t, "query")
<1>1. Config!At(j, "get") /\ Config!Goes(j, "query")
  BY DEF Config!Miss
<1>2. /\ IsTask(t) /\ t.rest = << >> /\ ~AtStep(j, "invalidate")
      /\ Look(t) \/ Staged(t)
  BY <1>1, WhoIsAt
<1>3. /\ UNCHANGED <<guildRow, configCache, cacheRaced, promisedItems, policyMu, overlappedBy>>
  BY DEF Config!Miss, Config!configVars
<1>4. routines' = [routines EXCEPT ![j] = r] /\ IsTask(t)
  BY <1>1, ConfigGoesTo, WhoIsAt
<1>5. /\ IsTask(r) /\ r.step = "query" /\ r.how = t.how /\ r.then = t.then /\ r.rest = t.rest
  BY <1>4, ToIs DEF Fields
<1> HIDE DEF r
<1>6. ConfigTask(r) /\ MutexFits(j, r)
  <2>1. CASE Staged(t)
    BY <1>2, <1>3, <1>5, <2>1, SetupGoesOn DEF Staged
  <2>2. CASE Look(t)
    <3>1. ~Guarded(r)
      BY <1>5, <2>2, NothingGuards DEF Look
    <3>2. ConfigTask(r)
      BY <1>2, <1>5, <2>2 DEF ConfigTask, Look
    <3> QED BY <1>3, <3>1, <3>2, MutexStays
  <2> QED BY <1>2, <2>1, <2>2
<1>7. EditIsOfRow(r, guildRow) /\ SetupIsOfRow(r, guildRow)
  BY <1>5 DEF EditIsOfRow, SetupIsOfRow
<1> QED BY <1>2, <1>3, <1>4, <1>5, <1>6, <1>7, QuietConfig

LEMMA ConfigQueries ==
  ASSUME ConfigInv, ConfigAssumed, NEW j \in Jobs, Config!Query(j) PROVE ConfigInv'
<1> DEFINE t == routines[j]
           next == IF s2 THEN "fill" ELSE t.then
           r == [t EXCEPT !.step = next, !.seen = guildRow]
<1>1. Config!At(j, "query")
  BY DEF Config!Query
<1>2. /\ IsTask(t) /\ t.rest = << >> /\ ~AtStep(j, "invalidate")
      /\ Look(t) \/ Staged(t)
  BY <1>1, WhoIsAt
<1>3. /\ UNCHANGED <<guildRow, configCache, cacheRaced, promisedItems, policyMu>>
      /\ overlappedBy \ {j} \subseteq overlappedBy'
      /\ routines' = [routines EXCEPT ![j] = IF next = "done" THEN NoJob ELSE r]
  BY DEF Config!Query
<1>4. next \in {"fill", t.then}
  OBVIOUS
<1> HIDE DEF next
<1>5. CASE next = "done"
  <2>1. MutexFits(j, NoJob)
    BY <1>3, MutexStays
  <2> QED BY <1>2, <1>3, <1>5, <2>1, ConfigEnds
<1>6. CASE next # "done"
  <2>1. /\ IsTask(r) /\ r.step = next /\ r.then = t.then /\ r.how = t.how
        /\ r.seen = guildRow /\ r.rest = << >>
    BY <1>2 DEF IsTask, Fields
  <2> HIDE DEF r
  <2>2. ConfigTask(r) /\ MutexFits(j, r)
    <3>1. CASE Staged(t)
      BY <1>3, <1>4, <1>6, <2>1, <3>1, RowIsSome, SetupGoesOn DEF Staged
    <3>2. CASE Look(t)
      <4>1. ~Guarded(r)
        BY <2>1, <3>2, NothingGuards DEF Look
      <4>2. ConfigTask(r)
        BY <1>4, <1>6, <2>1, <3>2 DEF ConfigTask, Look
      <4> QED BY <1>3, <4>1, <4>2, MutexStays
    <3> QED BY <1>2, <3>1, <3>2
  <2>3. EditIsOfRow(r, guildRow) /\ SetupIsOfRow(r, guildRow)
    <3>1. next # "write"
      BY <1>2, <1>4 DEF Look, Staged
    <3> QED BY <2>1, <3>1 DEF EditIsOfRow, SetupIsOfRow
  <2> QED BY <1>2, <1>3, <1>6, <2>1, <2>2, <2>3, QuietConfig
<1> QED BY <1>5, <1>6

LEMMA ConfigFills ==
  ASSUME ConfigInv, ConfigAssumed, NEW j \in Jobs, Config!Fill(j) PROVE ConfigInv'
<1> DEFINE t == routines[j]
           r == IF t.then = "done" THEN NoJob ELSE To(t, t.then)
<1>1. Config!At(j, "fill") /\ Config!Goes(j, t.then)
  BY DEF Config!Fill
<1>2. /\ IsTask(t) /\ t.rest = << >> /\ AtStep(j, "fill") /\ CacheFits /\ j \in DOMAIN routines
      /\ Look(t) \/ Staged(t)
  BY <1>1, WhoIsAt
<1>3. /\ UNCHANGED <<guildRow, promisedItems, policyMu>>
      /\ configCache' = t.seen /\ cacheRaced' = (j \in overlappedBy)
      /\ overlappedBy \ {j} \subseteq overlappedBy'
      /\ t.then # "done" => overlappedBy' = overlappedBy
  BY DEF Config!Fill
<1>4. routines' = [routines EXCEPT ![j] = r]
  BY <1>1, ConfigGoesTo
<1>5. CASE Look(t)
  <2>1. r = NoJob
    BY <1>5 DEF Look
  <2> HIDE DEF r
  <2>2. MutexFits(j, r)
    BY <1>3, <2>1, MutexStays
  <2>3. CacheFits'
    BY <1>2, <1>3, <1>4, <2>1, FilledFits
  <2> QED BY <1>3, <1>4, <2>1, <2>2, <2>3, SameRow
<1>6. CASE Staged(t)
  <2>1. r = To(t, "stage")
    BY <1>6 DEF Staged
  <2> HIDE DEF r
  <2>2. /\ IsTask(r) /\ r.step = "stage" /\ r.then = t.then /\ r.how = t.how
        /\ r.seen = t.seen /\ r.item = t.item /\ r.rest = t.rest
    BY <1>2, <2>1, ToIs DEF Fields
  <2>3. t.how = Catalogue!Setup /\ t.then = "stage" /\ t.seen # Nothing /\ t.step = "fill"
    BY <1>2, <1>6 DEF Staged, AtStep
  <2>4. ConfigTask(r) /\ MutexFits(j, r)
    BY <1>2, <1>3, <2>2, <2>3, SetupGoesOn
  <2>5. CacheFits'
    BY <1>2, <1>3, <1>4, <2>2, FilledFits
  <2>6. ASSUME j \notin overlappedBy' PROVE EditIsOfRow(r, guildRow) /\ SetupIsOfRow(r, guildRow)
    <3>1. j \notin overlappedBy
      BY <1>3, <2>3, <2>6
    <3>2. SetupIsOfRow(t, guildRow)
      BY <1>2, <3>1 DEF ConfigInv, InTime, AtStep
    <3> QED BY <2>2, <2>3, <3>2 DEF EditIsOfRow, SetupIsOfRow
  <2> QED BY <1>3, <1>4, <2>4, <2>5, <2>6, SameRow
<1> QED BY <1>2, <1>5, <1>6

LEMMA ConfigChecks ==
  ASSUME ConfigInv, ConfigAssumed, NEW j \in Jobs, Config!Check(j) PROVE ConfigInv'
<1> DEFINE t == routines[j]
           same == \A s \in DOMAIN t.updates : guildRow[s] = t.updates[s]
           r == To(t, "write")
<1>1. Config!At(j, "check") /\ Config!Goes(j, IF same THEN "done" ELSE "write")
  BY DEF Config!Check
<1> HIDE DEF same
<1>2. /\ IsTask(t) /\ ~AtStep(j, "invalidate") /\ Scalar(t)
  BY <1>1, WhoIsAt
<1>3. UNCHANGED <<guildRow, configCache, cacheRaced, promisedItems, policyMu, overlappedBy>>
  BY DEF Config!Check, Config!configVars
<1>4. CASE same
  <2>1. routines' = [routines EXCEPT ![j] = NoJob]
    BY <1>1, <1>4, ConfigGoesTo
  <2>2. MutexFits(j, NoJob)
    BY <1>3, MutexStays
  <2> QED BY <1>2, <1>3, <2>1, <2>2, ConfigEnds
<1>5. CASE ~same
  <2>1. routines' = [routines EXCEPT ![j] = r]
    BY <1>1, <1>5, ConfigGoesTo
  <2>2. /\ IsTask(r) /\ r.step = "write" /\ r.how = t.how /\ r.updates = t.updates
        /\ r.rest = t.rest
    BY <1>2, ToIs DEF Fields
  <2> HIDE DEF r
  <2>3. ConfigTask(r)
    BY <1>2, <2>2 DEF ConfigTask, Scalar
  <2>4. MutexFits(j, r)
    BY <1>2, <1>3, <2>2, MutexStays, NothingGuards DEF Scalar
  <2>5. EditIsOfRow(r, guildRow) /\ SetupIsOfRow(r, guildRow)
    BY <1>2, <2>2, CommandsDiffer DEF EditIsOfRow, SetupIsOfRow, Scalar
  <2> QED BY <1>2, <1>3, <2>1, <2>2, <2>3, <2>4, <2>5, QuietConfig
<1> QED BY <1>4, <1>5

\* What an edit makes of the list.
EditedList(t) ==
  LET l == CHOOSE s \in t.how.writes[1] : TRUE
      adds == IF t.how.kind = "toggle" THEN t.item \notin guildRow[l] ELSE t.edit = "add"
      edited == IF adds THEN guildRow[l] \cup {t.item} ELSE guildRow[l] \ {t.item} IN
  [s \in {l} |-> edited]

LEMMA EditedListIs ==
  ASSUME NEW t, Edited(t)
  PROVE  /\ DOMAIN EditedList(t) = {Listed}
         /\ EditedList(t)[Listed] = IF t.edit = "add" THEN guildRow[Listed] \cup {t.item}
                                    ELSE guildRow[Listed] \ {t.item}
<1>1. t.how.kind = "edit" /\ t.how.writes[1] = {Listed}
  BY WrittenAre DEF Edited, Shape
<1>2. (CHOOSE s \in t.how.writes[1] : TRUE) = Listed
  BY <1>1
<1>3. EditedList(t) = [s \in {Listed} |-> IF t.edit = "add" THEN guildRow[Listed] \cup {t.item}
                                          ELSE guildRow[Listed] \ {t.item}]
  BY <1>1, <1>2 DEF EditedList
<1> QED BY <1>3

LEMMA ListIsRead ==
  ASSUME NEW j \in Jobs, Config!ReadList(j)
  PROVE  /\ Config!At(j, "list") /\ overlappedBy' = overlappedBy \ {j}
         /\ UNCHANGED <<guildRow, configCache, cacheRaced, promisedItems>>
         /\ \/ Config!Goes(j, "done") /\ policyMu' = Config!Unlocked(j)
            \/ /\ routines' = [routines EXCEPT ![j].step = "write", ![j].updates = EditedList(routines[j]),
                                               ![j].seen = Nothing]
               /\ UNCHANGED policyMu
BY DEF Config!ReadList, EditedList

LEMMA ConfigReadsList ==
  ASSUME ConfigInv, ConfigAssumed, NEW j \in Jobs, Config!ReadList(j) PROVE ConfigInv'
<1> DEFINE t == routines[j]
           u == EditedList(t)
           r == [t EXCEPT !.step = "write", !.updates = u, !.seen = Nothing]
<1>1. /\ Config!At(j, "list") /\ overlappedBy' = overlappedBy \ {j}
      /\ UNCHANGED <<guildRow, configCache, cacheRaced, promisedItems>>
  BY ListIsRead
<1>2. /\ IsTask(t) /\ t.rest = << >> /\ ~AtStep(j, "invalidate") /\ Edited(t) /\ j \in DOMAIN routines
      /\ t # NoJob
  BY <1>1, WhoIsAt
<1>3. CASE Config!Goes(j, "done") /\ policyMu' = Config!Unlocked(j)
  <2>1. routines' = [routines EXCEPT ![j] = NoJob] /\ MutexFits(j, NoJob)
    BY <1>3, ConfigGoesTo, MutexEnds
  <2> QED BY <1>1, <1>2, <2>1, ConfigEnds
<1>4. CASE /\ routines' = [routines EXCEPT ![j].step = "write", ![j].updates = u, ![j].seen = Nothing]
           /\ UNCHANGED policyMu
  <2>1. DOMAIN u = {Listed} /\ u[Listed] = IF t.edit = "add" THEN guildRow[Listed] \cup {t.item}
                                           ELSE guildRow[Listed] \ {t.item}
    BY <1>2, EditedListIs
  <2> HIDE DEF u
  <2>2. routines' = [routines EXCEPT ![j] = r]
    BY <1>4, <1>2
  <2>3. /\ IsTask(r) /\ r.step = "write" /\ r.how = t.how /\ r.updates = u
        /\ r.item = t.item /\ r.edit = t.edit /\ r.rest = << >>
    BY <1>2 DEF IsTask, Fields
  <2> HIDE DEF r
  <2>4. ConfigTask(r)
    BY <1>2, <2>1, <2>3 DEF ConfigTask, Edited
  <2>5. MutexFits(j, r)
    BY <1>2, <1>4, <2>3, MutexStays DEF Guarded
  <2>6. EditIsOfRow(r, guildRow) /\ SetupIsOfRow(r, guildRow)
    BY <1>2, <2>1, <2>3, CommandsDiffer DEF EditIsOfRow, SetupIsOfRow, Edited
  <2> QED BY <1>1, <1>2, <2>2, <2>3, <2>4, <2>5, <2>6, QuietConfig
<1> QED BY <1>3, <1>4, ListIsRead

LEMMA ConfigReadFails ==
  ASSUME ConfigInv, ConfigAssumed, NEW j \in Jobs,
         Config!QueryFails(j) \/ Config!ReadListFails(j) \/ Config!AbortWizard(j)
  PROVE  ConfigInv'
<1>1. PICK step \in {"query", "list", "stage"} : Config!At(j, step) /\ Config!Abandon(j)
  BY DEF Config!QueryFails, Config!ReadListFails, Config!AbortWizard
<1> QED BY <1>1, WhoIsAt, ConfigAbandons

-----------------------------------------------------------------------------
\* The setup dashboard.
LEMMA ConfigRuns ==
  ASSUME ConfigInv, ConfigAssumed, NEW j \in Jobs, Config!RunSubcommand(j) PROVE ConfigInv'
<1> DEFINE t == routines[j]
<1>1. PICK section \in Config!Sections, items \in SUBSET Items :
        \E chosen \in Config!AwaitComponentInteraction(section) :
          routines' = [routines EXCEPT
            ![j].seen = [s \in Config!Settings |->
              IF s \in chosen THEN Config!AwaitMessageOrButton(s, items, t.value) ELSE @[s]],
            ![j].item = @ \cup chosen]
  BY DEF Config!RunSubcommand
<1>2. PICK chosen \in Config!AwaitComponentInteraction(section) :
        routines' = [routines EXCEPT
          ![j].seen = [s \in Config!Settings |->
            IF s \in chosen THEN Config!AwaitMessageOrButton(s, items, t.value) ELSE @[s]],
          ![j].item = @ \cup chosen]
  BY <1>1
<1> DEFINE new == [s \in Config!Settings |->
             IF s \in chosen THEN Config!AwaitMessageOrButton(s, items, t.value) ELSE t.seen[s]]
           r == [t EXCEPT !.seen = new, !.item = t.item \cup chosen]
<1>3. Config!At(j, "stage") /\ UNCHANGED <<guildRow, configCache, cacheRaced, promisedItems, policyMu, overlappedBy>>
  BY DEF Config!RunSubcommand, Config!configVars
<1>4. /\ IsTask(t) /\ t.rest = << >> /\ ~AtStep(j, "invalidate") /\ Staged(t) /\ j \in DOMAIN routines
      /\ t # NoJob /\ t.step = "stage"
  BY <1>3, WhoIsAt
<1>5. t.how = Catalogue!Setup /\ t.then = "stage"
  BY <1>4 DEF Staged
<1>6. /\ new # Nothing
      /\ \A s \in Config!Settings \ chosen : new[s] = t.seen[s]
  BY DEF ConfigAssumed, NothingIsNoRow
<1>7. routines' = [routines EXCEPT ![j] = r]
  BY <1>2, <1>4 DEF IsTask, Fields
<1> HIDE DEF new
<1>8. /\ IsTask(r) /\ r.step = "stage" /\ r.then = t.then /\ r.how = t.how
      /\ r.seen = new /\ r.item = t.item \cup chosen /\ r.rest = << >>
  BY <1>4 DEF IsTask, Fields
<1> HIDE DEF r
<1>9. ConfigTask(r) /\ MutexFits(j, r)
  BY <1>3, <1>5, <1>6, <1>8, SetupGoesOn
<1>10. ASSUME j \notin overlappedBy PROVE EditIsOfRow(r, guildRow) /\ SetupIsOfRow(r, guildRow)
  <2>1. \A s \in Config!Settings \ t.item : t.seen[s] = guildRow[s]
    BY <1>4, <1>5, <1>10 DEF ConfigInv, InTime, SetupIsOfRow
  <2>2. \A s \in Config!Settings \ r.item : r.seen[s] = guildRow[s]
    BY <1>6, <1>8, <2>1
  <2> QED BY <1>8, <2>2 DEF EditIsOfRow, SetupIsOfRow
<1> QED BY <1>3, <1>4, <1>7, <1>8, <1>9, <1>10, QuietConfig

LEMMA ConfigSaves ==
  ASSUME ConfigInv, ConfigAssumed, NEW j \in Jobs, Config!Save(j) PROVE ConfigInv'
<1> DEFINE t == routines[j]
           columns == Config!Written({Config!Setup}) \cap Config!Settings
           u == [s \in columns |-> t.seen[s]]
           r == [t EXCEPT !.step = "write", !.updates = u]
<1>1. /\ Config!At(j, "stage")
      /\ UNCHANGED <<guildRow, configCache, cacheRaced, promisedItems, policyMu, overlappedBy>>
      /\ routines' = [routines EXCEPT ![j].step = "write", ![j].updates = u]
  BY DEF Config!Save, Config!configVars
<1>2. /\ IsTask(t) /\ t.rest = << >> /\ ~AtStep(j, "invalidate") /\ Staged(t) /\ j \in DOMAIN routines
      /\ t # NoJob /\ t.step = "stage"
  BY <1>1, WhoIsAt
<1>3. t.how = Catalogue!Setup /\ t.then = "stage" /\ t.seen # Nothing
  BY <1>2 DEF Staged
<1>4. Listed \notin columns
  <2>1. Config!Setup = Catalogue!Setup
    BY DEF Config!Setup, Catalogue!Setup, Config!Command, Catalogue!Command,
      Config!Sections, Catalogue!Sections, Config!ConfigureGeneral, Catalogue!ConfigureGeneral,
      Config!ConfigureLogs, Catalogue!ConfigureLogs, Config!ConfigureStarboard,
      Catalogue!ConfigureStarboard, Config!ConfigureWelcome, Catalogue!ConfigureWelcome,
      Config!ConfigureRoles, Catalogue!ConfigureRoles, Config!ConfigureVoice,
      Catalogue!ConfigureVoice, Config!ConfigureLeveling, Catalogue!ConfigureLeveling,
      Config!ConfigureSafeguards, Catalogue!ConfigureSafeguards
  <2>2. Config!Written({Catalogue!Setup}) = UNION Catalogue!Sections
    <3> DEFINE all == UNION Catalogue!Sections
    <3>1. Catalogue!Setup.writes = <<all>>
      BY WrittenAre DEF Shape
    <3> HIDE DEF all
    <3>2. Config!Written({Catalogue!Setup}) = all
      BY <3>1 DEF Config!Written
    <3> QED BY <3>2 DEF all
  <2> QED BY <2>1, <2>2, SetupLeavesLists
<1>5. routines' = [routines EXCEPT ![j] = r]
  BY <1>1, <1>2
<1>6. DOMAIN u = columns /\ columns \subseteq Config!Settings /\ \A s \in columns : u[s] = t.seen[s]
  OBVIOUS
<1> HIDE DEF u, columns
<1>7. /\ IsTask(r) /\ r.step = "write" /\ r.then = t.then /\ r.how = t.how
      /\ r.seen = t.seen /\ r.item = t.item /\ r.updates = u /\ r.rest = << >>
  BY <1>2 DEF IsTask, Fields
<1> HIDE DEF r
<1>8. ConfigTask(r)
  BY <1>3, <1>4, <1>6, <1>7 DEF ConfigTask, Staged
<1>9. MutexFits(j, r)
  BY <1>1, <1>3, <1>7, MutexStays, NothingGuards
<1>10. ASSUME j \notin overlappedBy PROVE EditIsOfRow(r, guildRow) /\ SetupIsOfRow(r, guildRow)
  <2>1. \A s \in Config!Settings \ t.item : t.seen[s] = guildRow[s]
    BY <1>2, <1>3, <1>10 DEF ConfigInv, InTime, SetupIsOfRow
  <2>2. \A s \in DOMAIN r.updates \ r.item : r.updates[s] = guildRow[s]
    BY <1>6, <1>7, <2>1
  <2> QED BY <1>3, <1>7, <2>2, CommandsDiffer DEF EditIsOfRow, SetupIsOfRow
<1> QED BY <1>1, <1>2, <1>5, <1>7, <1>8, <1>9, <1>10, QuietConfig

-----------------------------------------------------------------------------
\* Whoever writes to the guarded list holds the mutex, and is nobody else.
LEMMA WhatIsWritten ==
  ASSUME ConfigInv, ConfigAssumed, NEW j \in Jobs, Config!At(j, "write")
  PROVE  \/ Listed \notin DOMAIN routines[j].updates /\ ~Guarded(routines[j])
         \/ /\ Guarded(routines[j]) /\ DOMAIN routines[j].updates = {Listed}
            /\ Edited(routines[j]) \/ Cleared(routines[j])
<1> DEFINE t == routines[j]
<1>1. t # NoJob /\ t.step = "write" /\ ConfigTask(t)
  BY WhoIsAt
<1>2. ~Look(t) /\ ~Left(t)
  BY <1>1 DEF Look, Left
<1>3. CASE Scalar(t)
  BY <1>3, NothingGuards DEF Scalar
<1>4. CASE Staged(t)
  BY <1>1, <1>4, NothingGuards DEF Staged
<1>5. CASE Edited(t)
  BY <1>1, <1>5 DEF Edited, Guarded
<1>6. CASE Cleared(t)
  BY <1>1, <1>6 DEF Cleared, Guarded
<1> QED BY <1>1, <1>2, <1>3, <1>4, <1>5, <1>6 DEF ConfigTask

LEMMA ConfigWrites ==
  ASSUME ConfigInv, ConfigAssumed, NEW j \in Jobs, Config!Write(j) PROVE ConfigInv'
<1> DEFINE t == routines[j]
           u == t.updates
           r == To(t, "invalidate")
<1>1. /\ Config!At(j, "write") /\ Config!Goes(j, "invalidate")
      /\ guildRow' = [s \in Config!Settings |-> IF s \in DOMAIN u THEN u[s] ELSE guildRow[s]]
      /\ promisedItems' = [p \in DOMAIN promisedItems |->
           IF p[1] \notin DOMAIN u THEN promisedItems[p]
           ELSE IF j \in overlappedBy THEN p[2] \in u[p[1]]
           ELSE CASE t.item = Nothing -> FALSE
                  [] t.item = p[2] -> t.edit = "add"
                  [] OTHER -> promisedItems[p]]
      /\ overlappedBy' = (overlappedBy \cup Config!Informed) \ {j}
      /\ UNCHANGED policyMu
  BY DEF Config!Write
<1>2. /\ t # NoJob /\ t.step = "write" /\ ConfigTask(t) /\ IsTask(t) /\ j \in DOMAIN routines /\ CacheFits
  BY <1>1, WhoIsAt
<1>3. routines' = [routines EXCEPT ![j] = r]
  BY <1>1, ConfigGoesTo
<1>4. /\ IsTask(r) /\ r.step = "invalidate" /\ r.how = t.how /\ r.then = t.then /\ r.item = t.item
      /\ r.updates = t.updates /\ r.rest = t.rest /\ r # NoJob
  <2>1. IsTask(r) /\ r.step = "invalidate" /\ \A f \in Fields \ {"step"} : r[f] = t[f]
    BY <1>2, ToIs
  <2> QED BY <2>1 DEF Fields, ConfigAssumed, IdleIsNoTask
<1> HIDE DEF r
<1>5. ConfigTask(r)
  <2>1. CASE Scalar(t)
    BY <1>4, <2>1 DEF ConfigTask, Scalar
  <2>2. CASE Edited(t) /\ t.rest = << >>
    BY <1>4, <2>2 DEF ConfigTask, Edited
  <2>3. CASE Cleared(t) /\ t.rest = << >>
    BY <1>4, <2>3 DEF ConfigTask, Cleared
  <2>4. CASE Staged(t) /\ t.rest = << >>
    BY <1>4, <2>4 DEF ConfigTask, Staged
  <2> QED BY <1>2, <2>1, <2>2, <2>3, <2>4 DEF ConfigTask, Look, Left
<1>6. MutexFits(j, r)
  BY <1>1, <1>2, <1>4, MutexStays DEF Guarded
<1>7. \A k \in Jobs \ {j} :
        /\ routines'[k] = routines[k] /\ (k \notin overlappedBy' => k \notin overlappedBy)
        /\ routines[k] # NoJob /\ routines[k].seen # Nothing => k \in overlappedBy'
  BY <1>1, <1>3 DEF Config!Informed, ConfigInv, ConfigTypes
<1>8. CacheFits'
  <2>1. \A k \in DOMAIN routines \ {j} :
          k \in overlappedBy \/ (routines[k] # NoJob /\ routines[k].seen # Nothing)
            => k \in overlappedBy'
    BY <1>1 DEF Config!Informed
  <2> QED BY <1>2, <1>3, <1>4, <2>1, WrittenFits
<1>9. Listed \notin DOMAIN u => guildRow'[Listed] = guildRow[Listed]
  BY <1>1, ListsAre
<1>10. ASSUME NEW k \in Jobs PROVE InTime(k)'
  <2>1. CASE k = j
    <3>1. routines'[k] = r
      BY <1>2, <1>3, <2>1
    <3> QED BY <1>4, <3>1 DEF InTime, EditIsOfRow, SetupIsOfRow
  <2>2. CASE k # j /\ routines[k] # NoJob /\ k \notin overlappedBy'
    <3>1. /\ routines'[k] = routines[k] /\ k \notin overlappedBy /\ routines[k].seen = Nothing
          /\ ConfigTask(routines[k])
      BY <1>7, <2>2, ConfigTaskIs
    <3>2. InTime(k)
      BY DEF ConfigInv
    <3>3. EditIsOfRow(routines[k], guildRow')
      <4>1. CASE routines[k].how = Catalogue!BlacklistUser
        <5>1. policyMu = k /\ ~Guarded(t)
          BY <1>2, <2>2, <4>1 DEF ConfigInv, Guarded
        <5>2. Listed \notin DOMAIN u
          BY <1>1, <5>1, WhatIsWritten
        <5> QED BY <1>9, <2>2, <3>1, <3>2, <5>2 DEF InTime, EditIsOfRow
      <4> QED BY <4>1 DEF EditIsOfRow
    <3>4. SetupIsOfRow(routines[k], guildRow')
      BY <3>1, CommandsDiffer, NothingGuards DEF SetupIsOfRow, ConfigTask, Look, Left, Edited, Cleared,
        Staged, Scalar, ConfigAssumed, Written
    <3> QED BY <3>1, <3>3, <3>4 DEF InTime
  <2>3. CASE k # j /\ (routines[k] = NoJob \/ k \in overlappedBy')
    BY <1>7, <2>3 DEF InTime
  <2> QED BY <2>1, <2>2, <2>3
<1>11. Config!EditsStay'
  <2> SUFFICES ASSUME NEW l \in Config!GuardedLists, NEW i \in Items
               PROVE  (i \in guildRow'[l]) = promisedItems'[<<l, i>>]
    BY DEF Config!EditsStay
  <2>1. /\ l = Listed /\ <<l, i>> \in DOMAIN promisedItems /\ l \in Config!Settings
        /\ i # Nothing /\ <<l, i>>[1] = l /\ <<l, i>>[2] = i
    BY ListsAre DEF ConfigInv, ConfigTypes, ConfigAssumed
  <2>2. (i \in guildRow[l]) = promisedItems[<<l, i>>]
    BY DEF ConfigInv, Config!EditsStay
  <2>3. CASE l \notin DOMAIN u
    <3>1. guildRow'[l] = guildRow[l] /\ promisedItems'[<<l, i>>] = promisedItems[<<l, i>>]
      BY <1>1, <1>9, <2>1, <2>3
    <3> QED BY <2>2, <3>1
  <2>4. CASE l \in DOMAIN u
    <3>1. guildRow'[l] = u[l]
      BY <1>1, <2>1, <2>4
    <3>2. CASE j \in overlappedBy
      <4>1. promisedItems'[<<l, i>>] = (i \in u[l])
        BY <1>1, <2>1, <2>4, <3>2
      <4> QED BY <3>1, <4>1
    <3>3. CASE j \notin overlappedBy /\ Cleared(t)
      <4> DEFINE listed == i \in guildRow'[l]
      <4>1. promisedItems'[<<l, i>>] = FALSE
        BY <1>1, <2>1, <2>4, <3>3 DEF Cleared
      <4>2. ~listed
        BY <2>1, <3>1, <3>3 DEF Cleared
      <4>3. listed = FALSE
        BY <4>2
      <4> QED BY <4>1, <4>3
    <3>4. CASE j \notin overlappedBy /\ Edited(t)
      <4>1. t.item # Nothing
        BY <3>4 DEF Edited, ConfigAssumed
      <4>2. u[l] = IF t.edit = "add" THEN guildRow[l] \cup {t.item} ELSE guildRow[l] \ {t.item}
        <5>1. EditIsOfRow(t, guildRow)
          BY <1>2, <3>4 DEF ConfigInv, InTime
        <5> QED BY <1>2, <2>1, <3>4, <5>1 DEF EditIsOfRow, Edited
      <4>3. CASE t.item = i
        <5>1. promisedItems'[<<l, i>>] = (t.edit = "add")
          BY <1>1, <2>1, <2>4, <3>4, <4>1, <4>3
        <5>2. (i \in guildRow'[l]) <=> t.edit = "add"
          BY <3>1, <4>2, <4>3
        <5>3. (i \in guildRow'[l]) = (t.edit = "add")
          BY <5>2
        <5> QED BY <5>1, <5>3
      <4>4. CASE t.item # i
        <5>1. promisedItems'[<<l, i>>] = promisedItems[<<l, i>>]
          BY <1>1, <2>1, <2>4, <3>4, <4>1, <4>4
        <5>2. (i \in guildRow'[l]) <=> i \in guildRow[l]
          BY <3>1, <4>2, <4>4
        <5>3. (i \in guildRow'[l]) = (i \in guildRow[l])
          BY <5>2
        <5> QED BY <2>2, <5>1, <5>3
      <4> QED BY <4>3, <4>4
    <3> QED BY <1>1, <2>1, <2>4, <3>2, <3>3, <3>4, WhatIsWritten
  <2> QED BY <2>3, <2>4
<1>12. /\ guildRow' = [s \in Config!Settings |-> guildRow'[s]]
       /\ DOMAIN promisedItems' = Config!Lists \X Items
  BY <1>1 DEF ConfigInv, ConfigTypes
<1> QED BY <1>3, <1>4, <1>5, <1>6, <1>8, <1>10, <1>11, <1>12, CommandStep

LEMMA ConfigWriteFails ==
  ASSUME ConfigInv, ConfigAssumed, NEW j \in Jobs, Config!WriteFails(j) PROVE ConfigInv'
<1> DEFINE t == routines[j]
           u == Config!NewUpdates(Head(t.rest), 0)
           r == [t EXCEPT !.updates = u, !.rest = Tail(t.rest)]
<1>1. Config!At(j, "write")
  BY DEF Config!WriteFails
<1>2. /\ t # NoJob /\ t.step = "write" /\ ConfigTask(t) /\ IsTask(t) /\ j \in DOMAIN routines
      /\ ~AtStep(j, "invalidate")
  BY <1>1, WhoIsAt
<1>3. CASE t.rest = << >> \/ t.value # 0
  <2>1. Config!Abandon(j)
    BY <1>3 DEF Config!WriteFails
  <2> QED BY <1>2, <2>1, ConfigAbandons
<1>4. CASE ~(t.rest = << >> \/ t.value # 0)
  <2>1. /\ routines' = [routines EXCEPT ![j].updates = u, ![j].rest = Tail(@)]
        /\ UNCHANGED <<guildRow, configCache, cacheRaced, promisedItems, policyMu, overlappedBy>>
    BY <1>4 DEF Config!WriteFails, Config!configVars
  <2>2. Scalar(t) /\ t.rest = <<Voice>>
    BY <1>2, <1>4 DEF ConfigTask, Scalar
  <2>3. Listed \notin DOMAIN u /\ Tail(t.rest) = << >>
    <3>1. Head(t.rest) = Voice /\ Tail(t.rest) = << >>
      <4> HIDE DEF Voice
      <4> QED BY <2>2
    <3> QED BY <3>1 DEF Config!NewUpdates, Voice, Listed
  <2>4. routines' = [routines EXCEPT ![j] = r]
    BY <1>2, <2>1 DEF IsTask, Fields
  <2> HIDE DEF u
  <2>5. /\ IsTask(r) /\ r.step = "write" /\ r.how = t.how /\ r.updates = u /\ r.rest = << >>
    BY <1>2, <2>3 DEF IsTask, Fields
  <2> HIDE DEF r
  <2>6. ConfigTask(r) /\ ~Guarded(r)
    BY <2>2, <2>3, <2>5, NothingGuards DEF ConfigTask, Scalar
  <2>7. MutexFits(j, r)
    BY <2>1, <2>6, MutexStays
  <2>8. EditIsOfRow(r, guildRow) /\ SetupIsOfRow(r, guildRow)
    BY <2>2, <2>5, CommandsDiffer DEF EditIsOfRow, SetupIsOfRow, Scalar
  <2> QED BY <1>2, <2>1, <2>4, <2>5, <2>6, <2>7, <2>8, QuietConfig
<1> QED BY <1>3, <1>4

\* No command that is followed here has AutoMod to tell.
LEMMA NobodySyncs ==
  ASSUME ConfigAssumed, NEW t, ConfigTask(t)
  PROVE  (IF t.how # Nothing /\ t.how.synced THEN "queue" ELSE "done") = "done"
<1>1. CASE t.how = Nothing
  BY <1>1
<1>2. CASE t.how # Nothing
  <2>1. t.how \in Written
    BY <1>2 DEF ConfigTask, Look, Left, Scalar, Edited, Cleared, Staged, Written
  <2>2. t.how.synced = FALSE
    BY <2>1, WrittenAre DEF Shape, Written
  <2> QED BY <2>2
<1> QED BY <1>1, <1>2

LEMMA ConfigInvalidates ==
  ASSUME ConfigInv, ConfigAssumed, NEW j \in Jobs, Config!Invalidate(j) PROVE ConfigInv'
<1> DEFINE t == routines[j]
           u == Config!NewUpdates(Head(t.rest), t.value)
           r == [t EXCEPT !.step = "write", !.updates = u, !.rest = Tail(t.rest)]
<1>1. /\ Config!At(j, "invalidate") /\ configCache' = Nothing
      /\ UNCHANGED <<guildRow, promisedItems, overlappedBy>>
  BY DEF Config!Invalidate
<1>2. /\ t # NoJob /\ t.step = "invalidate" /\ ConfigTask(t) /\ IsTask(t) /\ j \in DOMAIN routines
      /\ CacheFits
  BY <1>1, WhoIsAt
<1>3. CASE t.rest = << >>
  <2>1. Config!Goes(j, "done") /\ policyMu' = Config!Unlocked(j)
    BY <1>2, <1>3, NobodySyncs DEF Config!Invalidate, Config!Follows, Config!Frees
  <2>2. routines' = [routines EXCEPT ![j] = NoJob] /\ MutexFits(j, NoJob)
    BY <2>1, ConfigGoesTo, MutexEnds
  <2>3. CacheFits'
    BY <1>1, <1>2, <2>2, InvalidatedFits
  <2> QED BY <1>1, <2>2, <2>3, SameRow
<1>4. CASE t.rest # << >>
  <2>1. /\ routines' = [routines EXCEPT ![j].step = "write", ![j].rest = Tail(@), ![j].updates = u]
        /\ UNCHANGED policyMu
    BY <1>4 DEF Config!Invalidate, Config!Follows
  <2>2. Scalar(t) /\ t.rest = <<Voice>>
    BY <1>2, <1>4 DEF ConfigTask, Scalar
  <2>3. Listed \notin DOMAIN u /\ Tail(t.rest) = << >>
    <3>1. Head(t.rest) = Voice /\ Tail(t.rest) = << >>
      <4> HIDE DEF Voice
      <4> QED BY <2>2
    <3> QED BY <3>1 DEF Config!NewUpdates, Voice, Listed
  <2>4. routines' = [routines EXCEPT ![j] = r]
    BY <1>2, <2>1 DEF IsTask, Fields
  <2> HIDE DEF u
  <2>5. /\ IsTask(r) /\ r.step = "write" /\ r.how = t.how /\ r.updates = u /\ r.rest = << >>
    BY <1>2, <2>3 DEF IsTask, Fields
  <2> HIDE DEF r
  <2>6. ConfigTask(r) /\ ~Guarded(r)
    BY <2>2, <2>3, <2>5, NothingGuards DEF ConfigTask, Scalar
  <2>7. MutexFits(j, r)
    BY <2>1, <2>6, MutexStays
  <2>8. EditIsOfRow(r, guildRow) /\ SetupIsOfRow(r, guildRow)
    BY <2>2, <2>5, CommandsDiffer DEF EditIsOfRow, SetupIsOfRow, Scalar
  <2>9. CacheFits'
    BY <1>1, <1>2, <2>4, <2>5, InvalidatedFits
  <2> QED BY <1>1, <2>4, <2>6, <2>7, <2>8, <2>9, SameRow
<1> QED BY <1>3, <1>4

LEMMA ConfigExpires == ASSUME ConfigInv, Config!Expire PROVE ConfigInv'
<1>1. /\ UNCHANGED <<guildRow, overlappedBy, routines, policyMu, promisedItems>>
      /\ configCache' = Nothing
  BY DEF Config!Expire
<1>2. CacheFits'
  BY <1>1, ExpiredFits DEF ConfigInv
<1>3. ConfigTypes' /\ Config!EditsStay' /\ \A j \in Jobs : InTime(j)'
  BY <1>1 DEF ConfigInv, ConfigTypes, Config!EditsStay, InTime, EditIsOfRow, SetupIsOfRow
<1> QED BY <1>1, <1>2, <1>3 DEF ConfigInv, Guarded

LEMMA ConfigStarts == ASSUME Config!Init, ConfigAssumed PROVE ConfigInv
<1>1. /\ routines = [j \in Jobs |-> NoJob] /\ guildRow = Config!Defaults /\ configCache = Nothing
      /\ promisedItems = [edit \in Config!Lists \X Items |-> FALSE]
  BY DEF Config!Init, Config!ConfigInit
<1>2. /\ DOMAIN routines = Jobs /\ \A j \in Jobs : routines[j] = NoJob
      /\ routines = [j \in Jobs |-> routines[j]]
  BY <1>1
<1>3. guildRow = [s \in Config!Settings |-> guildRow[s]]
  BY <1>1 DEF Config!Defaults
<1>4. DOMAIN promisedItems = Config!Lists \X Items
  BY <1>1
<1>5. ConfigTypes /\ \A j \in Jobs : InTime(j)
  BY <1>2, <1>3, <1>4 DEF ConfigTypes, InTime
<1>6. CacheFits
  BY <1>1, <1>2 DEF CacheFits, FillFits, AtStep
<1>7. Config!EditsStay
  <2> SUFFICES ASSUME NEW l \in Config!GuardedLists, NEW i \in Items
               PROVE  (i \in guildRow[l]) = promisedItems[<<l, i>>]
    BY DEF Config!EditsStay
  <2> DEFINE listed == i \in guildRow[l]
  <2>1. l \in Config!Lists /\ l \in Config!Settings
    BY ListsAre
  <2>2. ~listed
    BY <1>1, <2>1 DEF Config!Defaults
  <2>3. promisedItems[<<l, i>>] = FALSE
    <3>1. <<l, i>> \in Config!Lists \X Items
      BY <2>1
    <3> QED BY <1>1, <3>1
  <2>4. listed = FALSE
    BY <2>2
  <2> QED BY <2>3, <2>4
<1> QED BY <1>2, <1>5, <1>6, <1>7 DEF ConfigInv

LEMMA ConfigKeeps ==
  ASSUME ConfigInv, ConfigAssumed, [Config!Next]_(Config!vars) PROVE ConfigInv'
<1>1. CASE UNCHANGED Config!vars
  <2>1. UNCHANGED <<guildRow, overlappedBy, routines, policyMu, promisedItems, configCache, cacheRaced>>
    BY <1>1 DEF Config!vars, Config!configVars
  <2> QED BY <2>1 DEF ConfigInv, ConfigTypes, Config!EditsStay, InTime, EditIsOfRow, SetupIsOfRow,
    CacheFits, FillFits, AtStep, Guarded
<1>2. CASE Config!Expire
  BY <1>2, ConfigExpires
<1>3. ASSUME NEW j \in Jobs, Config!Asks(j) PROVE ConfigInv'
  <2>1. ASSUME NEW c \in Written,
               Config!Set(j, c) \/ Config!Clear(j, c) \/ Config!AcquireSetupLock(j, c)
        PROVE  ConfigInv'
    BY <2>1, ConfigSets, ConfigClears, SetupBegins
  <2>2. ASSUME NEW c \in Written, NEW edit \in {"add", "remove"}, NEW i \in Items,
               Config!Edit(j, c, edit, i)
        PROVE  ConfigInv'
    BY <2>2, ConfigEdits
  <2> QED BY <1>3, <2>1, <2>2, ConfigReads DEF Config!Asks
<1>4. ASSUME NEW j \in Jobs, Config!Works(j) PROVE ConfigInv'
  BY <1>4, ConfigHits, ConfigMisses, ConfigQueries, ConfigReadFails, ConfigFills, ConfigChecks,
    ConfigReadsList, ConfigRuns, ConfigSaves, ConfigWrites, ConfigWriteFails, ConfigInvalidates
  DEF Config!Works
<1>5. ASSUME NEW j \in Jobs, Config!LeaveGuild(j) PROVE ConfigInv'
  BY <1>5, ConfigLeft
<1> QED BY <1>1, <1>2, <1>3, <1>4, <1>5 DEF Config!Next

\* The cached copy, as the property has it.
LEMMA CachedIsTrue == ASSUME CacheFits PROVE Config!CacheIsTrue
BY DEF CacheFits, AtStep, Config!CacheIsTrue, Config!At

\* Only a write and leaving the guild change the row.
LEMMA WhoChangesTheRow ==
  ASSUME [Config!Next]_(Config!vars), guildRow' # guildRow
  PROVE  \E k \in Jobs : Config!Write(k) \/ Config!LeaveGuild(k)
<1>1. guildRow' = guildRow \/ Config!Next
  BY DEF Config!vars, Config!configVars
<1>2. ~Config!Expire
  BY DEF Config!Expire
<1>3. ASSUME NEW j \in Jobs, Config!Asks(j) PROVE guildRow' = guildRow
  BY <1>3 DEF Config!Asks, Config!Read, Config!Set, Config!Clear, Config!AcquireSetupLock,
    Config!Edit, Config!configVars
<1>4. ASSUME NEW j \in Jobs, Config!Works(j), ~Config!Write(j) PROVE guildRow' = guildRow
  BY <1>4 DEF Config!Works, Config!Hit, Config!Miss, Config!Query, Config!QueryFails, Config!Fill,
    Config!Check, Config!ReadList, Config!ReadListFails, Config!RunSubcommand, Config!Save,
    Config!AbortWizard, Config!WriteFails, Config!Invalidate, Config!Abandon, Config!configVars
<1> QED BY <1>1, <1>2, <1>3, <1>4 DEF Config!Next

LEMMA SetupSaves ==
  ASSUME ConfigInv, ConfigAssumed, [Config!Next]_(Config!vars)
  PROVE  Config!ChangesWhatWasChosen
<1> SUFFICES ASSUME NEW j \in Jobs, Config!Runs(j, "setup"), Config!At(j, "write"),
                    ~Config!At(j, "write")', guildRow' # guildRow, j \notin overlappedBy
             PROVE  \A s \in Config!Settings \ routines[j].item : guildRow'[s] = guildRow[s]
  BY DEF Config!ChangesWhatWasChosen
<1> DEFINE t == routines[j]
<1>1. t # NoJob /\ t.step = "write" /\ ConfigTask(t)
  BY WhoIsAt
<1>2. t.how = Catalogue!Setup
  <2>1. t.how # Nothing /\ t.how.kind = "setup"
    BY DEF Config!Runs
  <2>2. t.how \in Written
    BY <1>1, <2>1 DEF ConfigTask, Look, Left, Scalar, Edited, Cleared, Staged, Written
  <2> QED BY <2>1, <2>2, WrittenAre DEF Shape, Written
<1>3. PICK k \in Jobs : Config!Write(k) \/ Config!LeaveGuild(k)
  BY WhoChangesTheRow
<1>4. k = j
  <2>1. PICK r : routines' = [routines EXCEPT ![k] = r]
    BY <1>3 DEF Config!Write, Config!Goes, Config!LeaveGuild, Config!Start
  <2>2. k # j => routines'[j] = routines[j]
    BY <2>1 DEF ConfigInv, ConfigTypes
  <2> QED BY <1>1, <2>2 DEF Config!At
<1>5. Config!Write(j)
  BY <1>1, <1>3, <1>4 DEF Config!LeaveGuild, Config!Start, Config!Free
<1>6. guildRow' = [s \in Config!Settings |-> IF s \in DOMAIN t.updates THEN t.updates[s] ELSE guildRow[s]]
  BY <1>5 DEF Config!Write
<1>7. \A s \in DOMAIN t.updates \ t.item : t.updates[s] = guildRow[s]
  BY <1>1, <1>2 DEF ConfigInv, InTime, SetupIsOfRow
<1> QED BY <1>6, <1>7

-----------------------------------------------------------------------------
(***************************************************************************)
(* The command gate.  Whoever has got past a bar has met a moment when it  *)
(* was not in force; the lists were read from the row, or from a copy that *)
(* was the row's, or was raced, or was about to be thrown away, when the   *)
(* list was not yet in force.                                              *)
(***************************************************************************)

\* The variables by name.
barredBy == s12
botPresent == s13
inForceSince == s14
misledBy == s15
leaveUnheard == s16
USE DEF barredBy, botPresent, inForceSince, misledBy, leaveUnheard

Forces == Gate!Bars \cup {"listed"}
UpToTheLists == {"get", "query", "fill", "lists", "invoked", "run"}

GateTask(t) ==
  /\ IsTask(t)
  /\ t.then \in {"done", "write", "list", "stage", "blocked", "lists"}
  /\ t.then = "lists" => t.step \in UpToTheLists
  /\ t.step \in {"lists", "invoked", "run"} => t.then = "lists"

\* A task that looks at nothing, of which nothing has to be shown.
Plain(t) == GateTask(t) /\ t.then # "lists" /\ t.step \notin {"user", "canonical"}

UnlistedIn(config) == \A l \in Gate!GuardedLists : Caller \notin config[l]

\* What a task has got past; forces: in force since it began.
Passed(t, forces, j, raced) ==
  /\ GateTask(t)
  /\ t.step \in {"user", "canonical"} \/ t.then = "lists" => "guild" \notin forces
  /\ t.step = "canonical" \/ t.then = "lists" => "user" \notin forces
  /\ t.then = "lists" => "canonical" \notin forces
  /\ t.step = "run" /\ t.edit = "invoked" => "invoked" \notin forces
  /\ \/ t.step \in {"invoked", "run"}
     \/ t.then = "lists" /\ t.step \in {"fill", "lists"} /\ UnlistedIn(t.seen)
     => "listed" \notin forces \/ j \in raced

Denied(j) == routines[j] # NoJob => Passed(routines[j], inForceSince[j], j, misledBy)

GateTypes ==
  /\ routines = [j \in Jobs |-> routines[j]]
  /\ barredBy \subseteq Gate!Bars
  /\ \A j \in Jobs : inForceSince[j] \subseteq Forces

GateInv == GateTypes /\ CacheFits /\ (\A j \in Jobs : Denied(j)) /\ Gate!BlockedGuildIsLeft

\* What is in force since a task began becomes less, and whoever was misled stays so.
LEMMA Watches ==
  ASSUME Gate!Watch, NEW k \in Jobs
  PROVE  /\ inForceSince'[k] \subseteq Gate!InForce'
         /\ routines[k] # NoJob => inForceSince'[k] \subseteq inForceSince[k]
         /\ k \in misledBy /\ routines'[k] # NoJob => k \in misledBy'
BY DEF Gate!Watch

\* A step of j, after which r is to be done.
LEMMA GateStep ==
  ASSUME GateInv, Gate!Watch, NEW j \in Jobs, NEW r, routines' = [routines EXCEPT ![j] = r],
         barredBy' \subseteq Gate!Bars, CacheFits', Gate!BlockedGuildIsLeft',
         r # NoJob => Passed(r, inForceSince'[j], j, misledBy')
  PROVE  GateInv'
<1>1. /\ routines = [k \in Jobs |-> routines[k]] /\ \A k \in Jobs : Denied(k)
  BY DEF GateInv, GateTypes
<1>2. routines'[j] = r /\ \A k \in Jobs \ {j} : routines'[k] = routines[k]
  BY <1>1
<1>3. GateTypes'
  <2>1. routines' = [k \in Jobs |-> routines'[k]]
    BY <1>1
  <2>2. ASSUME NEW k \in Jobs PROVE inForceSince'[k] \subseteq Forces
    <3>1. inForceSince'[k] \subseteq Gate!InForce'
      BY Watches
    <3>2. Gate!InForce' \subseteq Forces
      BY DEF Gate!InForce, Forces
    <3> QED BY <3>1, <3>2
  <2> QED BY <2>1, <2>2 DEF GateTypes
<1>4. ASSUME NEW k \in Jobs PROVE Denied(k)'
  <2>1. CASE k = j
    BY <2>1, <1>2 DEF Denied
  <2>2. CASE k # j /\ routines[k] # NoJob
    <3>1. Passed(routines[k], inForceSince[k], k, misledBy) /\ routines'[k] = routines[k]
      BY <2>2, <1>1, <1>2 DEF Denied
    <3>2. inForceSince'[k] \subseteq inForceSince[k] /\ (k \in misledBy => k \in misledBy')
      BY <2>2, <3>1, Watches
    <3>3. Passed(routines[k], inForceSince'[k], k, misledBy')
      BY <3>1, <3>2 DEF Passed
    <3> QED BY <3>1, <3>3 DEF Denied
  <2>3. CASE k # j /\ routines[k] = NoJob
    BY <2>3, <1>2 DEF Denied
  <2> QED BY <2>1, <2>2, <2>3
<1> QED BY <1>3, <1>4 DEF GateInv

\* A step of j that has nothing to do with who is in the guild.
LEMMA StillLeft ==
  ASSUME GateInv, NEW j \in Jobs, NEW r, routines' = [routines EXCEPT ![j] = r],
         UNCHANGED <<botPresent, leaveUnheard>>, "guild" \in barredBy' => "guild" \in barredBy,
         ~AtStep(j, "leave"), ~AtStep(j, "admit")
  PROVE  Gate!BlockedGuildIsLeft'
<1>1. \A k \in Jobs \ {j} : routines'[k] = routines[k]
  BY DEF GateInv, GateTypes
<1>2. ASSUME NEW k \in Jobs, Gate!At(k, "leave") \/ Gate!At(k, "admit")
      PROVE  Gate!At(k, "leave")' \/ Gate!At(k, "admit")'
  BY <1>1, <1>2 DEF Gate!At, AtStep
<1>3. CASE \E k \in Jobs : Gate!At(k, "leave") \/ Gate!At(k, "admit")
  BY <1>2, <1>3 DEF Gate!BlockedGuildIsLeft
<1>4. CASE ~\E k \in Jobs : Gate!At(k, "leave") \/ Gate!At(k, "admit")
  BY <1>4 DEF GateInv, Gate!BlockedGuildIsLeft
<1> QED BY <1>3, <1>4

\* A step of a command that changes the configuration.
LEMMA ConfigStep ==
  ASSUME GateInv, Gate!Watch, NEW j \in Jobs, NEW r, routines' = [routines EXCEPT ![j] = r],
         Gate!Gate, CacheFits', r # NoJob => Passed(r, inForceSince'[j], j, misledBy'),
         ~AtStep(j, "leave"), ~AtStep(j, "admit")
  PROVE  GateInv'
<1>1. UNCHANGED <<barredBy, botPresent, leaveUnheard>>
  BY DEF Gate!Gate
<1>2. barredBy' \subseteq Gate!Bars
  BY <1>1 DEF GateInv, GateTypes
<1>3. Gate!BlockedGuildIsLeft'
  BY <1>1, StillLeft
<1> QED BY <1>2, <1>3, GateStep

LEMMA PlainPasses ==
  ASSUME NEW t, NEW forces, NEW j, NEW raced, Plain(t)
  PROVE  Passed(t, forces, j, raced)
BY DEF Plain, GateTask, Passed

\* A command begins that looks at nothing.
LEMMA PlainBegins ==
  ASSUME GateInv, Gate!Watch, NEW j \in Jobs, NEW r, Gate!Start(j, r), Plain(r),
         r.step # "fill",
         UNCHANGED <<guildRow, configCache, cacheRaced, overlappedBy>>, Gate!Gate
  PROVE  GateInv'
<1>1. routines' = [routines EXCEPT ![j] = r] /\ routines[j] = NoJob
  BY DEF Gate!Start, Gate!Free
<1>2. j \in DOMAIN routines /\ CacheFits
  BY DEF GateInv, GateTypes
<1>3. CacheFits'
  BY <1>1, <1>2, QuietFits DEF AtStep
<1>4. Passed(r, inForceSince'[j], j, misledBy')
  BY PlainPasses
<1> QED BY <1>1, <1>3, <1>4, ConfigStep DEF AtStep

\* A command goes on and looks at nothing.
LEMMA PlainMoves ==
  ASSUME GateInv, Gate!Watch, NEW j \in Jobs, NEW r, routines' = [routines EXCEPT ![j] = r],
         r = NoJob \/ (Plain(r) /\ r.step # "fill"), Gate!Gate,
         UNCHANGED <<guildRow, configCache, cacheRaced>>, overlappedBy \ {j} \subseteq overlappedBy',
         ~AtStep(j, "invalidate"), ~AtStep(j, "leave"), ~AtStep(j, "admit")
  PROVE  GateInv'
<1>2. j \in DOMAIN routines /\ CacheFits
  BY DEF GateInv, GateTypes
<1>3. CacheFits'
  BY <1>2, QuietFits
<1>4. r # NoJob => Passed(r, inForceSince'[j], j, misledBy')
  BY PlainPasses
<1> QED BY <1>3, <1>4, ConfigStep

LEMMA TaskIs ==
  ASSUME GateInv, NEW j \in Jobs, routines[j] # NoJob
  PROVE  /\ j \in DOMAIN routines /\ GateTask(routines[j])
         /\ Passed(routines[j], inForceSince[j], j, misledBy)
BY DEF GateInv, GateTypes, Denied, Passed

LEMMA GoesTo ==
  ASSUME NEW j \in Jobs, NEW step, Gate!Goes(j, step)
  PROVE  routines' = [routines EXCEPT ![j] = IF step = "done" THEN NoJob ELSE To(routines[j], step)]
BY DEF Gate!Goes, To

PlainSteps == {"check", "list", "write", "stage", "queue", "blocked", "guild", "leave",
               "admit", "reply", "query", "get", "invalidate"}

LEMMA ToPlain ==
  ASSUME NEW t, NEW step \in PlainSteps, GateTask(t), t.then # "lists"
  PROVE  Plain(To(t, step)) /\ To(t, step).step # "fill"
<1>1. IsTask(t)
  BY DEF GateTask
<1>2. /\ IsTask(To(t, step)) /\ To(t, step).step = step
      /\ \A f \in Fields \ {"step"} : To(t, step)[f] = t[f]
  BY <1>1, ToIs
<1>3. To(t, step).then = t.then
  BY <1>2 DEF Fields
<1> QED BY <1>2, <1>3 DEF Plain, GateTask, PlainSteps

\* A command goes on to another step and looks at nothing.
LEMMA PlainGoes ==
  ASSUME GateInv, Gate!Watch, NEW j \in Jobs, routines[j] # NoJob,
         NEW step \in PlainSteps \cup {"done"}, Gate!Goes(j, step),
         routines[j].then # "lists" \/ step = "done", Gate!Gate,
         UNCHANGED <<guildRow, configCache, cacheRaced>>, overlappedBy \ {j} \subseteq overlappedBy',
         ~AtStep(j, "invalidate"), ~AtStep(j, "leave"), ~AtStep(j, "admit")
  PROVE  GateInv'
<1>1. GateTask(routines[j])
  BY TaskIs
<1>2. CASE step = "done"
  BY <1>2, GoesTo, PlainMoves
<1>3. CASE step # "done"
  <2>1. Plain(To(routines[j], step)) /\ To(routines[j], step).step # "fill"
    BY <1>1, <1>3, ToPlain
  <2>2. routines' = [routines EXCEPT ![j] = To(routines[j], step)]
    BY <1>3, GoesTo
  <2> QED BY <2>1, <2>2, PlainMoves
<1> QED BY <1>2, <1>3

LEMMA BlankIs == IsTask(Gate!Blank)
BY DEF IsTask, Fields, Gate!Blank

-----------------------------------------------------------------------------
\* GuildConfig's commands begin.
LEMMA GateReads ==
  ASSUME GateInv, Gate!Watch, NEW j \in Jobs, Gate!Read(j), Gate!Gate PROVE GateInv'
<1> DEFINE r == [Gate!Blank EXCEPT !.step = "get"]
<1>1. Plain(r) /\ r.step # "fill"
  BY DEF Plain, GateTask, IsTask, Fields, Gate!Blank, UpToTheLists
<1>2. Gate!Start(j, r) /\ UNCHANGED <<guildRow, configCache, cacheRaced, overlappedBy>>
  BY DEF Gate!Read, Gate!configVars
<1> QED BY <1>1, <1>2, PlainBegins

LEMMA GateSets ==
  ASSUME GateInv, Gate!Watch, NEW j \in Jobs, NEW c, Gate!Set(j, c), Gate!Gate PROVE GateInv'
<1>1. PICK value \in {0, s7 + 1} :
        Gate!Start(j, [Gate!Blank EXCEPT
                         !.step = Gate!First(c, IF c.compares THEN "check" ELSE "write"),
                         !.then = "write", !.how = c, !.value = value,
                         !.updates = Gate!NewUpdates(Head(c.writes), value),
                         !.rest = Tail(c.writes)])
  BY DEF Gate!Set
<1> DEFINE step == Gate!First(c, IF c.compares THEN "check" ELSE "write")
           u == Gate!NewUpdates(Head(c.writes), value)
           rest == Tail(c.writes)
<1>2. step \in {"get", "check", "write"}
  BY DEF Gate!First
<1> HIDE DEF step, u, rest
<1> DEFINE r == [Gate!Blank EXCEPT !.step = step, !.then = "write", !.how = c, !.value = value,
                                   !.updates = u, !.rest = rest]
<1>3. Plain(r) /\ r.step # "fill"
  BY <1>2 DEF Plain, GateTask, IsTask, Fields, Gate!Blank, UpToTheLists
<1>4. Gate!Start(j, r)
  BY <1>1 DEF step, u, rest
<1>5. UNCHANGED <<guildRow, configCache, cacheRaced, overlappedBy>>
  BY DEF Gate!Set
<1> QED BY <1>3, <1>4, <1>5, PlainBegins

LEMMA GateEdits ==
  ASSUME GateInv, Gate!Watch, NEW j \in Jobs, NEW c, NEW edit, NEW i, Gate!Edit(j, c, edit, i),
         Gate!Gate
  PROVE  GateInv'
<1> DEFINE step == Gate!First(c, "list")
<1>2. step \in {"get", "list"}
  BY DEF Gate!First
<1> HIDE DEF step
<1> DEFINE r == [Gate!Blank EXCEPT !.step = step, !.then = "list", !.how = c, !.edit = edit,
                                   !.item = i]
<1>3. Plain(r) /\ r.step # "fill"
  BY <1>2 DEF Plain, GateTask, IsTask, Fields, Gate!Blank, UpToTheLists
<1>4. Gate!Start(j, r)
  BY DEF Gate!Edit, step
<1>5. UNCHANGED <<guildRow, configCache, cacheRaced, overlappedBy>>
  BY DEF Gate!Edit
<1> QED BY <1>3, <1>4, <1>5, PlainBegins

LEMMA GateClears ==
  ASSUME GateInv, Gate!Watch, NEW j \in Jobs, NEW c, Gate!Clear(j, c), Gate!Gate PROVE GateInv'
<1> DEFINE u == Gate!NewUpdates(c.writes[1], {})
<1> HIDE DEF u
<1> DEFINE r == [Gate!Blank EXCEPT !.step = "write", !.how = c, !.updates = u]
<1>3. Plain(r) /\ r.step # "fill"
  BY DEF Plain, GateTask, IsTask, Fields, Gate!Blank, UpToTheLists
<1>4. Gate!Start(j, r)
  BY DEF Gate!Clear, u
<1>5. UNCHANGED <<guildRow, configCache, cacheRaced, overlappedBy>>
  BY DEF Gate!Clear
<1> QED BY <1>3, <1>4, <1>5, PlainBegins

LEMMA GateSetsUp ==
  ASSUME GateInv, Gate!Watch, NEW j \in Jobs, NEW c, Gate!AcquireSetupLock(j, c), Gate!Gate
  PROVE  GateInv'
<1> DEFINE v == s7 + 1
<1> HIDE DEF v
<1> DEFINE r == [Gate!Blank EXCEPT !.step = "get", !.then = "stage", !.how = c, !.item = {},
                                   !.value = v]
<1>3. Plain(r) /\ r.step # "fill"
  BY DEF Plain, GateTask, IsTask, Fields, Gate!Blank, UpToTheLists
<1>4. Gate!Start(j, r)
  BY DEF Gate!AcquireSetupLock, v
<1>5. UNCHANGED <<guildRow, configCache, cacheRaced, overlappedBy>>
  BY DEF Gate!AcquireSetupLock
<1> QED BY <1>3, <1>4, <1>5, PlainBegins

-----------------------------------------------------------------------------
\* GetGuildConfig.
LEMMA GateHits ==
  ASSUME GateInv, IdleIsNoTask, Gate!Watch, NEW j \in Jobs, Gate!Hit(j), Gate!Gate PROVE GateInv'
<1> DEFINE t == routines[j]
           next == [[t EXCEPT !.step = t.then] EXCEPT !.seen = configCache]
           r == IF t.then = "done" THEN NoJob ELSE next
<1>1. /\ routines[j] # NoJob /\ routines[j].step = "get" /\ configCache # Nothing
      /\ UNCHANGED <<guildRow, configCache, cacheRaced>>
  BY DEF Gate!Hit, Gate!At
<1>2. /\ j \in DOMAIN routines /\ GateTask(t) /\ CacheFits
      /\ Passed(t, inForceSince[j], j, misledBy)
  BY <1>1, TaskIs DEF GateInv
<1>3. routines' = [routines EXCEPT ![j] = r]
  BY DEF Gate!Hit
<1>4. /\ IsTask(next) /\ next.step = t.then /\ next.then = t.then /\ next.seen = configCache
      /\ next.edit = t.edit
  BY <1>2 DEF GateTask, IsTask, Fields
<1> HIDE DEF next
<1>5. overlappedBy \ {j} \subseteq overlappedBy'
  BY DEF Gate!Hit
<1>6. r # NoJob => r = next /\ t.then \in {"write", "list", "stage", "blocked", "lists"}
  BY <1>2 DEF GateTask
<1>7. CacheFits'
  <2>1. ~AtStep(j, "invalidate") /\ ~(r # NoJob /\ r.step = "fill")
    BY <1>1, <1>4, <1>6 DEF AtStep
  <2> QED BY <1>1, <1>2, <1>3, <1>5, <2>1, QuietFits
<1>8. ASSUME r # NoJob PROVE Passed(r, inForceSince'[j], j, misledBy')
  <2>1. r = next /\ t.then \in {"write", "list", "stage", "blocked", "lists"}
    BY <1>6, <1>8
  <2>2. GateTask(r)
    BY <2>1, <1>2, <1>4 DEF GateTask, UpToTheLists
  <2>3. CASE t.then # "lists"
    BY <2>1, <2>2, <2>3, <1>4, PlainPasses DEF Plain
  <2>4. CASE t.then = "lists"
    <3>1. inForceSince'[j] \subseteq inForceSince[j] /\ inForceSince'[j] \subseteq Gate!InForce'
      BY <1>1, Watches
    <3>0. "listed" \notin barredBy'
      BY DEF GateInv, GateTypes, Gate!Bars, Gate!Gate
    <3>2. ASSUME UnlistedIn(configCache)
          PROVE  "listed" \notin inForceSince'[j] \/ j \in misledBy'
      <4>1. CASE configCache = guildRow
        BY <4>1, <3>0, <3>1, <3>2, <1>1 DEF UnlistedIn, Gate!InForce
      <4>2. CASE cacheRaced
        <5>1. routines'[j] # NoJob
          BY <1>2, <1>3, <1>8
        <5> QED BY <5>1, <2>4, <4>2 DEF Gate!Watch, Gate!Hit
      <4>3. CASE \E k \in DOMAIN routines : AtStep(k, "invalidate")
        <5>1. PICK k \in DOMAIN routines : AtStep(k, "invalidate")
          BY <4>3
        <5>2. k # j /\ k \in Jobs
          BY <5>1, <1>1 DEF AtStep, GateInv, GateTypes
        <5>3. routines'[k] = routines[k]
          BY <1>3, <5>1, <5>2
        <5>4. Gate!At(k, "invalidate")'
          BY <5>1, <5>3 DEF Gate!At, AtStep
        <5>5. "listed" \notin Gate!InForce'
          BY <5>2, <5>4, <3>0 DEF Gate!InForce
        <5> QED BY <5>5, <3>1
      <4> QED BY <4>1, <4>2, <4>3, <1>1, <1>2 DEF CacheFits
    <3> QED BY <2>1, <2>2, <2>4, <3>1, <3>2, <1>2, <1>4 DEF Passed
  <2> QED BY <2>3, <2>4
<1> QED BY <1>1, <1>3, <1>7, <1>8, ConfigStep DEF AtStep

\* A task keeps what it has got past, while the task goes on.
LEMMA StillPassed ==
  ASSUME GateInv, Gate!Watch, NEW j \in Jobs, routines[j] # NoJob, routines'[j] # NoJob
  PROVE  Passed(routines[j], inForceSince'[j], j, misledBy')
<1>1. Passed(routines[j], inForceSince[j], j, misledBy)
  BY TaskIs
<1>2. inForceSince'[j] \subseteq inForceSince[j] /\ (j \in misledBy => j \in misledBy')
  BY Watches
<1> QED BY <1>1, <1>2 DEF Passed

LEMMA GateMisses ==
  ASSUME GateInv, IdleIsNoTask, Gate!Watch, NEW j \in Jobs, Gate!Miss(j), Gate!Gate PROVE GateInv'
<1> DEFINE t == routines[j]
           r == To(t, "query")
<1>1. /\ t # NoJob /\ t.step = "get" /\ Gate!Goes(j, "query")
      /\ UNCHANGED <<guildRow, configCache, cacheRaced, overlappedBy>>
  BY DEF Gate!Miss, Gate!At, Gate!configVars
<1>2. j \in DOMAIN routines /\ GateTask(t) /\ IsTask(t) /\ CacheFits
  BY <1>1, TaskIs DEF GateInv, GateTask
<1>3. routines' = [routines EXCEPT ![j] = r]
  BY <1>1, GoesTo
<1>4. /\ IsTask(r) /\ r.step = "query" /\ r.then = t.then
  BY <1>2, ToIs DEF Fields
<1>5. CacheFits'
  BY <1>1, <1>2, <1>3, <1>4, QuietFits DEF AtStep
<1>6. Passed(r, inForceSince'[j], j, misledBy')
  <2>1. routines'[j] # NoJob
    BY <1>2, <1>3, <1>4 DEF IdleIsNoTask
  <2>2. Passed(t, inForceSince'[j], j, misledBy')
    BY <1>1, <2>1, StillPassed
  <2> QED BY <1>1, <1>4, <2>2 DEF Passed, GateTask, UpToTheLists
<1> QED BY <1>1, <1>3, <1>5, <1>6, ConfigStep DEF AtStep

LEMMA GateQueries ==
  ASSUME GateInv, IdleIsNoTask, Gate!Watch, NEW j \in Jobs, Gate!Query(j), Gate!Gate PROVE GateInv'
<1> DEFINE t == routines[j]
           step == IF s2 THEN "fill" ELSE t.then
           next == [[t EXCEPT !.step = step] EXCEPT !.seen = guildRow]
           r == IF step = "done" THEN NoJob ELSE next
<1>1. /\ t # NoJob /\ t.step = "query"
      /\ UNCHANGED <<guildRow, configCache, cacheRaced>>
      /\ overlappedBy \ {j} \subseteq overlappedBy'
  BY DEF Gate!Query, Gate!At
<1>2. j \in DOMAIN routines /\ GateTask(t) /\ CacheFits
  BY <1>1, TaskIs DEF GateInv
<1>3. routines' = [routines EXCEPT ![j] = r]
  BY DEF Gate!Query
<1>4. /\ IsTask(next) /\ next.step = step /\ next.then = t.then /\ next.seen = guildRow
      /\ next.edit = t.edit
  BY <1>2 DEF GateTask, IsTask, Fields
<1>5. step = "fill" \/ (step = t.then /\ t.then \in {"done", "write", "list", "stage", "blocked", "lists"})
  BY <1>2 DEF GateTask
<1> HIDE DEF next, step
<1>7. CacheFits'
  <2>1. ~AtStep(j, "invalidate") /\ (r # NoJob => r.seen = guildRow)
    BY <1>1, <1>4 DEF AtStep
  <2> QED BY <1>1, <1>2, <1>3, <2>1, QuietFits
<1>8. ASSUME r # NoJob PROVE Passed(r, inForceSince'[j], j, misledBy')
  <2>1. r = next /\ step # "done"
    BY <1>8
  <2>2. GateTask(r)
    BY <2>1, <1>2, <1>4, <1>5 DEF GateTask, UpToTheLists
  <2>3. CASE t.then # "lists"
    BY <2>1, <2>2, <2>3, <1>4, <1>5, PlainPasses DEF Plain
  <2>4. CASE t.then = "lists"
    <3>1. inForceSince'[j] \subseteq Gate!InForce' /\ routines'[j] # NoJob
      BY <1>2, <1>3, <1>8, Watches
    <3>2. Passed(t, inForceSince'[j], j, misledBy')
      BY <1>1, <3>1, StillPassed
    <3>3. "listed" \notin barredBy'
      BY DEF GateInv, GateTypes, Gate!Bars, Gate!Gate
    <3>4. UnlistedIn(guildRow) => "listed" \notin inForceSince'[j]
      BY <3>1, <3>3, <1>1 DEF UnlistedIn, Gate!InForce
    <3> QED BY <2>1, <2>2, <2>4, <3>2, <3>4, <1>4, <1>5 DEF Passed
  <2> QED BY <2>3, <2>4
<1> QED BY <1>1, <1>3, <1>7, <1>8, ConfigStep DEF AtStep

LEMMA GateFills ==
  ASSUME GateInv, IdleIsNoTask, Gate!Watch, NEW j \in Jobs, Gate!Fill(j), Gate!Gate PROVE GateInv'
<1> DEFINE t == routines[j]
           r == IF t.then = "done" THEN NoJob ELSE To(t, t.then)
<1>1. /\ t # NoJob /\ t.step = "fill" /\ UNCHANGED guildRow
      /\ configCache' = t.seen /\ cacheRaced' = (j \in overlappedBy)
      /\ overlappedBy \ {j} \subseteq overlappedBy'
  BY DEF Gate!Fill, Gate!At
<1>2. j \in DOMAIN routines /\ GateTask(t) /\ IsTask(t) /\ CacheFits
  BY <1>1, TaskIs DEF GateInv, GateTask
<1>3. routines' = [routines EXCEPT ![j] = r]
  BY GoesTo DEF Gate!Fill
<1>4. /\ IsTask(To(t, t.then)) /\ To(t, t.then).step = t.then /\ To(t, t.then).then = t.then
      /\ To(t, t.then).seen = t.seen /\ To(t, t.then).edit = t.edit
  BY <1>2, ToIs DEF Fields
<1>5. t.then \in {"done", "write", "list", "stage", "blocked", "lists"}
  BY <1>2 DEF GateTask
<1>6. r # NoJob => r = To(t, t.then) /\ r.step # "fill"
  BY <1>4, <1>5
<1>7. CacheFits'
  BY <1>1, <1>2, <1>3, <1>6, FilledFits DEF AtStep
<1>8. ASSUME r # NoJob PROVE Passed(r, inForceSince'[j], j, misledBy')
  <2>1. r = To(t, t.then)
    BY <1>6, <1>8
  <2>2. GateTask(r)
    BY <2>1, <1>2, <1>4, <1>5 DEF GateTask, UpToTheLists
  <2>3. CASE t.then # "lists"
    BY <2>1, <2>2, <2>3, <1>4, <1>5, PlainPasses DEF Plain
  <2>4. CASE t.then = "lists"
    <3>1. routines'[j] # NoJob
      BY <1>2, <1>3, <1>8
    <3>2. Passed(t, inForceSince'[j], j, misledBy')
      BY <1>1, <3>1, StillPassed
    <3> QED BY <2>1, <2>2, <2>4, <3>2, <1>1, <1>4 DEF Passed
  <2> QED BY <2>3, <2>4
<1> QED BY <1>1, <1>3, <1>7, <1>8, ConfigStep DEF AtStep

-----------------------------------------------------------------------------
\* A statement failed.
LEMMA GateAbandons ==
  ASSUME GateInv, Gate!Watch, NEW j \in Jobs, routines[j] # NoJob,
         routines[j].step \in {"query", "list", "stage", "write"}, Gate!Abandon(j), Gate!Gate
  PROVE  GateInv'
<1>1. /\ Gate!Goes(j, "done") /\ UNCHANGED <<guildRow, configCache, cacheRaced>>
      /\ overlappedBy \ {j} \subseteq overlappedBy'
  BY DEF Gate!Abandon
<1> QED BY <1>1, PlainGoes DEF AtStep

LEMMA GateChecks ==
  ASSUME GateInv, Gate!Watch, NEW j \in Jobs, Gate!Check(j), Gate!Gate PROVE GateInv'
<1>1. /\ routines[j] # NoJob /\ routines[j].step = "check"
      /\ UNCHANGED <<guildRow, configCache, cacheRaced, overlappedBy>>
  BY DEF Gate!Check, Gate!At, Gate!configVars
<1>2. routines[j].then # "lists"
  BY <1>1, TaskIs DEF GateTask, UpToTheLists
<1>3. Gate!Goes(j, "done") \/ Gate!Goes(j, "write")
  BY DEF Gate!Check
<1> QED BY <1>1, <1>2, <1>3, PlainGoes DEF AtStep, PlainSteps

LEMMA GateReadsList ==
  ASSUME GateInv, Gate!Watch, NEW j \in Jobs, Gate!ReadList(j), Gate!Gate PROVE GateInv'
<1>1. /\ routines[j] # NoJob /\ routines[j].step = "list"
      /\ UNCHANGED <<guildRow, configCache, cacheRaced>>
      /\ overlappedBy \ {j} \subseteq overlappedBy'
  BY DEF Gate!ReadList, Gate!At
<1>2. GateTask(routines[j]) /\ routines[j].then # "lists"
  BY <1>1, TaskIs DEF GateTask, UpToTheLists
<1>3. CASE Gate!Goes(j, "done")
  BY <1>1, <1>2, <1>3, PlainGoes DEF AtStep
<1>4. ASSUME NEW u, routines' = [routines EXCEPT ![j].step = "write", ![j].updates = u,
                                                 ![j].seen = Nothing]
      PROVE  GateInv'
  <2> DEFINE r == [routines[j] EXCEPT !.step = "write", !.updates = u, !.seen = Nothing]
  <2>1. IsTask(r) /\ r.step = "write" /\ r.then = routines[j].then
    BY <1>2 DEF GateTask, IsTask, Fields
  <2>2. j \in DOMAIN routines
    BY DEF GateInv, GateTypes
  <2>3. routines' = [routines EXCEPT ![j] = r]
    BY <1>4, <2>2
  <2> HIDE DEF r
  <2>4. Plain(r)
    BY <1>2, <2>1 DEF Plain, GateTask
  <2> QED BY <1>1, <2>1, <2>3, <2>4, PlainMoves DEF AtStep
<1> QED BY <1>3, <1>4 DEF Gate!ReadList

LEMMA GateStages ==
  ASSUME GateInv, Gate!Watch, NEW j \in Jobs, Gate!RunSubcommand(j), Gate!Gate PROVE GateInv'
<1>1. /\ routines[j] # NoJob /\ routines[j].step = "stage"
      /\ UNCHANGED <<guildRow, configCache, cacheRaced, overlappedBy>>
  BY DEF Gate!RunSubcommand, Gate!At, Gate!configVars
<1>2. GateTask(routines[j]) /\ routines[j].then # "lists"
  BY <1>1, TaskIs DEF GateTask, UpToTheLists
<1>3. PICK section \in Gate!Sections, items \in SUBSET {Caller} :
        \E chosen \in Gate!AwaitComponentInteraction(section) :
          routines' = [routines EXCEPT
            ![j].seen = [s \in Gate!Settings |->
              IF s \in chosen THEN Gate!AwaitMessageOrButton(s, items, routines[j].value) ELSE @[s]],
            ![j].item = @ \cup chosen]
  BY DEF Gate!RunSubcommand
<1>9. PICK chosen \in Gate!AwaitComponentInteraction(section) :
          routines' = [routines EXCEPT
            ![j].seen = [s \in Gate!Settings |->
              IF s \in chosen THEN Gate!AwaitMessageOrButton(s, items, routines[j].value) ELSE @[s]],
            ![j].item = @ \cup chosen]
  BY <1>3, Zenon
<1> DEFINE c == [s \in Gate!Settings |->
               IF s \in chosen THEN Gate!AwaitMessageOrButton(s, items, routines[j].value)
               ELSE routines[j].seen[s]]
           i == routines[j].item \cup chosen
<1>4. j \in DOMAIN routines
  BY DEF GateInv, GateTypes
<1>5. routines' = [routines EXCEPT ![j] = [@ EXCEPT !.seen = c, !.item = i]]
  BY <1>9, <1>4
<1> HIDE DEF c, i
<1> DEFINE r == [routines[j] EXCEPT !.seen = c, !.item = i]
<1>6. IsTask(r) /\ r.step = "stage" /\ r.then = routines[j].then
  BY <1>1, <1>2 DEF GateTask, IsTask, Fields
<1>7. routines' = [routines EXCEPT ![j] = r]
  BY <1>5
<1> HIDE DEF r
<1>8. Plain(r)
  BY <1>2, <1>6 DEF Plain, GateTask
<1> QED BY <1>1, <1>6, <1>7, <1>8, PlainMoves DEF AtStep

LEMMA GateSaves ==
  ASSUME GateInv, Gate!Watch, NEW j \in Jobs, Gate!Save(j), Gate!Gate PROVE GateInv'
<1> DEFINE u == [s \in Gate!Written({Gate!Setup}) \cap Gate!Settings |-> routines[j].seen[s]]
<1>1. /\ routines[j] # NoJob /\ routines[j].step = "stage"
      /\ UNCHANGED <<guildRow, configCache, cacheRaced, overlappedBy>>
      /\ routines' = [routines EXCEPT ![j].step = "write", ![j].updates = u]
  BY DEF Gate!Save, Gate!At, Gate!configVars
<1> HIDE DEF u
<1>2. GateTask(routines[j]) /\ routines[j].then # "lists" /\ j \in DOMAIN routines
  BY <1>1, TaskIs DEF GateTask, UpToTheLists
<1> DEFINE r == [routines[j] EXCEPT !.step = "write", !.updates = u]
<1>3. IsTask(r) /\ r.step = "write" /\ r.then = routines[j].then
  BY <1>1, <1>2 DEF GateTask, IsTask, Fields
<1>4. routines' = [routines EXCEPT ![j] = r]
  BY <1>1, <1>2
<1> HIDE DEF r
<1>5. Plain(r)
  BY <1>2, <1>3 DEF Plain, GateTask
<1> QED BY <1>1, <1>3, <1>4, <1>5, PlainMoves DEF AtStep

-----------------------------------------------------------------------------
\* The row is written, and the cached copy thrown away.
LEMMA GateWrites ==
  ASSUME GateInv, IdleIsNoTask, Gate!Watch, NEW j \in Jobs, Gate!Write(j), Gate!Gate PROVE GateInv'
<1> DEFINE r == To(routines[j], "invalidate")
<1>1. /\ routines[j] # NoJob /\ routines[j].step = "write" /\ Gate!Goes(j, "invalidate")
      /\ overlappedBy' = (overlappedBy \cup Gate!Informed) \ {j}
  BY DEF Gate!Write, Gate!At
<1>2. /\ j \in DOMAIN routines /\ GateTask(routines[j]) /\ routines[j].then # "lists"
      /\ CacheFits
  BY <1>1, TaskIs DEF GateTask, UpToTheLists, GateInv
<1>3. Plain(r) /\ IsTask(r) /\ r.step = "invalidate"
  BY <1>2, ToPlain, ToIs DEF PlainSteps, GateTask
<1>4. routines' = [routines EXCEPT ![j] = r]
  BY <1>1, GoesTo
<1> HIDE DEF r
<1>5. \A k \in DOMAIN routines \ {j} :
        k \in overlappedBy \/ (routines[k] # NoJob /\ routines[k].seen # Nothing)
          => k \in overlappedBy'
  BY <1>1 DEF Gate!Informed
<1>6. CASE r # NoJob
  <2>1. CacheFits'
    BY <1>2, <1>3, <1>4, <1>5, <1>6, WrittenFits
  <2> QED BY <2>1, <1>1, <1>3, <1>4, PlainPasses, ConfigStep DEF AtStep
<1>7. CASE r = NoJob
  BY <1>3, <1>7 DEF IdleIsNoTask
<1> QED BY <1>6, <1>7

LEMMA GateWriteFails ==
  ASSUME GateInv, Gate!Watch, NEW j \in Jobs, Gate!WriteFails(j), Gate!Gate PROVE GateInv'
<1>1. routines[j] # NoJob /\ routines[j].step = "write"
  BY DEF Gate!WriteFails, Gate!At
<1>2. /\ j \in DOMAIN routines /\ GateTask(routines[j]) /\ routines[j].then # "lists"
  BY <1>1, TaskIs DEF GateTask, UpToTheLists
<1>3. CASE Gate!Abandon(j)
  BY <1>1, <1>3, GateAbandons
<1>4. CASE /\ routines' = [routines EXCEPT
                ![j].updates = Gate!NewUpdates(Head(routines[j].rest), 0), ![j].rest = Tail(@)]
           /\ UNCHANGED Gate!configVars
  <2> DEFINE u == Gate!NewUpdates(Head(routines[j].rest), 0)
             rest == Tail(routines[j].rest)
  <2>1. routines' = [routines EXCEPT ![j] = [@ EXCEPT !.updates = u, !.rest = rest]]
    BY <1>2, <1>4
  <2> HIDE DEF u, rest
  <2> DEFINE r == [routines[j] EXCEPT !.updates = u, !.rest = rest]
  <2>2. IsTask(r) /\ r.step = "write" /\ r.then = routines[j].then
    BY <1>1, <1>2 DEF GateTask, IsTask, Fields
  <2>3. routines' = [routines EXCEPT ![j] = r]
    BY <2>1
  <2> HIDE DEF r
  <2>4. Plain(r)
    BY <1>2, <2>2 DEF Plain, GateTask
  <2>5. UNCHANGED <<guildRow, configCache, cacheRaced, overlappedBy>>
    BY <1>4 DEF Gate!configVars
  <2> QED BY <1>1, <2>2, <2>3, <2>4, <2>5, PlainMoves DEF AtStep
<1> QED BY <1>3, <1>4 DEF Gate!WriteFails

LEMMA GateInvalidates ==
  ASSUME GateInv, Gate!Watch, NEW j \in Jobs, Gate!Invalidate(j), Gate!Gate PROVE GateInv'
<1>1. /\ routines[j] # NoJob /\ routines[j].step = "invalidate" /\ configCache' = Nothing
      /\ UNCHANGED <<guildRow, overlappedBy>> /\ Gate!Follows(j)
  BY DEF Gate!Invalidate, Gate!At
<1>2. /\ j \in DOMAIN routines /\ GateTask(routines[j]) /\ routines[j].then # "lists"
      /\ CacheFits
  BY <1>1, TaskIs DEF GateTask, UpToTheLists, GateInv
<1>3. ASSUME NEW r, routines' = [routines EXCEPT ![j] = r],
             r = NoJob \/ (Plain(r) /\ r.step # "fill")
      PROVE  GateInv'
  <2>1. CacheFits'
    BY <1>1, <1>2, <1>3, InvalidatedFits
  <2> QED BY <2>1, <1>1, <1>3, PlainPasses, ConfigStep DEF AtStep
<1>4. CASE Gate!Goes(j, "done")
  BY <1>3, <1>4, GoesTo
<1>5. CASE Gate!Goes(j, "queue")
  <2>1. routines' = [routines EXCEPT ![j] = To(routines[j], "queue")]
    BY <1>5, GoesTo
  <2> QED BY <2>1, <1>2, <1>3, ToPlain DEF PlainSteps
<1>6. CASE routines' = [routines EXCEPT ![j].step = "write", ![j].rest = Tail(@),
             ![j].updates = Gate!NewUpdates(Head(routines[j].rest), routines[j].value)]
  <2> DEFINE u == Gate!NewUpdates(Head(routines[j].rest), routines[j].value)
             rest == Tail(routines[j].rest)
  <2>1. routines' = [routines EXCEPT ![j] = [@ EXCEPT !.step = "write", !.rest = rest, !.updates = u]]
    BY <1>2, <1>6
  <2> HIDE DEF u, rest
  <2> DEFINE r == [routines[j] EXCEPT !.step = "write", !.rest = rest, !.updates = u]
  <2>2. IsTask(r) /\ r.step = "write" /\ r.then = routines[j].then
    BY <1>1, <1>2 DEF GateTask, IsTask, Fields
  <2>3. routines' = [routines EXCEPT ![j] = r]
    BY <2>1
  <2> HIDE DEF r
  <2>4. Plain(r)
    BY <1>2, <2>2 DEF Plain, GateTask
  <2> QED BY <1>3, <2>2, <2>3, <2>4
<1> QED BY <1>1, <1>4, <1>5, <1>6 DEF Gate!Follows

LEMMA GuildDeleted ==
  ASSUME GateInv, IdleIsNoTask, Gate!Watch, NEW j \in Jobs, Gate!OnGuildDelete(j) PROVE GateInv'
<1> DEFINE r == [Gate!Blank EXCEPT !.step = "invalidate"]
<1>1. Plain(r) /\ IsTask(r) /\ r.step = "invalidate"
  BY DEF Plain, GateTask, IsTask, Fields, Gate!Blank, UpToTheLists
<1>2. /\ Gate!Start(j, r) /\ Gate!Gate
      /\ overlappedBy' =
           overlappedBy \cup Gate!Informed \cup {k \in DOMAIN routines : Gate!At(k, "write")}
  BY DEF Gate!OnGuildDelete, Gate!LeaveGuild
<1>3. routines' = [routines EXCEPT ![j] = r] /\ routines[j] = NoJob
  BY <1>2 DEF Gate!Start, Gate!Free
<1> HIDE DEF r
<1>4. j \in DOMAIN routines /\ CacheFits /\ r # NoJob
  BY <1>1 DEF GateInv, GateTypes, IdleIsNoTask
<1>5. \A k \in DOMAIN routines \ {j} :
        k \in overlappedBy \/ (routines[k] # NoJob /\ routines[k].seen # Nothing)
          => k \in overlappedBy'
  BY <1>2 DEF Gate!Informed
<1>6. CacheFits'
  BY <1>1, <1>3, <1>4, <1>5, WrittenFits
<1> QED BY <1>1, <1>2, <1>3, <1>6, PlainPasses, ConfigStep DEF AtStep

\* The entry is too old.
LEMMA GateExpires ==
  ASSUME GateInv, Gate!Watch, Gate!Expire, Gate!Gate PROVE GateInv'
<1>1. UNCHANGED <<guildRow, overlappedBy, routines, barredBy, botPresent, leaveUnheard>>
      /\ configCache' = Nothing
  BY DEF Gate!Expire, Gate!Gate
<1>2. CacheFits'
  BY <1>1, ExpiredFits DEF GateInv
<1>3. ASSUME NEW k \in Jobs PROVE Denied(k)' /\ inForceSince'[k] \subseteq Forces
  <2>1. inForceSince'[k] \subseteq Gate!InForce'
    BY Watches
  <2>2. Gate!InForce' \subseteq Forces
    BY <1>1 DEF Gate!InForce, Forces, GateInv, GateTypes
  <2>3. CASE routines[k] # NoJob
    <3>1. Passed(routines[k], inForceSince'[k], k, misledBy')
      BY <2>3, <1>1, StillPassed
    <3> QED BY <3>1, <1>1, <2>1, <2>2 DEF Denied
  <2>4. CASE routines[k] = NoJob
    BY <2>4, <1>1, <2>1, <2>2 DEF Denied
  <2> QED BY <2>3, <2>4
<1>4. Gate!BlockedGuildIsLeft'
  BY <1>1 DEF GateInv, Gate!BlockedGuildIsLeft, Gate!At
<1> QED BY <1>1, <1>2, <1>3, <1>4 DEF GateInv, GateTypes

LEMMA GateConfigKeeps ==
  ASSUME GateInv, IdleIsNoTask, Gate!Watch, NEW j \in Jobs, Gate!Config(j) PROVE GateInv'
<1>1. Gate!Gate
  BY DEF Gate!Config
<1>2. CASE Gate!Asks(j)
  BY <1>1, <1>2, GateReads, GateSets, GateClears, GateSetsUp, GateEdits DEF Gate!Asks
<1>3. CASE Gate!Works(j)
  <2>1. CASE Gate!QueryFails(j) \/ Gate!ReadListFails(j) \/ Gate!AbortWizard(j)
    BY <2>1, <1>1, GateAbandons
    DEF Gate!QueryFails, Gate!ReadListFails, Gate!AbortWizard, Gate!At
  <2> QED
    BY <2>1, <1>1, <1>3, GateHits, GateMisses, GateQueries, GateFills, GateChecks, GateReadsList,
       GateStages, GateSaves, GateWrites, GateWriteFails, GateInvalidates
    DEF Gate!Works
<1> QED BY <1>2, <1>3 DEF Gate!Config

-----------------------------------------------------------------------------
\* The calls.
LEMMA MessageCreated ==
  ASSUME GateInv, Gate!Watch, NEW j \in Jobs, Gate!OnMessageCreate(j) PROVE GateInv'
<1>1. PICK name \in {"canonical", "invoked"} :
        Gate!Start(j, [Gate!Blank EXCEPT !.step = "get", !.then = "blocked", !.edit = name])
  BY DEF Gate!OnMessageCreate
<1> DEFINE r == [Gate!Blank EXCEPT !.step = "get", !.then = "blocked", !.edit = name]
<1>2. Plain(r) /\ r.step # "fill"
  BY DEF Plain, GateTask, IsTask, Fields, Gate!Blank, UpToTheLists
<1>3. UNCHANGED <<guildRow, configCache, cacheRaced, overlappedBy>> /\ Gate!Gate
  BY DEF Gate!OnMessageCreate, Gate!configVars
<1> QED BY <1>1, <1>2, <1>3, PlainBegins

LEMMA InteractionCreated ==
  ASSUME GateInv, Gate!Watch, NEW j \in Jobs, Gate!OnInteractionCreate(j) PROVE GateInv'
<1> DEFINE r == [Gate!Blank EXCEPT !.step = "guild", !.edit = "canonical"]
<1>1. Gate!Start(j, r)
  BY DEF Gate!OnInteractionCreate
<1>2. Plain(r) /\ r.step # "fill"
  BY DEF Plain, GateTask, IsTask, Fields, Gate!Blank, UpToTheLists
<1>3. UNCHANGED <<guildRow, configCache, cacheRaced, overlappedBy>> /\ Gate!Gate
  BY DEF Gate!OnInteractionCreate, Gate!configVars
<1> QED BY <1>1, <1>2, <1>3, PlainBegins

LEMMA GuildLookedUp ==
  ASSUME GateInv, Gate!Watch, NEW j \in Jobs, Gate!IsGuildBlocked(j) PROVE GateInv'
<1>1. /\ routines[j] # NoJob /\ routines[j].step = "blocked"
      /\ UNCHANGED <<guildRow, configCache, cacheRaced, overlappedBy>> /\ Gate!Gate
  BY DEF Gate!IsGuildBlocked, Gate!At, Gate!Elsewhere, Gate!configVars
<1>2. routines[j].then # "lists"
  BY <1>1, TaskIs DEF GateTask, UpToTheLists
<1>3. Gate!Goes(j, "leave") \/ Gate!Goes(j, "guild")
  BY DEF Gate!IsGuildBlocked
<1> QED BY <1>1, <1>2, <1>3, PlainGoes DEF AtStep, PlainSteps

\* A bar is looked up, and what follows if it is not there.
LEMMA LookUp ==
  ASSUME GateInv, IdleIsNoTask, Gate!Watch, NEW j \in Jobs, NEW bar \in Gate!Bars, NEW next,
         Gate!LookedUp(j, bar, next), Gate!Elsewhere, Gate!Gate,
         IsTask(next), next.step # "fill",
         bar \notin inForceSince'[j] /\ Passed(routines[j], inForceSince'[j], j, misledBy')
         => Passed(next, inForceSince'[j], j, misledBy')
  PROVE  GateInv'
<1>1. /\ routines[j] # NoJob /\ routines[j].step = bar
      /\ UNCHANGED <<guildRow, configCache, cacheRaced, overlappedBy>>
  BY DEF Gate!LookedUp, Gate!At, Gate!Elsewhere, Gate!configVars
<1>2. j \in DOMAIN routines /\ CacheFits
  BY <1>1, TaskIs DEF GateInv
<1>3. CASE Gate!Goes(j, "done")
  BY <1>1, <1>3, PlainGoes DEF AtStep, Gate!Bars
<1>4. CASE bar \notin barredBy /\ routines' = [routines EXCEPT ![j] = next]
  <2>1. routines'[j] # NoJob
    BY <1>2, <1>4 DEF IdleIsNoTask
  <2>2. Passed(routines[j], inForceSince'[j], j, misledBy')
    BY <1>1, <2>1, StillPassed
  <2>3. bar \notin inForceSince'[j]
    <3>1. inForceSince'[j] \subseteq Gate!InForce' /\ barredBy' = barredBy
      BY Watches DEF Gate!Gate
    <3> QED BY <3>1, <1>4 DEF Gate!InForce, Gate!Bars
  <2>4. CacheFits'
    BY <1>1, <1>2, <1>4, QuietFits DEF AtStep, Gate!Bars
  <2> QED BY <1>1, <1>4, <2>2, <2>3, <2>4, ConfigStep DEF AtStep, Gate!Bars
<1> QED BY <1>3, <1>4 DEF Gate!LookedUp

LEMMA CallLookedUp ==
  ASSUME GateInv, IdleIsNoTask, Gate!Watch, NEW j \in Jobs, Gate!CanExecute(j) PROVE GateInv'
<1> DEFINE t == routines[j]
<1>1. Gate!Elsewhere /\ Gate!Gate
  BY DEF Gate!CanExecute
<1>2. ASSUME NEW bar \in Gate!Bars, Gate!At(j, bar) PROVE t # NoJob /\ t.step = bar /\ GateTask(t) /\ IsTask(t)
  BY <1>2, TaskIs DEF Gate!At, GateTask
<1>3. ASSUME Gate!LookedUp(j, "guild", To(t, "user")) PROVE GateInv'
  <2> DEFINE r == To(t, "user")
  <2>1. /\ t.step = "guild" /\ GateTask(t) /\ IsTask(r) /\ r.step = "user" /\ r.then = t.then
        /\ r.edit = t.edit
    BY <1>2, <1>3, ToIs DEF Gate!LookedUp, Gate!Bars, Fields
  <2>2. "guild" \notin inForceSince'[j] /\ Passed(t, inForceSince'[j], j, misledBy')
          => Passed(r, inForceSince'[j], j, misledBy')
    BY <2>1 DEF Passed, GateTask, UpToTheLists
  <2> QED BY <1>1, <1>3, <2>1, <2>2, LookUp DEF Gate!Bars
<1>4. ASSUME Gate!LookedUp(j, "user", To(t, "canonical")) PROVE GateInv'
  <2> DEFINE r == To(t, "canonical")
  <2>1. /\ t.step = "user" /\ GateTask(t) /\ IsTask(r) /\ r.step = "canonical" /\ r.then = t.then
        /\ r.edit = t.edit
    BY <1>2, <1>4, ToIs DEF Gate!LookedUp, Gate!Bars, Fields
  <2>2. "user" \notin inForceSince'[j] /\ Passed(t, inForceSince'[j], j, misledBy')
          => Passed(r, inForceSince'[j], j, misledBy')
    BY <2>1 DEF Passed, GateTask, UpToTheLists
  <2> QED BY <1>1, <1>4, <2>1, <2>2, LookUp DEF Gate!Bars
<1>5. ASSUME Gate!LookedUp(j, "canonical", [t EXCEPT !.step = "get", !.then = "lists"]) PROVE GateInv'
  <2> DEFINE r == [t EXCEPT !.step = "get", !.then = "lists"]
  <2>1. t.step = "canonical" /\ GateTask(t)
    BY <1>2, <1>5 DEF Gate!LookedUp, Gate!Bars
  <2>2. IsTask(r) /\ r.step = "get" /\ r.then = "lists"
    BY <2>1 DEF GateTask, IsTask, Fields
  <2> HIDE DEF r
  <2>3. "canonical" \notin inForceSince'[j] /\ Passed(t, inForceSince'[j], j, misledBy')
          => Passed(r, inForceSince'[j], j, misledBy')
    BY <2>1, <2>2 DEF Passed, GateTask, UpToTheLists
  <2>4. Gate!LookedUp(j, "canonical", r)
    BY <1>5 DEF r
  <2> QED BY <1>1, <2>2, <2>3, <2>4, LookUp DEF Gate!Bars
<1>6. ASSUME Gate!LookedUp(j, "invoked", To(t, "run")) PROVE GateInv'
  <2> DEFINE r == To(t, "run")
  <2>1. /\ t.step = "invoked" /\ GateTask(t) /\ IsTask(r) /\ r.step = "run" /\ r.then = t.then
        /\ r.edit = t.edit
    BY <1>2, <1>6, ToIs DEF Gate!LookedUp, Gate!Bars, Fields
  <2>2. "invoked" \notin inForceSince'[j] /\ Passed(t, inForceSince'[j], j, misledBy')
          => Passed(r, inForceSince'[j], j, misledBy')
    BY <2>1 DEF Passed, GateTask, UpToTheLists
  <2> QED BY <1>1, <1>6, <2>1, <2>2, LookUp DEF Gate!Bars
<1> QED BY <1>3, <1>4, <1>5, <1>6 DEF Gate!CanExecute, To

LEMMA ListsLookedUp ==
  ASSUME GateInv, IdleIsNoTask, Gate!Watch, NEW j \in Jobs, Gate!GetGuildRestrictions(j)
  PROVE  GateInv'
<1> DEFINE t == routines[j]
           next == [t EXCEPT !.step = IF t.edit = "invoked" THEN "invoked" ELSE "run",
                             !.seen = Nothing]
           r == IF UnlistedIn(t.seen) THEN next ELSE NoJob
<1>1. /\ t # NoJob /\ t.step = "lists" /\ Gate!Gate
      /\ UNCHANGED <<guildRow, configCache, cacheRaced>>
      /\ overlappedBy \ {j} \subseteq overlappedBy'
  BY DEF Gate!GetGuildRestrictions, Gate!At
<1>2. /\ j \in DOMAIN routines /\ GateTask(t) /\ t.then = "lists" /\ CacheFits
  BY <1>1, TaskIs DEF GateInv, GateTask
<1>3. routines' = [routines EXCEPT ![j] = r]
  BY DEF Gate!GetGuildRestrictions, UnlistedIn
<1>4. /\ IsTask(next) /\ next.then = "lists" /\ next.edit = t.edit
      /\ next.step = IF t.edit = "invoked" THEN "invoked" ELSE "run"
  BY <1>2 DEF GateTask, IsTask, Fields
<1> HIDE DEF next
<1>5. CacheFits'
  BY <1>1, <1>2, <1>3, <1>4, QuietFits DEF AtStep
<1>6. ASSUME r # NoJob PROVE Passed(r, inForceSince'[j], j, misledBy')
  <2>1. r = next /\ UnlistedIn(t.seen) /\ routines'[j] # NoJob
    BY <1>2, <1>3, <1>6
  <2>2. Passed(t, inForceSince'[j], j, misledBy')
    BY <1>1, <2>1, StillPassed
  <2> QED BY <1>1, <1>2, <1>4, <2>1, <2>2 DEF Passed, GateTask, UpToTheLists
<1> QED BY <1>1, <1>3, <1>5, <1>6, ConfigStep DEF AtStep

LEMMA CallEnds ==
  ASSUME GateInv, Gate!Watch, NEW j \in Jobs, Gate!Run(j) \/ Gate!Reply(j) PROVE GateInv'
<1>1. /\ routines[j] # NoJob /\ routines[j].step \in {"run", "reply"} /\ Gate!Goes(j, "done")
      /\ Gate!Gate /\ UNCHANGED <<guildRow, configCache, cacheRaced, overlappedBy>>
  BY DEF Gate!Run, Gate!Reply, Gate!At, Gate!Elsewhere, Gate!configVars
<1> QED BY <1>1, PlainGoes DEF AtStep

-----------------------------------------------------------------------------
\* The bars, and who is in the guild.
LEMMA BarsStep ==
  ASSUME GateInv, IdleIsNoTask, Gate!Watch, NEW j \in Jobs, NEW step \in {"leave", "reply", "admit"},
         Gate!Start(j, [Gate!Blank EXCEPT !.step = step]),
         UNCHANGED <<guildRow, configCache, cacheRaced, overlappedBy, leaveUnheard>>,
         barredBy' \subseteq Gate!Bars,
         step = "reply" => UNCHANGED botPresent /\ ("guild" \in barredBy' => "guild" \in barredBy)
  PROVE  GateInv'
<1> DEFINE r == [Gate!Blank EXCEPT !.step = step]
<1>1. routines' = [routines EXCEPT ![j] = r] /\ routines[j] = NoJob
  BY DEF Gate!Start, Gate!Free
<1>2. Plain(r) /\ IsTask(r) /\ r.step = step
  BY DEF Plain, GateTask, IsTask, Fields, Gate!Blank, UpToTheLists
<1> HIDE DEF r
<1>3. j \in DOMAIN routines /\ CacheFits
  BY DEF GateInv, GateTypes
<1>4. CacheFits'
  BY <1>1, <1>2, <1>3, QuietFits DEF AtStep
<1>5. Gate!BlockedGuildIsLeft'
  <2>1. CASE step = "reply"
    BY <2>1, <1>1, StillLeft DEF AtStep
  <2>2. CASE step # "reply"
    <3>1. Gate!At(j, "leave")' \/ Gate!At(j, "admit")'
      BY <2>2, <1>1, <1>2, <1>3 DEF Gate!At, IdleIsNoTask
    <3> QED BY <3>1 DEF Gate!BlockedGuildIsLeft
  <2> QED BY <2>1, <2>2
<1>6. Passed(r, inForceSince'[j], j, misledBy')
  BY <1>2, PlainPasses
<1> QED BY <1>1, <1>4, <1>5, <1>6, GateStep

LEMMA BarsChange ==
  ASSUME GateInv, IdleIsNoTask, Gate!Watch, NEW j \in Jobs,
         \/ \E bar \in {"guild", "user"} : Gate!Block(j, bar) \/ Gate!Lift(j, bar)
         \/ \E name \in {"canonical", "invoked"} :
              Gate!DisableCommand(j, name) \/ Gate!EnableCommand(j, name)
  PROVE  GateInv'
<1>1. PICK step \in {"leave", "reply"} :
        /\ Gate!Start(j, [Gate!Blank EXCEPT !.step = step])
        /\ step = "reply" => ("guild" \in barredBy' => "guild" \in barredBy)
  <2>1. ASSUME NEW bar \in {"guild", "user"}, Gate!Block(j, bar)
        PROVE  \E step \in {"leave", "reply"} :
                 /\ Gate!Start(j, [Gate!Blank EXCEPT !.step = step])
                 /\ step = "reply" => ("guild" \in barredBy' => "guild" \in barredBy)
    BY <2>1 DEF Gate!Block
  <2>2. ASSUME NEW bar \in {"guild", "user"}, Gate!Lift(j, bar)
        PROVE  /\ Gate!Start(j, [Gate!Blank EXCEPT !.step = "reply"])
               /\ "guild" \in barredBy' => "guild" \in barredBy
    BY <2>2 DEF Gate!Lift
  <2>3. ASSUME NEW name \in {"canonical", "invoked"},
               Gate!DisableCommand(j, name) \/ Gate!EnableCommand(j, name)
        PROVE  /\ Gate!Start(j, [Gate!Blank EXCEPT !.step = "reply"])
               /\ "guild" \in barredBy' => "guild" \in barredBy
    BY <2>3 DEF Gate!DisableCommand, Gate!EnableCommand
  <2> QED BY <2>1, <2>2, <2>3
<1>2. /\ UNCHANGED <<guildRow, configCache, cacheRaced, overlappedBy, leaveUnheard, botPresent>>
      /\ barredBy' \subseteq Gate!Bars
  BY DEF GateInv, GateTypes, Gate!Block, Gate!Lift, Gate!DisableCommand, Gate!EnableCommand,
     Gate!Bars, Gate!configVars
<1> QED BY <1>1, <1>2, BarsStep

LEMMA GuildCreated ==
  ASSUME GateInv, IdleIsNoTask, Gate!Watch, NEW j \in Jobs, Gate!OnGuildCreate(j) PROVE GateInv'
<1>1. /\ Gate!Start(j, [Gate!Blank EXCEPT !.step = "admit"])
      /\ UNCHANGED <<guildRow, configCache, cacheRaced, overlappedBy, leaveUnheard>>
      /\ barredBy' \subseteq Gate!Bars
  BY DEF GateInv, GateTypes, Gate!OnGuildCreate, Gate!configVars
<1> QED BY <1>1, BarsStep

\* The guild is left, or looked at, or neither.
LEMMA GuildGoes ==
  ASSUME GateInv, IdleIsNoTask, Gate!Watch, NEW j \in Jobs, Gate!GuildLeave(j) \/ Gate!Admit(j)
  PROVE  GateInv'
<1>1. /\ routines[j] # NoJob /\ routines[j].step \in {"leave", "admit"}
      /\ UNCHANGED <<guildRow, configCache, cacheRaced, overlappedBy, barredBy>>
  BY DEF Gate!GuildLeave, Gate!Admit, Gate!At, Gate!Elsewhere, Gate!configVars
<1>2. /\ j \in DOMAIN routines /\ CacheFits /\ GateTask(routines[j]) /\ routines[j].then # "lists"
  BY <1>1, TaskIs DEF GateInv, GateTask, UpToTheLists
<1>3. ASSUME NEW step \in {"done", "leave"}, Gate!Goes(j, step), Gate!BlockedGuildIsLeft'
      PROVE  GateInv'
  <2> DEFINE r == IF step = "done" THEN NoJob ELSE To(routines[j], step)
  <2>1. routines' = [routines EXCEPT ![j] = r]
    BY <1>3, GoesTo
  <2>2. r # NoJob => Plain(r) /\ r.step # "fill"
    BY <1>2, ToPlain DEF PlainSteps
  <2> HIDE DEF r
  <2>3. CacheFits'
    BY <1>1, <1>2, <2>1, <2>2, QuietFits DEF AtStep
  <2>4. barredBy' \subseteq Gate!Bars
    BY <1>1 DEF GateInv, GateTypes
  <2> QED BY <1>3, <2>1, <2>2, <2>3, <2>4, PlainPasses, GateStep
<1>4. CASE Gate!GuildLeave(j)
  <2>1. Gate!Goes(j, "done") /\ (~botPresent' \/ leaveUnheard')
    BY <1>4 DEF Gate!GuildLeave
  <2>2. Gate!BlockedGuildIsLeft'
    BY <2>1 DEF Gate!BlockedGuildIsLeft
  <2> QED BY <1>3, <2>1, <2>2
<1>5. CASE Gate!Admit(j)
  <2>1. CASE Gate!Goes(j, "done") /\ leaveUnheard'
    <3>1. Gate!BlockedGuildIsLeft'
      BY <2>1 DEF Gate!BlockedGuildIsLeft
    <3> QED BY <1>3, <2>1, <3>1
  <2>2. CASE "guild" \in barredBy /\ Gate!Goes(j, "leave")
    <3>1. routines' = [routines EXCEPT ![j] = To(routines[j], "leave")]
      BY <2>2, GoesTo
    <3>2. IsTask(To(routines[j], "leave")) /\ To(routines[j], "leave").step = "leave"
      BY <1>2, ToIs DEF GateTask
    <3>3. Gate!At(j, "leave")'
      BY <3>1, <3>2, <1>2 DEF Gate!At, IdleIsNoTask
    <3>4. Gate!BlockedGuildIsLeft'
      BY <3>3 DEF Gate!BlockedGuildIsLeft
    <3> QED BY <1>3, <2>2, <3>4
  <2>3. CASE "guild" \notin barredBy /\ Gate!Goes(j, "done")
    <3>1. Gate!BlockedGuildIsLeft'
      BY <2>3, <1>1 DEF Gate!BlockedGuildIsLeft
    <3> QED BY <1>3, <2>3, <3>1
  <2> QED BY <1>5, <2>1, <2>2, <2>3 DEF Gate!Admit
<1> QED BY <1>4, <1>5

LEMMA GateKeeps ==
  ASSUME GateInv, IdleIsNoTask, [Gate!GateNext]_(Gate!gateVars) PROVE GateInv'
<1>1. CASE Gate!Expire /\ Gate!Gate /\ Gate!Watch
  BY <1>1, GateExpires
<1>2. ASSUME NEW j \in Jobs, Gate!Steps(j), Gate!Watch PROVE GateInv'
  BY <1>2, GateConfigKeeps, MessageCreated, InteractionCreated, GuildLookedUp, CallLookedUp,
     ListsLookedUp, CallEnds, BarsChange, GuildGoes, GuildCreated, GuildDeleted
  DEF Gate!Steps
<1>3. CASE UNCHANGED Gate!gateVars
  <2>1. UNCHANGED <<guildRow, configCache, cacheRaced, routines, overlappedBy, barredBy, botPresent,
                    inForceSince, misledBy, leaveUnheard>>
    BY <1>3 DEF Gate!gateVars, Gate!vars, Gate!configVars
  <2> QED
    BY <2>1 DEF GateInv, GateTypes, CacheFits, FillFits, AtStep, Denied, Gate!BlockedGuildIsLeft,
                Gate!At
<1> QED BY <1>1, <1>2, <1>3 DEF Gate!GateNext

LEMMA GateStarts == ASSUME Gate!GateInit PROVE GateInv
<1>1. /\ routines = [j \in Jobs |-> NoJob] /\ configCache = Nothing /\ barredBy = {}
      /\ inForceSince = [j \in Jobs |-> {}]
  BY DEF Gate!GateInit, Gate!Init, Gate!ConfigInit
<1> QED
  BY <1>1 DEF GateInv, GateTypes, CacheFits, FillFits, AtStep, Denied, Gate!BlockedGuildIsLeft

LEMMA GateIsKept == ASSUME GateInv PROVE Gate!DeniedStayOut /\ Gate!BlockedGuildIsLeft
<1>1. ASSUME NEW j \in Jobs, Gate!At(j, "run"), NEW x \in inForceSince[j],
             x \in {"guild", "user", "canonical", routines[j].edit, "listed"}
      PROVE  x = "listed" /\ j \in misledBy
  <2>1. Passed(routines[j], inForceSince[j], j, misledBy) /\ routines[j].step = "run"
    BY <1>1, TaskIs DEF Gate!At
  <2>2. routines[j].then = "lists" /\ inForceSince[j] \subseteq Forces
    BY <2>1 DEF Passed, GateTask, GateInv, GateTypes
  <2> QED BY <1>1, <2>1, <2>2 DEF Passed, Forces, Gate!Bars
<1> QED BY <1>1 DEF GateInv, Gate!DeniedStayOut

GateWhenRun == focus = "gate" => GateInv

\* Nobody runs a command against a bar or a list that was in force all the time the call was
\* looked at, whatever failed and however the lists, the bars and the cached configuration
\* changed meanwhile; and the bot does not stay in a blocked guild, unless Discord or the
\* database failed it (handler.OnMessageCreate, policy.CanExecute, main.go).
THEOREM GateHoldsAlways ==
    ASSUME IdleIsNoTask
    PROVE  ServicesSpec => []GateHolds
<1>1. ServicesInit => GateWhenRun
  BY InitOfOne, GateStarts DEF GateWhenRun
<1>2. GateWhenRun /\ [ServicesNext]_<<focus, From1, lockVars>> => GateWhenRun'
  BY StepOfOne, GateKeeps DEF GateWhenRun
<1>3. GateWhenRun => GateHolds
  BY GateIsKept DEF GateWhenRun, GateHolds
<1> QED BY <1>1, <1>2, <1>3, PTL DEF ServicesSpec

-----------------------------------------------------------------------------
(***************************************************************************)
(* The filters.  Of each part: its rule is what was asked for, or the sync *)
(* at work has it still to do and will do it right, or somebody has still  *)
(* to queue a sync, or one is queued and the timer, the sync at work or a  *)
(* worker that is through will see to it.                                  *)
(***************************************************************************)

\* The variables by name.
filterTables == s12
syncTask == s13
syncTimer == s14
syncInFlight == s15
syncRerun == s16
ruleOf == s17
exitingAs == s18
syncFailed == s19
syncMisled == s20
syncMisset == s21
flushLate == s22
syncRequeues == s23
USE DEF filterTables, syncTask, syncTimer, syncInFlight, syncRerun, ruleOf, exitingAs, syncFailed,
        syncMisled, syncMisset, flushLate, syncRequeues

FilterAssumed ==
  IdleIsNoTask /\ Worker \notin Jobs /\ Nothing \notin Synced /\ Nothing # Caller

\* The two commands, what they write, and the part that is concerned.
SettingOf == [part \in Filter!Parts |->
  IF part = "invites" THEN "invite_filter_enabled" ELSE "word_filter_whitelisted_roles"]
CommandOf == [part \in Filter!Parts |->
  IF part = "invites" THEN Catalogue!SetInviteFilter ELSE Catalogue!WordExemption]

IsCommand(c, kind, written) ==
  /\ c.kind = kind /\ c.writes = <<{written}>> /\ c.writes[1] = {written}
  /\ ~c.compares /\ ~c.limited /\ c.guarded /\ c.synced

LEMMA CommandsAre ==
  /\ Synced = {CommandOf["invites"], CommandOf["words"]}
  /\ IsCommand(CommandOf["invites"], "set", "invite_filter_enabled")
  /\ IsCommand(CommandOf["words"], "edit", "word_filter_whitelisted_roles")
<1>1. IsCommand(Catalogue!SetInviteFilter, "set", "invite_filter_enabled")
  BY DEF Catalogue!SetInviteFilter, Catalogue!Syncs, Catalogue!Sets, Catalogue!Command, IsCommand
<1>2. IsCommand(Catalogue!WordExemption, "edit", "word_filter_whitelisted_roles")
  BY DEF Catalogue!WordExemption, Catalogue!Syncs, Catalogue!Edits, Catalogue!Command, IsCommand
<1> QED BY <1>1, <1>2 DEF CommandOf, Synced, Filter!Parts

LEMMA SettingsAre ==
  /\ Filter!Settings = {"invite_filter_enabled", "word_filter_whitelisted_roles"}
  /\ Filter!Lists = {"word_filter_whitelisted_roles"}
  /\ Filter!Concerns = [part \in Filter!Parts |-> {SettingOf[part]}]
<1>1. \A c : DOMAIN <<c>> = {1} /\ <<c>>[1] = c
  OBVIOUS
<1>2. Filter!Of({"set"}) = {CommandOf["invites"]} /\ Filter!Of({"edit", "toggle"}) = {CommandOf["words"]}
  BY CommandsAre DEF Filter!Of, IsCommand
<1>3. Filter!Written({CommandOf["invites"]}) = {"invite_filter_enabled"}
  BY CommandsAre DEF Filter!Written, IsCommand
<1>4. Filter!Written({CommandOf["words"]}) = {"word_filter_whitelisted_roles"}
  BY CommandsAre DEF Filter!Written, IsCommand
<1>5. /\ Filter!Settings = {"invite_filter_enabled", "word_filter_whitelisted_roles"}
      /\ Filter!Lists = {"word_filter_whitelisted_roles"}
  BY <1>2, <1>3, <1>4 DEF Filter!Settings, Filter!Lists, Filter!Scalars
<1>6. Filter!Written({Filter!SetInvitePunishment, Filter!InviteExemption}) =
        {"invite_filter_enabled", "invite_filter_punishment", "invite_filter_whitelisted_roles"}
  <2>1. /\ Filter!SetInvitePunishment.writes = <<{"invite_filter_enabled", "invite_filter_punishment"}>>
        /\ Filter!InviteExemption.writes = <<{"invite_filter_whitelisted_roles"}>>
    BY DEF Filter!SetInvitePunishment, Filter!InviteExemption, Filter!Syncs, Filter!Sets,
      Filter!Edits, Filter!Command
  <2> QED BY <2>1 DEF Filter!Written
<1>7. Filter!Written({Filter!WordExemption}) = {"word_filter_whitelisted_roles"}
  <2>1. Filter!WordExemption.writes = <<{"word_filter_whitelisted_roles"}>>
    BY DEF Filter!WordExemption, Filter!Syncs, Filter!Edits, Filter!Command
  <2> QED BY <2>1 DEF Filter!Written
<1>8. Filter!Concerns = [invites |-> {"invite_filter_enabled"}, words |-> {"word_filter_whitelisted_roles"}]
  BY <1>5, <1>6, <1>7 DEF Filter!Concerns
<1> QED BY <1>5, <1>8 DEF SettingOf, Filter!Parts

LEMMA TabledIs ==
  ASSUME NEW part \in Filter!Parts
  PROVE  IsCommand(Filter!Tabled(part), "table", part)
BY DEF Filter!Tabled, Filter!Syncs, Filter!Command, IsCommand

LEMMA PartIs ==
  ASSUME NEW part \in Filter!Parts
  PROVE  /\ Filter!PartOf(CommandOf[part]) = part
         /\ Filter!PartOf(Filter!Tabled(part)) = part
<1>0. CommandOf[part].writes[1] = {SettingOf[part]} /\ CommandOf[part].kind # "table"
  BY CommandsAre DEF SettingOf, Filter!Parts, IsCommand
<1>1. \A p \in Filter!Parts : CommandOf[part].writes[1] \cap Filter!Concerns[p] # {} <=> p = part
  BY <1>0, SettingsAre DEF SettingOf, Filter!Parts
<1>2. \A p \in Filter!Parts : CommandOf[part] # Filter!Tabled(p)
  BY <1>0, TabledIs DEF IsCommand
<1>3. \A p \in Filter!Parts : Filter!Tabled(part).writes[1] \cap Filter!Concerns[p] = {}
  <2>1. Filter!Tabled(part).writes[1] = {part}
    BY TabledIs DEF IsCommand
  <2> QED BY <2>1, SettingsAre DEF SettingOf, Filter!Parts
<1>4. \A p \in Filter!Parts : Filter!Tabled(part) = Filter!Tabled(p) <=> p = part
  BY TabledIs DEF Filter!Parts, IsCommand
<1> QED BY <1>1, <1>2, <1>3, <1>4 DEF Filter!PartOf

Reading == {"get", "query", "fill"}

\* A command: a look at the configuration, one of the two, or one on a table.
FilterTask(t) ==
  /\ IsTask(t) /\ t.rest = << >>
  /\ \/ t.how = Nothing /\ t.then = "done" /\ t.step \in Reading
     \/ /\ t.how = CommandOf["invites"] /\ t.then = "write"
        /\ t.step \in Reading \cup {"write", "invalidate", "queue"}
        /\ DOMAIN t.updates \subseteq {SettingOf["invites"]}
     \/ /\ t.how = CommandOf["words"] /\ t.then = "list"
        /\ t.step \in Reading \cup {"list", "write", "invalidate", "queue"}
        /\ t.step \in {"write", "invalidate"} => DOMAIN t.updates \subseteq {SettingOf["words"]}
     \/ \E part \in Filter!Parts :
          /\ t.how = Filter!Tabled(part) /\ t.then = "table"
          /\ t.step \in Reading \cup {"table", "queue"}

\* The worker of a sync.
SyncTask(t) ==
  /\ IsTask(t) /\ t.then = "load" /\ t.item \subseteq Filter!Parts
  /\ t.step \in Reading \cup {"load", "invites", "words", "end"}

ToDo == [part \in Filter!Parts |->
  Reading \cup {"load", "invites"} \cup IF part = "words" THEN {"words"} ELSE {}]

FilterTypes ==
  /\ routines = [j \in Jobs \cup {Worker} |-> routines[j]]
  /\ \A j \in Jobs : routines[j] # NoJob => FilterTask(routines[j])
  /\ routines[Worker] # NoJob => SyncTask(routines[Worker])
  /\ Filter!Settings \subseteq DOMAIN guildRow
  /\ filterTables = [part \in Filter!Parts |-> filterTables[part]]
  /\ ruleOf = [part \in Filter!Parts |-> ruleOf[part]]
  /\ syncTask \subseteq Filter!Parts /\ syncRequeues \in Nat

\* The syncs: who is at work, and who will see to what is queued.
Seen ==
  /\ syncInFlight <=> routines[Worker] # NoJob
  /\ syncRerun => syncInFlight
  /\ exitingAs = "no" /\ syncTask # {} => syncTimer \/ syncRerun \/ syncRequeues # 0
  /\ exitingAs = "no" => ~flushLate
  /\ exitingAs = "done" => routines[Worker] = NoJob
  /\ exitingAs \in {"no", "flushing", "waiting", "done", "gave up"}

Concerned(j, part) == Filter!PartOf(routines[j].how) = part
Invalidating(part) == \E j \in Jobs : AtStep(j, "invalidate") /\ Concerned(j, part)
Queueing(part) == \E j \in Jobs : AtStep(j, "queue") /\ Concerned(j, part)

\* Somebody has to queue a sync of the part, or has done so, or it is too late.
Awaits(part) ==
  \/ Invalidating(part) \/ Queueing(part) \/ flushLate
  \/ part \in syncTask /\ exitingAs \in {"no", "flushing"}

\* The cached setting is the row's.
Agrees(part) ==
  configCache # Nothing =>
    \/ cacheRaced \/ Invalidating(part)
    \/ configCache[SettingOf[part]] = guildRow[SettingOf[part]]

\* The worker has the part still to do, and will do it right.
InHand(part) ==
  /\ routines[Worker] # NoJob /\ part \in routines[Worker].item
  /\ routines[Worker].step \in ToDo[part]

Right(part) ==
  /\ routines[Worker].step \in {"fill", "load", "invites", "words"} =>
       syncMisled \/ routines[Worker].seen[SettingOf[part]] = guildRow[SettingOf[part]]
  /\ routines[Worker].step \in {"invites", "words"} =>
       routines[Worker].updates[part] = filterTables[part]

PartFits(part) ==
  /\ Agrees(part)
  /\ Filter!Settled(part) \/ InHand(part) \/ Awaits(part)
  /\ InHand(part) => Right(part) \/ Awaits(part)

FilterInv == FilterTypes /\ Seen /\ CacheFits /\ (\A part \in Filter!Parts : PartFits(part))

SyncStays ==
  UNCHANGED <<filterTables, syncTask, syncTimer, syncInFlight, syncRerun, syncRequeues, ruleOf,
              exitingAs, syncFailed, syncMisled, syncMisset, flushLate>>

LEMMA FilterTasksAre ==
  ASSUME FilterInv, FilterAssumed
  PROVE  /\ DOMAIN routines = Jobs \cup {Worker}
         /\ \A j \in Jobs : routines[j] # NoJob => FilterTask(routines[j])
         /\ routines[Worker] # NoJob => SyncTask(routines[Worker])
         /\ CacheFits /\ Worker \notin Jobs
BY DEF FilterInv, FilterTypes, FilterAssumed

\* What a command leaves to be done keeps the types.
LEMMA FilterTyped ==
  ASSUME FilterInv, FilterAssumed, NEW j \in Jobs, NEW r, routines' = [routines EXCEPT ![j] = r],
         r # NoJob => FilterTask(r)
  PROVE  /\ routines' = [k \in Jobs \cup {Worker} |-> routines'[k]]
         /\ routines'[j] = r /\ routines'[Worker] = routines[Worker]
         /\ \A k \in Jobs \ {j} : routines'[k] = routines[k]
         /\ \A k \in Jobs : routines'[k] # NoJob => FilterTask(routines'[k])
         /\ routines'[Worker] # NoJob => SyncTask(routines'[Worker])
<1>1. /\ routines = [k \in Jobs \cup {Worker} |-> routines[k]] /\ Worker \notin Jobs
      /\ \A k \in Jobs : routines[k] # NoJob => FilterTask(routines[k])
      /\ routines[Worker] # NoJob => SyncTask(routines[Worker])
  BY DEF FilterInv, FilterTypes, FilterAssumed
<1>2. /\ routines' = [k \in Jobs \cup {Worker} |-> routines'[k]]
      /\ routines'[j] = r /\ routines'[Worker] = routines[Worker]
      /\ \A k \in Jobs \ {j} : routines'[k] = routines[k]
  BY <1>1
<1> QED BY <1>1, <1>2

\* A command that has nothing to queue goes on.
LEMMA QuietCommand ==
  ASSUME FilterInv, FilterAssumed, NEW j \in Jobs, NEW r, routines' = [routines EXCEPT ![j] = r],
         r # NoJob => FilterTask(r), ~AtStep(j, "invalidate"), ~AtStep(j, "queue"),
         UNCHANGED <<guildRow, configCache, cacheRaced>>, SyncStays,
         overlappedBy \ {j} \subseteq overlappedBy',
         r # NoJob /\ r.step = "fill" => j \in overlappedBy' \/ r.seen \in {Nothing, guildRow}
  PROVE  FilterInv'
<1>1. /\ routines' = [k \in Jobs \cup {Worker} |-> routines'[k]]
      /\ routines'[j] = r /\ routines'[Worker] = routines[Worker]
      /\ \A k \in Jobs \ {j} : routines'[k] = routines[k]
      /\ \A k \in Jobs : routines'[k] # NoJob => FilterTask(routines'[k])
      /\ routines'[Worker] # NoJob => SyncTask(routines'[Worker])
  BY FilterTyped
<1>2. FilterTypes'
  BY <1>1 DEF FilterTypes, FilterInv, SyncStays
<1>3. Seen'
  BY <1>1 DEF Seen, FilterInv, SyncStays
<1>4. CacheFits'
  BY FilterTasksAre, QuietFits
<1>5. ASSUME NEW part \in Filter!Parts PROVE PartFits(part)'
  <2>1. Invalidating(part) => Invalidating(part)'
    BY <1>1 DEF Invalidating, AtStep, Concerned
  <2>2. Queueing(part) => Queueing(part)'
    BY <1>1 DEF Queueing, AtStep, Concerned
  <2>3. Agrees(part) => Agrees(part)'
    BY <2>1 DEF Agrees
  <2>4. Awaits(part) => Awaits(part)'
    BY <2>1, <2>2 DEF Awaits, SyncStays
  <2>5. Filter!Settled(part) => Filter!Settled(part)'
    BY DEF Filter!Settled, Filter!Wanted, SyncStays
  <2>6. (InHand(part)' <=> InHand(part)) /\ (Right(part) => Right(part)')
    BY <1>1 DEF InHand, Right, SyncStays
  <2> QED BY <2>3, <2>4, <2>5, <2>6 DEF PartFits, FilterInv
<1> QED BY <1>2, <1>3, <1>4, <1>5 DEF FilterInv

-----------------------------------------------------------------------------
\* The commands begin.
LEMMA FilterBlank == IsTask(Filter!Blank)
BY DEF IsTask, Fields, Filter!Blank

LEMMA FilterGoesTo ==
  ASSUME NEW j \in Jobs \cup {Worker}, NEW step, Filter!Goes(j, step)
  PROVE  routines' = [routines EXCEPT ![j] = IF step = "done" THEN NoJob ELSE To(routines[j], step)]
BY DEF Filter!Goes, To

LEMMA FilterBegins ==
  ASSUME FilterInv, FilterAssumed, NEW j \in Jobs, NEW r, Filter!Start(j, r), FilterTask(r),
         r.step = "get", UNCHANGED <<guildRow, configCache, cacheRaced, overlappedBy>>, SyncStays
  PROVE  FilterInv'
<1>1. routines' = [routines EXCEPT ![j] = r] /\ routines[j] = NoJob
  BY DEF Filter!Start, Filter!Free
<1> QED BY <1>1, QuietCommand DEF AtStep

LEMMA FilterReads ==
  ASSUME FilterInv, FilterAssumed, NEW j \in Jobs, Filter!Read(j), SyncStays PROVE FilterInv'
<1> DEFINE r == [Filter!Blank EXCEPT !.step = "get"]
<1>1. FilterTask(r) /\ r.step = "get"
  BY DEF FilterTask, IsTask, Fields, Filter!Blank, Reading
<1>2. Filter!Start(j, r) /\ UNCHANGED <<guildRow, configCache, cacheRaced, overlappedBy>>
  BY DEF Filter!Read, Filter!configVars
<1> QED BY <1>1, <1>2, FilterBegins

LEMMA FilterSets ==
  ASSUME FilterInv, FilterAssumed, NEW j \in Jobs, NEW c \in Synced, Filter!Set(j, c), SyncStays
  PROVE  FilterInv'
<1>0. c = CommandOf["invites"] /\ c.synced /\ c.writes = <<{"invite_filter_enabled"}>>
  BY CommandsAre DEF IsCommand, Filter!Set
<1>1. PICK value \in {0, s7 + 1} :
        Filter!Start(j, [Filter!Blank EXCEPT
                         !.step = Filter!First(c, IF c.compares THEN "check" ELSE "write"),
                         !.then = "write", !.how = c, !.value = value,
                         !.updates = Filter!NewUpdates(Head(c.writes), value),
                         !.rest = Tail(c.writes)])
  BY DEF Filter!Set
<1> DEFINE step == Filter!First(c, IF c.compares THEN "check" ELSE "write")
           u == Filter!NewUpdates(Head(c.writes), value)
           rest == Tail(c.writes)
<1>2. step = "get" /\ rest = << >>
  BY <1>0 DEF Filter!First
<1>3. DOMAIN u \subseteq {SettingOf["invites"]}
  <2>1. Head(c.writes) = {"invite_filter_enabled"}
    BY <1>0
  <2> QED BY <2>1 DEF Filter!NewUpdates, SettingOf, Filter!Parts
<1> HIDE DEF step, u, rest
<1> DEFINE r == [Filter!Blank EXCEPT !.step = step, !.then = "write", !.how = c, !.value = value,
                                     !.updates = u, !.rest = rest]
<1>4. /\ IsTask(r) /\ r.step = "get" /\ r.then = "write" /\ r.how = c /\ r.updates = u
      /\ r.rest = << >>
  BY <1>2 DEF IsTask, Fields, Filter!Blank
<1>5. Filter!Start(j, r)
  BY <1>1 DEF step, u, rest
<1> HIDE DEF r
<1>6. FilterTask(r)
  BY <1>0, <1>3, <1>4 DEF FilterTask, Reading
<1>7. UNCHANGED <<guildRow, configCache, cacheRaced, overlappedBy>>
  BY DEF Filter!Set
<1> QED BY <1>4, <1>5, <1>6, <1>7, FilterBegins

LEMMA FilterEdits ==
  ASSUME FilterInv, FilterAssumed, NEW j \in Jobs, NEW c \in Synced, NEW edit, NEW i,
         Filter!Edit(j, c, edit, i), SyncStays
  PROVE  FilterInv'
<1>0. c = CommandOf["words"] /\ c.synced
  BY CommandsAre DEF IsCommand, Filter!Edit
<1> DEFINE step == Filter!First(c, "list")
<1>2. step = "get"
  BY <1>0 DEF Filter!First
<1> HIDE DEF step
<1> DEFINE r == [Filter!Blank EXCEPT !.step = step, !.then = "list", !.how = c, !.edit = edit,
                                     !.item = i]
<1>3. IsTask(r) /\ r.step = "get" /\ r.then = "list" /\ r.how = c /\ r.rest = << >>
  BY <1>2 DEF IsTask, Fields, Filter!Blank
<1>4. Filter!Start(j, r)
  BY DEF Filter!Edit, step
<1> HIDE DEF r
<1>5. FilterTask(r)
  BY <1>0, <1>3 DEF FilterTask, Reading
<1>6. UNCHANGED <<guildRow, configCache, cacheRaced, overlappedBy>>
  BY DEF Filter!Edit
<1> QED BY <1>3, <1>4, <1>5, <1>6, FilterBegins

LEMMA NoOtherCommands ==
  ASSUME NEW j \in Jobs, NEW c \in Synced
  PROVE  ~Filter!Clear(j, c) /\ ~Filter!AcquireSetupLock(j, c)
BY CommandsAre DEF IsCommand, Filter!Clear, Filter!AcquireSetupLock

LEMMA FilterTables ==
  ASSUME FilterInv, FilterAssumed, NEW j \in Jobs, NEW part \in Filter!Parts, NEW edit, NEW es,
         Filter!EditTable(j, part, edit, es)
  PROVE  FilterInv'
<1> DEFINE c == Filter!Tabled(part)
<1> DEFINE r == [Filter!Blank EXCEPT !.step = "get", !.then = "table", !.how = c, !.edit = edit,
                                     !.item = es]
<1>1. Filter!Start(j, r)
  BY DEF Filter!EditTable
<1> HIDE DEF c
<1>2. IsTask(r) /\ r.step = "get" /\ r.then = "table" /\ r.how = c /\ r.rest = << >>
  BY DEF IsTask, Fields, Filter!Blank
<1> HIDE DEF r
<1>3. FilterTask(r)
  BY <1>2 DEF FilterTask, Reading, c
<1>4. UNCHANGED <<guildRow, configCache, cacheRaced, overlappedBy>> /\ SyncStays
  BY DEF Filter!EditTable, SyncStays, Filter!syncer, Filter!ghosts
<1> QED BY <1>1, <1>2, <1>3, <1>4, FilterBegins

LEMMA FilterHandled ==
  ASSUME FilterInv, FilterAssumed, NEW j \in Jobs,
         Filter!HandleInvites(j) \/ Filter!HandleWords(j) \/ Filter!HandleRegex(j)
  PROVE  FilterInv'
<1>1. PICK part \in Filter!Parts, edit \in {"add", "remove", "clear"}, es \in SUBSET Entries :
        Filter!EditTable(j, part, edit, es)
  BY DEF Filter!HandleInvites, Filter!HandleWords, Filter!HandleRegex, Filter!Parts
<1> QED BY <1>1, FilterTables
-----------------------------------------------------------------------------
\* The commands go on.
LEMMA FilterTaskIs ==
  ASSUME FilterInv, FilterAssumed, NEW j \in Jobs, routines[j] # NoJob
  PROVE  FilterTask(routines[j]) /\ IsTask(routines[j])
BY FilterTasksAre DEF FilterTask

LEMMA FilterSteps ==
  ASSUME FilterInv, FilterAssumed, NEW j \in Jobs, routines[j] # NoJob
  PROVE  routines[j].step \in Reading \cup {"list", "table", "write", "invalidate", "queue"}
BY FilterTaskIs DEF FilterTask

\* The other step a task may come to while it looks at the configuration.
LEMMA OnToThen ==
  ASSUME NEW t, NEW r, FilterTask(t), t.step \in Reading, IsTask(r),
         r.step \in Reading \cup {t.then}, r.step # "done",
         \A f \in Fields \ {"step", "seen"} : r[f] = t[f],
         r.step = "write" => r.then = "write"
  PROVE  FilterTask(r)
<1>1. /\ r.rest = << >> /\ r.then = t.then /\ r.how = t.how /\ r.updates = t.updates
  BY DEF FilterTask, Fields
<1>2. CASE t.then = "done"
  <2>1. t.how = Nothing
    BY <1>2 DEF FilterTask
  <2> QED BY <1>1, <1>2, <2>1 DEF FilterTask
<1>3. CASE t.then = "write"
  <2>1. t.how = CommandOf["invites"] /\ DOMAIN t.updates \subseteq {SettingOf["invites"]}
    BY <1>3 DEF FilterTask
  <2> QED BY <1>1, <1>3, <2>1 DEF FilterTask
<1>4. CASE t.then = "list"
  <2>1. t.how = CommandOf["words"]
    BY <1>4 DEF FilterTask
  <2>2. r.step \notin {"write", "invalidate"}
    BY <1>4 DEF Reading
  <2> QED BY <1>1, <1>4, <2>1, <2>2 DEF FilterTask
<1>5. CASE t.then = "table"
  <2>1. PICK part \in Filter!Parts : t.how = Filter!Tabled(part)
    BY <1>5 DEF FilterTask
  <2> QED BY <1>1, <1>5, <2>1 DEF FilterTask
<1> QED BY <1>2, <1>3, <1>4, <1>5 DEF FilterTask

LEMMA FilterHits ==
  ASSUME FilterInv, FilterAssumed, NEW j \in Jobs, Filter!Hit(j), SyncStays PROVE FilterInv'
<1> DEFINE t == routines[j]
           r == [t EXCEPT !.step = t.then, !.seen = configCache]
           s == IF t.then = "done" THEN NoJob ELSE r
<1>1. t # NoJob /\ t.step = "get" /\ FilterTask(t) /\ IsTask(t)
  BY FilterTaskIs DEF Filter!Hit, Filter!At
<1>2. routines' = [routines EXCEPT ![j] = s]
  BY DEF Filter!Hit
<1>3. IsTask(r) /\ r.step = t.then /\ \A f \in Fields \ {"step", "seen"} : r[f] = t[f]
  BY <1>1 DEF IsTask, Fields
<1>4. t.then \notin Reading
  BY <1>1 DEF FilterTask, Reading
<1> HIDE DEF t, r
<1>5. t.then # "done" => FilterTask(r)
  <2>1. r.step = "write" => r.then = "write"
    BY <1>3 DEF Fields
  <2> QED BY <1>1, <1>3, <2>1, OnToThen DEF Reading
<1>6. s # NoJob => FilterTask(s) /\ s.step # "fill"
  BY <1>3, <1>4, <1>5 DEF Reading
<1>7. /\ UNCHANGED <<guildRow, configCache, cacheRaced>> /\ overlappedBy \ {j} \subseteq overlappedBy'
      /\ ~AtStep(j, "invalidate") /\ ~AtStep(j, "queue")
  BY <1>1 DEF Filter!Hit, AtStep, t
<1> HIDE DEF s
<1> QED BY <1>2, <1>6, <1>7, QuietCommand

LEMMA FilterQueries ==
  ASSUME FilterInv, FilterAssumed, NEW j \in Jobs, Filter!Query(j), SyncStays PROVE FilterInv'
<1> DEFINE t == routines[j]
           next == IF s2 THEN "fill" ELSE t.then
           r == [t EXCEPT !.step = next, !.seen = guildRow]
           s == IF next = "done" THEN NoJob ELSE r
<1>1. t # NoJob /\ t.step = "query" /\ FilterTask(t) /\ IsTask(t)
  BY FilterTaskIs DEF Filter!Query, Filter!At
<1>2. routines' = [routines EXCEPT ![j] = s]
  BY DEF Filter!Query
<1>3. /\ IsTask(r) /\ r.step = next /\ r.seen = guildRow
      /\ \A f \in Fields \ {"step", "seen"} : r[f] = t[f]
  BY <1>1 DEF IsTask, Fields
<1>4. next \in {"fill", t.then} /\ t.then # "fill"
  BY <1>1 DEF FilterTask, Reading
<1> HIDE DEF t, r, next
<1>5. next # "done" => FilterTask(r)
  <2>1. r.then = t.then
    BY <1>3 DEF Fields
  <2>2. r.step = "write" => r.then = "write"
    BY <1>3, <1>4, <2>1 DEF Fields
  <2> QED BY <1>1, <1>3, <1>4, <2>2, OnToThen DEF Reading
<1>6. s # NoJob => FilterTask(s) /\ s.seen = guildRow
  BY <1>3, <1>5
<1>7. /\ UNCHANGED <<guildRow, configCache, cacheRaced>> /\ overlappedBy \ {j} \subseteq overlappedBy'
      /\ ~AtStep(j, "invalidate") /\ ~AtStep(j, "queue")
  BY <1>1 DEF Filter!Query, AtStep, t
<1> HIDE DEF s
<1> QED BY <1>2, <1>6, <1>7, QuietCommand

LEMMA FilterMisses ==
  ASSUME FilterInv, FilterAssumed, NEW j \in Jobs, Filter!Miss(j), SyncStays PROVE FilterInv'
<1> DEFINE t == routines[j]
           r == To(t, "query")
<1>1. t # NoJob /\ t.step = "get" /\ FilterTask(t) /\ IsTask(t)
  BY FilterTaskIs DEF Filter!Miss, Filter!At
<1>2. routines' = [routines EXCEPT ![j] = r]
  BY FilterGoesTo DEF Filter!Miss
<1>3. IsTask(r) /\ r.step = "query" /\ \A f \in Fields \ {"step"} : r[f] = t[f]
  BY <1>1, ToIs
<1> HIDE DEF t, r
<1>4. FilterTask(r)
  BY <1>1, <1>3, OnToThen DEF Reading
<1>5. /\ UNCHANGED <<guildRow, configCache, cacheRaced, overlappedBy>>
      /\ ~AtStep(j, "invalidate") /\ ~AtStep(j, "queue")
  BY <1>1 DEF Filter!Miss, Filter!configVars, AtStep, t
<1> QED BY <1>2, <1>3, <1>4, <1>5, QuietCommand

\* A command fails.
LEMMA FilterAbandons ==
  ASSUME FilterInv, FilterAssumed, NEW j \in Jobs, Filter!Goes(j, "done"), SyncStays,
         UNCHANGED <<guildRow, configCache, cacheRaced>>, overlappedBy \ {j} \subseteq overlappedBy',
         ~AtStep(j, "invalidate"), ~AtStep(j, "queue")
  PROVE  FilterInv'
<1>1. routines' = [routines EXCEPT ![j] = NoJob]
  BY FilterGoesTo
<1> QED BY <1>1, QuietCommand

LEMMA FilterFails ==
  ASSUME FilterInv, FilterAssumed, NEW j \in Jobs, SyncStays,
         Filter!QueryFails(j) \/ Filter!ReadListFails(j) \/ Filter!WriteFails(j)
  PROVE  FilterInv'
<1>1. routines[j] # NoJob /\ routines[j].step \in {"query", "list", "write"}
  BY DEF Filter!QueryFails, Filter!ReadListFails, Filter!WriteFails, Filter!At
<1>2. routines[j].rest = << >>
  BY <1>1, FilterTaskIs DEF FilterTask
<1>3. Filter!Abandon(j)
  BY <1>2 DEF Filter!QueryFails, Filter!ReadListFails, Filter!WriteFails
<1> QED BY <1>1, <1>3, FilterAbandons DEF Filter!Abandon, AtStep

\* The list of roles is read, and edited or not.
LEMMA FilterReadsList ==
  ASSUME FilterInv, FilterAssumed, NEW j \in Jobs, Filter!ReadList(j), SyncStays PROVE FilterInv'
<1> DEFINE t == routines[j]
           c == t.how
           l == CHOOSE s \in c.writes[1] : TRUE
           i == t.item
           found == guildRow[l]
           adds == IF c.kind = "toggle" THEN i \notin found ELSE t.edit = "add"
           edited == IF adds THEN found \cup {i} ELSE found \ {i}
           full == c.limited /\ adds /\ Cardinality(found) >= 25
           u == [s \in {l} |-> edited]
           r == [t EXCEPT !.step = "write", !.updates = u, !.seen = Nothing]
<1>1. t # NoJob /\ t.step = "list" /\ FilterTask(t) /\ IsTask(t)
  BY FilterTaskIs DEF Filter!ReadList, Filter!At
<1>2. c = CommandOf["words"] /\ t.then = "list" /\ t.rest = << >>
  BY <1>1, FilterSteps DEF FilterTask, Reading
<1>3. l = SettingOf["words"]
  BY <1>2, CommandsAre DEF IsCommand, SettingOf, Filter!Parts
<1>4. UNCHANGED <<guildRow, configCache, cacheRaced>> /\ overlappedBy \ {j} \subseteq overlappedBy'
  BY DEF Filter!ReadList
<1>5. ~AtStep(j, "invalidate") /\ ~AtStep(j, "queue")
  BY <1>1 DEF AtStep
<1>6. \/ Filter!Goes(j, "done")
      \/ routines' = [routines EXCEPT ![j].step = "write", ![j].updates = u, ![j].seen = Nothing]
  BY DEF Filter!ReadList
<1>7. CASE Filter!Goes(j, "done")
  BY <1>4, <1>5, <1>7, FilterAbandons
<1>8. DOMAIN u = {l}
  OBVIOUS
<1> HIDE DEF u, edited, l, adds, found, full
<1>9. CASE routines' = [routines EXCEPT ![j].step = "write", ![j].updates = u, ![j].seen = Nothing]
  <2>1. routines' = [routines EXCEPT ![j] = r]
    BY <1>9
  <2>2. /\ IsTask(r) /\ r.step = "write" /\ r.updates = u /\ r.how = c /\ r.then = "list"
        /\ r.rest = << >>
    BY <1>1, <1>2 DEF IsTask, Fields
  <2> HIDE DEF r, c
  <2>3. FilterTask(r)
    BY <1>2, <1>3, <1>8, <2>2 DEF FilterTask
  <2> QED BY <1>4, <1>5, <2>1, <2>2, <2>3, QuietCommand
<1> QED BY <1>6, <1>7, <1>9
-----------------------------------------------------------------------------
\* A step of a command: what has to be shown of it.
LEMMA FilterStep ==
  ASSUME FilterInv, FilterAssumed, NEW j \in Jobs, NEW r, routines' = [routines EXCEPT ![j] = r],
         r # NoJob => FilterTask(r), Filter!Settings \subseteq DOMAIN guildRow',
         filterTables' = [part \in Filter!Parts |-> filterTables'[part]],
         syncTask' \subseteq Filter!Parts,
         UNCHANGED <<syncInFlight, syncRerun, syncRequeues, ruleOf, exitingAs>>,
         exitingAs = "no" /\ syncTask' # {} => syncTimer' \/ syncRerun \/ syncRequeues # 0,
         exitingAs = "no" => ~flushLate',
         CacheFits', \A part \in Filter!Parts : PartFits(part)'
  PROVE  FilterInv'
<1>1. /\ routines' = [k \in Jobs \cup {Worker} |-> routines'[k]]
      /\ routines'[Worker] = routines[Worker]
      /\ \A k \in Jobs : routines'[k] # NoJob => FilterTask(routines'[k])
      /\ routines'[Worker] # NoJob => SyncTask(routines'[Worker])
  BY FilterTyped
<1>2. FilterTypes'
  BY <1>1 DEF FilterTypes, FilterInv
<1>3. Seen'
  BY <1>1 DEF Seen, FilterInv
<1> QED BY <1>2, <1>3 DEF FilterInv

\* What the others have still to do stays so; and whoever begins does it too.
LEMMA OthersStay ==
  ASSUME FilterInv, FilterAssumed, NEW j \in Jobs, NEW r, routines' = [routines EXCEPT ![j] = r],
         NEW part, ~(AtStep(j, "invalidate") /\ Concerned(j, part)),
         ~(AtStep(j, "queue") /\ Concerned(j, part))
  PROVE  /\ Invalidating(part) => Invalidating(part)'
         /\ Queueing(part) => Queueing(part)'
<1>1. \A k \in Jobs \ {j} : routines'[k] = routines[k]
  BY DEF FilterInv, FilterTypes
<1>2. Invalidating(part) => Invalidating(part)'
  BY <1>1 DEF Invalidating, AtStep, Concerned
<1>3. Queueing(part) => Queueing(part)'
  BY <1>1 DEF Queueing, AtStep, Concerned
<1> QED BY <1>2, <1>3

LEMMA WantsTheSame ==
  ASSUME NEW part \in Filter!Parts, NEW c, NEW d, NEW ts, NEW us,
         c[SettingOf[part]] = d[SettingOf[part]], ts[part] = us[part]
  PROVE  Filter!Wanted(part, c, ts) = Filter!Wanted(part, d, us)
<1>1. Filter!Concerns[part] = {SettingOf[part]}
  BY SettingsAre
<1> QED BY <1>1 DEF Filter!Wanted

\* What a step of a command leaves of a part that it does not change.
LEMMA PartStays ==
  ASSUME FilterInv, FilterAssumed, NEW j \in Jobs, NEW r, routines' = [routines EXCEPT ![j] = r],
         NEW part \in Filter!Parts, ~(AtStep(j, "invalidate") /\ Concerned(j, part)),
         ~(AtStep(j, "queue") /\ Concerned(j, part)),
         guildRow'[SettingOf[part]] = guildRow[SettingOf[part]],
         filterTables'[part] = filterTables[part], syncTask \subseteq syncTask',
         UNCHANGED <<ruleOf, exitingAs, syncFailed, syncMisled, syncMisset>>,
         flushLate => flushLate', Agrees(part)'
  PROVE  PartFits(part)'
<1>1. routines'[Worker] = routines[Worker]
  BY DEF FilterInv, FilterTypes, FilterAssumed
<1>2. /\ Invalidating(part) => Invalidating(part)'
      /\ Queueing(part) => Queueing(part)'
  BY OthersStay
<1>3. Awaits(part) => Awaits(part)'
  BY <1>2 DEF Awaits
<1>4. Filter!Wanted(part, guildRow, filterTables) = Filter!Wanted(part, guildRow', filterTables')
  BY WantsTheSame
<1>5. Filter!Settled(part) => Filter!Settled(part)'
  BY <1>4 DEF Filter!Settled
<1>6. (InHand(part)' <=> InHand(part)) /\ (Right(part) => Right(part)')
  BY <1>1 DEF InHand, Right
<1> QED BY <1>3, <1>5, <1>6 DEF PartFits, FilterInv

\* The cached setting stays what it is.
LEMMA AgreesStill ==
  ASSUME FilterInv, FilterAssumed, NEW part \in Filter!Parts,
         UNCHANGED <<configCache, cacheRaced>>,
         guildRow'[SettingOf[part]] = guildRow[SettingOf[part]],
         Invalidating(part) => Invalidating(part)'
  PROVE  Agrees(part)'
BY DEF FilterInv, PartFits, Agrees

LEMMA FilterFills ==
  ASSUME FilterInv, FilterAssumed, NEW j \in Jobs, Filter!Fill(j), SyncStays PROVE FilterInv'
<1> DEFINE t == routines[j]
           r == IF t.then = "done" THEN NoJob ELSE To(t, t.then)
<1>1. t # NoJob /\ t.step = "fill" /\ FilterTask(t) /\ IsTask(t)
  BY FilterTaskIs DEF Filter!Fill, Filter!At
<1>2. routines' = [routines EXCEPT ![j] = r]
  BY FilterGoesTo DEF Filter!Fill
<1>3. /\ IsTask(To(t, t.then)) /\ To(t, t.then).step = t.then
      /\ \A f \in Fields \ {"step"} : To(t, t.then)[f] = t[f]
  BY <1>1, ToIs
<1>4. /\ UNCHANGED guildRow /\ configCache' = t.seen /\ cacheRaced' = (j \in overlappedBy)
      /\ overlappedBy \ {j} \subseteq overlappedBy'
  BY DEF Filter!Fill
<1>5. AtStep(j, "fill") /\ ~AtStep(j, "invalidate") /\ ~AtStep(j, "queue")
  BY <1>1 DEF AtStep
<1> HIDE DEF t
<1>6. t.then \notin Reading /\ t.then \in {"done", "write", "list", "table"}
  BY <1>1 DEF FilterTask, Reading
<1>7. t.then # "done" => FilterTask(To(t, t.then))
  BY <1>1, <1>3, OnToThen DEF Reading, Fields
<1>8. r # NoJob => FilterTask(r) /\ r.step # "fill"
  BY <1>3, <1>6, <1>7 DEF Reading
<1> HIDE DEF r
<1>9. j \in DOMAIN routines /\ CacheFits
  BY FilterTasksAre
<1>10. CacheFits'
  BY <1>2, <1>4, <1>5, <1>8, <1>9, FilledFits DEF t
<1>11. ASSUME NEW part \in Filter!Parts PROVE PartFits(part)'
  <2>1. j \in overlappedBy \/ t.seen \in {Nothing, guildRow}
    BY <1>5, <1>9 DEF CacheFits, FillFits, t
  <2>2. Agrees(part)'
    BY <1>4, <2>1 DEF Agrees
  <2> QED BY <1>2, <1>4, <1>5, <2>2, PartStays DEF SyncStays
<1> QED BY <1>2, <1>4, <1>8, <1>10, <1>11, FilterStep DEF FilterInv, FilterTypes, Seen, SyncStays

\* A setting is written.
LEMMA FilterWrites ==
  ASSUME FilterInv, FilterAssumed, NEW j \in Jobs, Filter!Write(j), SyncStays PROVE FilterInv'
<1> DEFINE t == routines[j]
           u == t.updates
           r == To(t, "invalidate")
<1>1. t # NoJob /\ t.step = "write" /\ FilterTask(t) /\ IsTask(t)
  BY FilterTaskIs DEF Filter!Write, Filter!At
<1>2. routines' = [routines EXCEPT ![j] = r]
  BY FilterGoesTo DEF Filter!Write
<1>3. IsTask(r) /\ r.step = "invalidate" /\ \A f \in Fields \ {"step"} : r[f] = t[f]
  BY <1>1, ToIs
<1>4. /\ guildRow' = [s \in Filter!Settings |-> IF s \in DOMAIN u THEN u[s] ELSE guildRow[s]]
      /\ overlappedBy' = (overlappedBy \cup Filter!Informed) \ {j}
      /\ UNCHANGED <<configCache, cacheRaced>>
  BY DEF Filter!Write
<1>5. ~AtStep(j, "invalidate") /\ ~AtStep(j, "queue")
  BY <1>1 DEF AtStep
<1>6. j \in DOMAIN routines /\ CacheFits
  BY FilterTasksAre
<1>7. \A k \in DOMAIN routines \ {j} :
        k \in overlappedBy \/ (routines[k] # NoJob /\ routines[k].seen # Nothing)
          => k \in overlappedBy'
  BY <1>4 DEF Filter!Informed
<1> HIDE DEF t, r
<1>8. PICK p \in Filter!Parts : t.how = CommandOf[p] /\ DOMAIN u \subseteq {SettingOf[p]}
  BY <1>1 DEF FilterTask, Reading, Filter!Parts
<1>9. FilterTask(r) /\ r # NoJob
  <2>1. /\ r.rest = << >> /\ r.then = t.then /\ r.how = t.how /\ r.updates = t.updates
    BY <1>1, <1>3 DEF FilterTask, Fields
  <2>2. FilterTask(r)
    BY <1>1, <1>3, <2>1 DEF FilterTask, Reading
  <2> QED BY <1>3, <2>2 DEF FilterAssumed, IdleIsNoTask
<1>10. CacheFits'
  BY <1>2, <1>3, <1>6, <1>7, <1>9, WrittenFits
<1>11. routines'[j] = r
  BY <1>2, <1>6
<1>12. AtStep(j, "invalidate")' /\ Concerned(j, p)'
  <2>1. r.how = CommandOf[p]
    BY <1>3, <1>8 DEF Fields
  <2> QED BY <1>3, <1>9, <1>11, <2>1, PartIs DEF AtStep, Concerned
<1>13. ASSUME NEW part \in Filter!Parts PROVE PartFits(part)'
  <2>1. CASE part = p
    <3>1. Invalidating(part)'
      BY <1>12, <2>1 DEF Invalidating
    <3> QED BY <3>1 DEF PartFits, Agrees, Awaits
  <2>2. CASE part # p
    <3>1. SettingOf[part] # SettingOf[p] /\ SettingOf[part] \in Filter!Settings
      BY <2>2, SettingsAre DEF SettingOf, Filter!Parts
    <3>2. guildRow'[SettingOf[part]] = guildRow[SettingOf[part]]
      BY <1>4, <1>8, <3>1
    <3>3. Agrees(part)'
      BY <1>2, <1>4, <1>5, <3>2, OthersStay, AgreesStill
    <3> QED BY <1>2, <1>5, <3>2, <3>3, PartStays DEF SyncStays
  <2> QED BY <2>1, <2>2
<1>14. Filter!Settings \subseteq DOMAIN guildRow'
  BY <1>4
<1> QED BY <1>2, <1>9, <1>10, <1>13, <1>14, FilterStep DEF FilterInv, FilterTypes, Seen, SyncStays

\* The cached copy is thrown away; then a sync has to be queued.
LEMMA FilterInvalidates ==
  ASSUME FilterInv, FilterAssumed, NEW j \in Jobs, Filter!Invalidate(j), SyncStays PROVE FilterInv'
<1> DEFINE t == routines[j]
           r == To(t, "queue")
<1>1. t # NoJob /\ t.step = "invalidate" /\ FilterTask(t) /\ IsTask(t)
  BY FilterTaskIs DEF Filter!Invalidate, Filter!At
<1>2. IsTask(r) /\ r.step = "queue" /\ \A f \in Fields \ {"step"} : r[f] = t[f]
  BY <1>1, ToIs
<1>3. UNCHANGED <<guildRow, overlappedBy>> /\ configCache' = Nothing
  BY DEF Filter!Invalidate
<1>4. j \in DOMAIN routines /\ CacheFits
  BY FilterTasksAre
<1>5. PICK p \in Filter!Parts : t.how = CommandOf[p] /\ t.rest = << >>
  BY <1>1 DEF FilterTask, Reading, Filter!Parts
<1>6. CommandOf[p].synced /\ CommandOf[p] # Nothing
  BY CommandsAre DEF IsCommand, Filter!Parts, FilterAssumed
<1>7. routines' = [routines EXCEPT ![j] = r]
  <2>1. Filter!Follows(j)
    BY DEF Filter!Invalidate
  <2>2. Filter!Goes(j, "queue")
    BY <1>5, <1>6, <2>1 DEF Filter!Follows
  <2> QED BY <2>2, FilterGoesTo
<1> HIDE DEF t, r
<1>8. FilterTask(r) /\ r # NoJob
  <2>1. /\ r.rest = << >> /\ r.then = t.then /\ r.how = t.how /\ r.updates = t.updates
    BY <1>1, <1>2 DEF FilterTask, Fields
  <2>2. FilterTask(r)
    BY <1>1, <1>2, <2>1 DEF FilterTask, Reading
  <2> QED BY <1>2, <2>2 DEF FilterAssumed, IdleIsNoTask
<1>9. CacheFits'
  BY <1>2, <1>3, <1>4, <1>7, InvalidatedFits
<1>10. routines'[j] = r
  BY <1>4, <1>7
<1>11. AtStep(j, "queue")' /\ Concerned(j, p)'
  <2>1. r.how = CommandOf[p]
    BY <1>2, <1>5 DEF Fields
  <2> QED BY <1>2, <1>8, <1>10, <2>1, PartIs DEF AtStep, Concerned
<1>12. ASSUME NEW part \in Filter!Parts PROVE PartFits(part)'
  <2>1. Agrees(part)'
    BY <1>3 DEF Agrees
  <2>2. CASE part = p
    <3>1. Queueing(part)'
      BY <1>11, <2>2 DEF Queueing
    <3> QED BY <2>1, <3>1 DEF PartFits, Awaits
  <2>3. CASE part # p
    <3>1. ~Concerned(j, part)
      BY <1>5, <2>3, PartIs DEF Concerned, t
    <3> QED BY <1>3, <1>7, <2>1, <3>1, PartStays DEF SyncStays
  <2> QED BY <2>2, <2>3
<1> QED BY <1>3, <1>7, <1>8, <1>9, <1>12, FilterStep DEF FilterInv, FilterTypes, Seen, SyncStays
\* The entries of a part are edited, or not.
LEMMA FilterEditsTable ==
  ASSUME FilterInv, FilterAssumed, NEW j \in Jobs, Filter!Table(j) PROVE FilterInv'
<1> DEFINE t == routines[j]
           r == To(t, "queue")
           chosen == CHOOSE p \in Filter!Parts : t.how = Filter!Tabled(p)
           results == Filter!Outcomes(chosen, filterTables[chosen], t.edit, t.item)
<1>1. t # NoJob /\ t.step = "table" /\ FilterTask(t) /\ IsTask(t)
  BY FilterTaskIs DEF Filter!Table, Filter!At
<1>2. IsTask(r) /\ r.step = "queue" /\ \A f \in Fields \ {"step"} : r[f] = t[f]
  BY <1>1, ToIs
<1>3. /\ UNCHANGED <<guildRow, configCache, cacheRaced>>
      /\ overlappedBy \ {j} \subseteq overlappedBy'
      /\ UNCHANGED <<syncTask, syncTimer, syncInFlight, syncRerun, syncRequeues, ruleOf,
                     exitingAs, syncFailed, syncMisled, syncMisset, flushLate>>
  BY DEF Filter!Table, Filter!Unlock, Filter!syncer, Filter!ghosts
<1>4. j \in DOMAIN routines /\ CacheFits
  BY FilterTasksAre
<1>5. PICK part \in Filter!Parts : t.how = Filter!Tabled(part) /\ part = chosen
  <2>1. \E p \in Filter!Parts : t.how = Filter!Tabled(p)
    BY <1>1 DEF FilterTask, Reading
  <2> QED BY <2>1
<1>6. ~AtStep(j, "invalidate") /\ ~AtStep(j, "queue")
  BY <1>1 DEF AtStep
<1>7. \/ Filter!Goes(j, "done") /\ UNCHANGED filterTables
      \/ /\ Filter!Goes(j, "queue")
         /\ \E es \in results : filterTables' = [filterTables EXCEPT ![part] = es]
  BY <1>5 DEF Filter!Table
<1> HIDE DEF t, r, chosen, results
<1>8. CASE Filter!Goes(j, "done") /\ UNCHANGED filterTables
  BY <1>3, <1>6, <1>8, FilterAbandons DEF SyncStays
<1>9. ASSUME Filter!Goes(j, "queue"), NEW es \in results,
             filterTables' = [filterTables EXCEPT ![part] = es]
      PROVE  FilterInv'
  <2>1. routines' = [routines EXCEPT ![j] = r]
    BY <1>9, FilterGoesTo DEF r, t
  <2>2. FilterTask(r) /\ r # NoJob
    <3>1. /\ r.rest = << >> /\ r.then = "table" /\ r.how = t.how
      BY <1>1, <1>2 DEF FilterTask, Fields, Reading
    <3>2. FilterTask(r)
      BY <1>2, <1>5, <3>1 DEF FilterTask
    <3> QED BY <1>2, <3>2 DEF FilterAssumed, IdleIsNoTask
  <2>3. CacheFits'
    BY <1>2, <1>3, <1>4, <1>6, <2>1, QuietFits
  <2>4. routines'[j] = r
    BY <1>4, <2>1
  <2>5. AtStep(j, "queue")' /\ Concerned(j, part)'
    <3>1. r.how = Filter!Tabled(part)
      BY <1>2, <1>5 DEF Fields
    <3> QED BY <1>2, <1>5, <2>2, <2>4, <3>1, PartIs DEF AtStep, Concerned
  <2>6. ASSUME NEW p \in Filter!Parts PROVE PartFits(p)'
    <3>1. Agrees(p)'
      BY <1>3, <1>6, <2>1, OthersStay, AgreesStill
    <3>2. CASE p = part
      <4>1. Queueing(p)'
        BY <2>5, <3>2 DEF Queueing
      <4> QED BY <3>1, <4>1 DEF PartFits, Awaits
    <3>3. CASE p # part
      <4>1. filterTables'[p] = filterTables[p]
        BY <1>9, <3>3
      <4> QED BY <1>3, <1>6, <2>1, <3>1, <4>1, PartStays
    <3> QED BY <3>2, <3>3
  <2>7. filterTables' = [p \in Filter!Parts |-> filterTables'[p]]
    BY <1>9 DEF FilterInv, FilterTypes
  <2> QED BY <1>3, <2>1, <2>2, <2>3, <2>6, <2>7, FilterStep DEF FilterInv, FilterTypes, Seen
<1> QED BY <1>7, <1>8, <1>9

LEMMA FilterTableFails ==
  ASSUME FilterInv, FilterAssumed, NEW j \in Jobs, Filter!TableFails(j) PROVE FilterInv'
<1>1. routines[j].step = "table"
  BY DEF Filter!TableFails, Filter!At
<1>2. /\ Filter!Goes(j, "done") /\ SyncStays /\ UNCHANGED <<guildRow, configCache, cacheRaced>>
      /\ overlappedBy \ {j} \subseteq overlappedBy'
  BY DEF Filter!TableFails, Filter!Unlock, SyncStays, Filter!syncer, Filter!ghosts
<1> QED BY <1>1, <1>2, FilterAbandons DEF AtStep

\* A sync is queued.
LEMMA FilterQueues ==
  ASSUME FilterInv, FilterAssumed, NEW j \in Jobs, Filter!QueueSync(j) PROVE FilterInv'
<1> DEFINE p == Filter!PartOf(routines[j].how)
<1>1. routines[j] # NoJob /\ routines[j].step = "queue"
  BY DEF Filter!QueueSync, Filter!At
<1>2. p \in Filter!Parts
  <2>1. \E part \in Filter!Parts : routines[j].how \in {CommandOf[part], Filter!Tabled(part)}
    BY <1>1, FilterTaskIs DEF FilterTask, Reading, Filter!Parts
  <2> QED BY <2>1, PartIs
<1>3. routines' = [routines EXCEPT ![j] = NoJob]
  BY FilterGoesTo DEF Filter!QueueSync
<1>4. /\ UNCHANGED <<guildRow, configCache, cacheRaced, overlappedBy, filterTables>>
      /\ UNCHANGED <<syncInFlight, syncRerun, syncRequeues, ruleOf, exitingAs, syncFailed,
                     syncMisled, syncMisset>>
      /\ syncTask' = syncTask \cup {p} /\ syncTimer' = TRUE
      /\ flushLate' = (flushLate \/ exitingAs # "no")
  BY DEF Filter!QueueSync, Filter!Elsewhere, Filter!configVars
<1> HIDE DEF p
<1>5. j \in DOMAIN routines /\ CacheFits
  BY FilterTasksAre
<1>6. CacheFits'
  BY <1>1, <1>3, <1>4, <1>5, QuietFits DEF AtStep
<1>7. ASSUME NEW part \in Filter!Parts PROVE PartFits(part)'
  <2>1. ~AtStep(j, "invalidate")
    BY <1>1 DEF AtStep
  <2>2. Agrees(part)'
    <3>1. Invalidating(part) => Invalidating(part)'
      <4>1. \A k \in Jobs \ {j} : routines'[k] = routines[k]
        BY <1>3 DEF FilterInv, FilterTypes
      <4> QED BY <2>1, <4>1 DEF Invalidating, AtStep, Concerned
    <3> QED BY <1>4, <3>1, AgreesStill
  <2>3. CASE part = p
    <3>1. part \in syncTask' /\ (exitingAs' \in {"no", "flushing"} \/ flushLate')
      BY <1>4, <2>3
    <3> QED BY <2>2, <3>1 DEF PartFits, Awaits
  <2>4. CASE part # p
    <3>1. ~Concerned(j, part)
      BY <2>4 DEF Concerned, p
    <3> QED BY <1>3, <1>4, <2>2, <3>1, PartStays
  <2> QED BY <2>3, <2>4
<1>8. syncTask' \subseteq Filter!Parts /\ (exitingAs = "no" => ~flushLate')
  BY <1>2, <1>4 DEF FilterInv, FilterTypes, Seen
<1> QED BY <1>3, <1>4, <1>6, <1>7, <1>8, FilterStep DEF FilterInv, FilterTypes

\* The cached copy has become old.
LEMMA FilterExpires ==
  ASSUME FilterInv, FilterAssumed, Filter!Expire, SyncStays PROVE FilterInv'
<1>1. UNCHANGED <<guildRow, overlappedBy, routines>> /\ configCache' = Nothing
  BY DEF Filter!Expire
<1>2. CacheFits'
  BY <1>1, ExpiredFits DEF FilterInv
<1>3. FilterTypes' /\ Seen'
  BY <1>1 DEF FilterInv, FilterTypes, Seen, SyncStays
<1>4. ASSUME NEW part \in Filter!Parts PROVE PartFits(part)'
  <2>1. Filter!Settled(part)' <=> Filter!Settled(part)
    BY <1>1 DEF Filter!Settled, Filter!Wanted, SyncStays
  <2>2. /\ Awaits(part)' <=> Awaits(part)
        /\ InHand(part)' <=> InHand(part)
        /\ Right(part)' <=> Right(part)
    BY <1>1 DEF Awaits, Invalidating, Queueing, AtStep, Concerned, InHand, Right, SyncStays
  <2> QED BY <1>1, <2>1, <2>2 DEF PartFits, Agrees, FilterInv
<1> QED BY <1>2, <1>3, <1>4 DEF FilterInv

\* The commands, all together.
LEMMA FilterConfigKeeps ==
  ASSUME FilterInv, FilterAssumed, NEW j \in Jobs, Filter!Config(j) PROVE FilterInv'
<1>1. SyncStays
  BY DEF Filter!Config, SyncStays, Filter!syncer, Filter!ghosts
<1>2. CASE Filter!Asks(j)
  BY <1>1, <1>2, FilterReads, FilterSets, FilterEdits, NoOtherCommands DEF Filter!Asks
<1>3. ~Filter!Check(j) /\ ~Filter!RunSubcommand(j) /\ ~Filter!Save(j) /\ ~Filter!AbortWizard(j)
  <2>1. ~Filter!At(j, "check") /\ ~Filter!At(j, "stage")
    BY FilterSteps DEF Filter!At, Reading
  <2> QED BY <2>1 DEF Filter!Check, Filter!RunSubcommand, Filter!Save, Filter!AbortWizard
<1>4. CASE Filter!Works(j)
  BY <1>1, <1>3, <1>4, FilterHits, FilterMisses, FilterQueries, FilterFails, FilterFills,
     FilterReadsList, FilterWrites, FilterInvalidates
  DEF Filter!Works
<1> QED BY <1>2, <1>4 DEF Filter!Config
-----------------------------------------------------------------------------
\* The worker: what has to be shown of a step of a sync.
LEMMA WorkerMoves ==
  ASSUME FilterInv, FilterAssumed, NEW r, routines' = [routines EXCEPT ![Worker] = r]
  PROVE  /\ routines' = [k \in Jobs \cup {Worker} |-> routines'[k]]
         /\ routines'[Worker] = r /\ \A k \in Jobs : routines'[k] = routines[k]
         /\ \A part : Invalidating(part)' <=> Invalidating(part)
         /\ \A part : Queueing(part)' <=> Queueing(part)
<1>1. routines = [k \in Jobs \cup {Worker} |-> routines[k]] /\ Worker \notin Jobs
  BY DEF FilterInv, FilterTypes, FilterAssumed
<1>2. /\ routines' = [k \in Jobs \cup {Worker} |-> routines'[k]]
      /\ routines'[Worker] = r /\ \A k \in Jobs : routines'[k] = routines[k]
  BY <1>1
<1>3. ASSUME NEW k \in Jobs, NEW part, NEW step
      PROVE  (AtStep(k, step)' <=> AtStep(k, step)) /\ (Concerned(k, part)' <=> Concerned(k, part))
  BY <1>2 DEF AtStep, Concerned
<1>4. ASSUME NEW part PROVE Invalidating(part)' <=> Invalidating(part)
  BY <1>3 DEF Invalidating
<1>5. ASSUME NEW part PROVE Queueing(part)' <=> Queueing(part)
  BY <1>3 DEF Queueing
<1> QED BY <1>2, <1>4, <1>5

LEMMA SyncStep ==
  ASSUME FilterInv, FilterAssumed, NEW r, routines' = [routines EXCEPT ![Worker] = r],
         r # NoJob => SyncTask(r), UNCHANGED <<guildRow, filterTables>>,
         ruleOf' = [part \in Filter!Parts |-> ruleOf'[part]],
         syncTask' \subseteq Filter!Parts, syncRequeues' \in Nat, Seen', CacheFits',
         \A part \in Filter!Parts : PartFits(part)'
  PROVE  FilterInv'
<1>1. /\ routines' = [k \in Jobs \cup {Worker} |-> routines'[k]]
      /\ routines'[Worker] = r /\ \A k \in Jobs : routines'[k] = routines[k]
  BY WorkerMoves
<1>2. FilterTypes'
  BY <1>1 DEF FilterTypes, FilterInv
<1> QED BY <1>2 DEF FilterInv

LEMMA WorkerIs ==
  ASSUME FilterInv, FilterAssumed, routines[Worker] # NoJob
  PROVE  /\ SyncTask(routines[Worker]) /\ IsTask(routines[Worker])
         /\ Worker \in DOMAIN routines /\ CacheFits
BY FilterTasksAre DEF SyncTask

\* The sync gets its configuration and its tables together.
LEMMA WorkerGathers ==
  ASSUME FilterInv, FilterAssumed, NEW r, routines' = [routines EXCEPT ![Worker] = r],
         routines[Worker] # NoJob, routines[Worker].step \in Reading \cup {"load"},
         r # NoJob, SyncTask(r), r.item = routines[Worker].item,
         r.step \in Reading \cup {"load", "invites"}, UNCHANGED guildRow,
         UNCHANGED <<filterTables, syncTask, syncTimer, syncInFlight, syncRerun, syncRequeues, ruleOf,
                     exitingAs, syncFailed, syncMisset, flushLate>>,
         CacheFits',
         \A part \in Filter!Parts :
           Agrees(part)' /\ (InHand(part) => Right(part)' \/ Awaits(part))
  PROVE  FilterInv'
<1>1. /\ routines'[Worker] = r
      /\ \A part : Invalidating(part)' <=> Invalidating(part)
      /\ \A part : Queueing(part)' <=> Queueing(part)
  BY WorkerMoves
<1>2. Seen'
  BY <1>1 DEF FilterInv, Seen
<1>3. ASSUME NEW part \in Filter!Parts PROVE PartFits(part)'
  <2>1. Awaits(part)' <=> Awaits(part)
    BY <1>1 DEF Awaits
  <2>2. Filter!Settled(part)' <=> Filter!Settled(part)
    BY DEF Filter!Settled, Filter!Wanted
  <2>3. InHand(part)' <=> InHand(part)
    BY <1>1 DEF InHand, ToDo, Reading
  <2> QED BY <2>1, <2>2, <2>3 DEF PartFits, FilterInv
<1> QED BY <1>2, <1>3, SyncStep DEF FilterInv, FilterTypes

LEMMA WorkerReads ==
  ASSUME FilterInv, FilterAssumed, Filter!ReadConfig PROVE FilterInv'
<1> DEFINE t == routines[Worker]
<1>1. UNCHANGED <<filterTables, syncTask, syncTimer, syncInFlight, syncRerun, syncRequeues, ruleOf,
                  exitingAs, syncFailed, syncMisset, flushLate>>
  BY DEF Filter!ReadConfig, Filter!syncer
<1>2. t # NoJob /\ t.step \in Reading
  BY DEF Filter!ReadConfig, Filter!Hit, Filter!Query, Filter!Miss, Filter!Fill, Filter!At, Reading
<1>3. SyncTask(t) /\ IsTask(t) /\ Worker \in DOMAIN routines /\ CacheFits /\ t.then = "load"
  BY <1>2, WorkerIs DEF SyncTask
<1>4. ~AtStep(Worker, "invalidate")
  BY <1>2 DEF AtStep, Reading
<1>5. CASE Filter!Hit(Worker) /\ syncMisled' = cacheRaced
  <2> DEFINE r == [t EXCEPT !.step = t.then, !.seen = configCache]
  <2>1. IsTask(r) /\ r.step = "load" /\ r.seen = configCache /\ r.then = "load" /\ r.item = t.item
    BY <1>3 DEF IsTask, Fields
  <2>2. routines' = [routines EXCEPT ![Worker] = r]
    BY <1>3, <1>5 DEF Filter!Hit
  <2>3. /\ UNCHANGED <<guildRow, configCache, cacheRaced>> /\ configCache # Nothing
        /\ overlappedBy \ {Worker} \subseteq overlappedBy'
    BY <1>5 DEF Filter!Hit
  <2> HIDE DEF r
  <2>4. SyncTask(r) /\ r # NoJob
    BY <1>3, <2>1 DEF SyncTask, FilterAssumed, IdleIsNoTask
  <2>5. CacheFits'
    BY <1>3, <1>4, <2>1, <2>2, <2>3, QuietFits
  <2>6. ASSUME NEW part \in Filter!Parts
        PROVE  Agrees(part)' /\ (Right(part)' \/ Awaits(part))
    <3>1. routines'[Worker] = r /\ (Invalidating(part)' <=> Invalidating(part))
      BY <2>2, WorkerMoves
    <3>2. Agrees(part)
      BY DEF FilterInv, PartFits
    <3>3. Agrees(part)'
      BY <2>3, <3>1, <3>2 DEF Agrees
    <3>4. Right(part)' \/ Awaits(part)
      BY <1>5, <2>1, <2>3, <3>1, <3>2 DEF Agrees, Right, Awaits
    <3> QED BY <3>3, <3>4
  <2> QED BY <1>1, <1>2, <2>1, <2>2, <2>3, <2>4, <2>5, <2>6, WorkerGathers
<1>6. CASE Filter!Query(Worker) /\ syncMisled' = FALSE
  <2> DEFINE next == IF s2 THEN "fill" ELSE t.then
             r == [t EXCEPT !.step = next, !.seen = guildRow]
  <2>0. next \in {"fill", "load"}
    BY <1>3
  <2>1. IsTask(r) /\ r.step = next /\ r.seen = guildRow /\ r.then = "load" /\ r.item = t.item
    BY <1>3 DEF IsTask, Fields
  <2>2. routines' = [routines EXCEPT ![Worker] = r]
    BY <1>6, <2>0 DEF Filter!Query
  <2>3. /\ UNCHANGED <<guildRow, configCache, cacheRaced>>
        /\ overlappedBy \ {Worker} \subseteq overlappedBy'
    BY <1>6 DEF Filter!Query
  <2> HIDE DEF r, next
  <2>4. SyncTask(r) /\ r # NoJob
    BY <1>3, <2>0, <2>1 DEF SyncTask, Reading, FilterAssumed, IdleIsNoTask
  <2>5. CacheFits'
    BY <1>3, <1>4, <2>1, <2>2, <2>3, QuietFits
  <2>6. ASSUME NEW part \in Filter!Parts PROVE Agrees(part)' /\ Right(part)'
    <3>1. routines'[Worker] = r /\ (Invalidating(part)' <=> Invalidating(part))
      BY <2>2, WorkerMoves
    <3>2. Agrees(part)'
      BY <2>3, <3>1 DEF FilterInv, PartFits, Agrees
    <3>3. Right(part)'
      BY <2>0, <2>1, <2>3, <3>1 DEF Right
    <3> QED BY <3>2, <3>3
  <2> QED BY <1>1, <1>2, <2>0, <2>1, <2>2, <2>3, <2>4, <2>5, <2>6, WorkerGathers DEF Reading
<1>7. CASE Filter!Miss(Worker) /\ UNCHANGED syncMisled
  <2> DEFINE r == To(t, "query")
  <2>1. routines' = [routines EXCEPT ![Worker] = r]
    BY <1>7, FilterGoesTo DEF Filter!Miss
  <2>2. IsTask(r) /\ r.step = "query" /\ r.then = "load" /\ r.item = t.item
    BY <1>3, ToIs DEF Fields
  <2>3. UNCHANGED <<guildRow, configCache, cacheRaced, overlappedBy>>
    BY <1>7 DEF Filter!Miss, Filter!configVars
  <2> HIDE DEF r
  <2>4. SyncTask(r) /\ r # NoJob
    BY <1>3, <2>2 DEF SyncTask, Reading, FilterAssumed, IdleIsNoTask
  <2>5. CacheFits'
    BY <1>3, <1>4, <2>1, <2>2, <2>3, QuietFits
  <2>6. ASSUME NEW part \in Filter!Parts PROVE Agrees(part)' /\ Right(part)'
    <3>1. routines'[Worker] = r /\ (Invalidating(part)' <=> Invalidating(part))
      BY <2>1, WorkerMoves
    <3>2. Agrees(part)'
      BY <2>3, <3>1 DEF FilterInv, PartFits, Agrees
    <3>3. Right(part)'
      BY <2>2, <3>1 DEF Right
    <3> QED BY <3>2, <3>3
  <2> QED BY <1>1, <1>2, <2>1, <2>2, <2>3, <2>4, <2>5, <2>6, WorkerGathers DEF Reading
<1>8. CASE Filter!Fill(Worker) /\ UNCHANGED syncMisled
  <2> DEFINE r == To(t, "load")
  <2>1. routines' = [routines EXCEPT ![Worker] = r] /\ t.step = "fill"
    BY <1>3, <1>8, FilterGoesTo DEF Filter!Fill, Filter!At
  <2>2. IsTask(r) /\ r.step = "load" /\ r.then = "load" /\ r.item = t.item /\ r.seen = t.seen
    BY <1>3, ToIs DEF Fields
  <2>3. /\ UNCHANGED guildRow /\ configCache' = t.seen /\ cacheRaced' = (Worker \in overlappedBy)
        /\ overlappedBy \ {Worker} \subseteq overlappedBy'
    BY <1>8 DEF Filter!Fill
  <2> HIDE DEF r
  <2>4. SyncTask(r) /\ r # NoJob
    BY <1>3, <2>2 DEF SyncTask, FilterAssumed, IdleIsNoTask
  <2>5. AtStep(Worker, "fill")
    BY <1>2, <2>1 DEF AtStep
  <2>6. CacheFits'
    BY <1>3, <2>1, <2>2, <2>3, <2>5, FilledFits
  <2>7. ASSUME NEW part \in Filter!Parts
        PROVE  Agrees(part)' /\ (InHand(part) => Right(part)' \/ Awaits(part))
    <3>1. routines'[Worker] = r
      BY <2>1, WorkerMoves
    <3>2. Worker \in overlappedBy \/ t.seen \in {Nothing, guildRow}
      BY <1>3, <2>5 DEF CacheFits, FillFits
    <3>3. Agrees(part)'
      BY <2>3, <3>2 DEF Agrees
    <3>4. InHand(part) => Right(part) \/ Awaits(part)
      BY DEF FilterInv, PartFits
    <3>5. Right(part) => Right(part)'
      BY <1>8, <2>1, <2>2, <2>3, <3>1 DEF Right
    <3> QED BY <3>3, <3>4, <3>5
  <2> QED BY <1>1, <1>2, <2>1, <2>2, <2>3, <2>4, <2>6, <2>7, WorkerGathers
<1> QED BY <1>5, <1>6, <1>7, <1>8 DEF Filter!ReadConfig

LEMMA WorkerLoads ==
  ASSUME FilterInv, FilterAssumed, Filter!Load PROVE FilterInv'
<1> DEFINE t == routines[Worker]
           r == [t EXCEPT !.updates = filterTables, !.step = "invites"]
<1>1. /\ UNCHANGED <<filterTables, syncTask, syncTimer, syncInFlight, syncRerun, syncRequeues, ruleOf,
                     exitingAs, syncFailed, syncMisled, syncMisset, flushLate>>
      /\ UNCHANGED <<guildRow, configCache, cacheRaced, overlappedBy>>
  BY DEF Filter!Load, Filter!syncer, Filter!ghosts, Filter!Elsewhere, Filter!configVars
<1>2. t # NoJob /\ t.step = "load"
  BY DEF Filter!Load, Filter!At
<1>3. SyncTask(t) /\ IsTask(t) /\ Worker \in DOMAIN routines /\ CacheFits /\ t.then = "load"
  BY <1>2, WorkerIs DEF SyncTask
<1>4. routines' = [routines EXCEPT ![Worker] = r]
  BY DEF Filter!Load
<1>5. /\ IsTask(r) /\ r.step = "invites" /\ r.updates = filterTables /\ r.then = "load"
      /\ r.item = t.item /\ r.seen = t.seen
  BY <1>3 DEF IsTask, Fields
<1> HIDE DEF r
<1>6. SyncTask(r) /\ r # NoJob
  BY <1>3, <1>5 DEF SyncTask, FilterAssumed, IdleIsNoTask
<1>7. CacheFits'
  BY <1>1, <1>2, <1>3, <1>4, <1>5, QuietFits DEF AtStep
<1>8. ASSUME NEW part \in Filter!Parts
      PROVE  Agrees(part)' /\ (InHand(part) => Right(part)' \/ Awaits(part))
  <2>1. routines'[Worker] = r /\ (Invalidating(part)' <=> Invalidating(part))
    BY <1>4, WorkerMoves
  <2>2. Agrees(part)'
    BY <1>1, <2>1 DEF FilterInv, PartFits, Agrees
  <2>3. Right(part) => Right(part)'
    BY <1>1, <1>2, <1>5, <2>1 DEF Right
  <2> QED BY <2>2, <2>3 DEF FilterInv, PartFits
<1> QED BY <1>1, <1>2, <1>4, <1>5, <1>6, <1>7, <1>8, WorkerGathers
\* The sync fails as a whole.
LEMMA WorkerFails ==
  ASSUME FilterInv, FilterAssumed, Filter!LoadFails PROVE FilterInv'
<1> DEFINE t == routines[Worker]
           r == To(t, "end")
<1>1. /\ UNCHANGED <<filterTables, syncTask, syncTimer, syncInFlight, syncRerun, syncRequeues, ruleOf,
                     exitingAs, syncMisled, syncMisset, flushLate>>
      /\ UNCHANGED <<guildRow, configCache, cacheRaced, overlappedBy>>
      /\ syncFailed' = syncFailed \cup t.item
  BY DEF Filter!LoadFails, Filter!syncer, Filter!Elsewhere, Filter!configVars
<1>2. t # NoJob /\ t.step \in {"query", "load"}
  BY DEF Filter!LoadFails, Filter!At
<1>3. SyncTask(t) /\ IsTask(t) /\ Worker \in DOMAIN routines /\ CacheFits
  BY <1>2, WorkerIs
<1>4. routines' = [routines EXCEPT ![Worker] = r]
  BY FilterGoesTo DEF Filter!LoadFails
<1>5. IsTask(r) /\ r.step = "end" /\ r.then = t.then /\ r.item = t.item
  BY <1>3, ToIs DEF Fields
<1> HIDE DEF r
<1>6. SyncTask(r) /\ r # NoJob
  BY <1>3, <1>5 DEF SyncTask, FilterAssumed, IdleIsNoTask
<1>7. CacheFits'
  BY <1>1, <1>2, <1>3, <1>4, <1>5, QuietFits DEF AtStep
<1>8. /\ routines'[Worker] = r
      /\ \A part : Invalidating(part)' <=> Invalidating(part)
      /\ \A part : Queueing(part)' <=> Queueing(part)
  BY <1>4, WorkerMoves
<1>9. Seen'
  BY <1>1, <1>2, <1>6, <1>8 DEF FilterInv, Seen
<1>10. ASSUME NEW part \in Filter!Parts PROVE PartFits(part)'
  <2>1. PartFits(part)
    BY DEF FilterInv
  <2>2. Agrees(part)' /\ (Awaits(part)' <=> Awaits(part))
    BY <1>1, <1>8, <2>1 DEF PartFits, Agrees, Awaits
  <2>3. Filter!Settled(part) => Filter!Settled(part)'
    BY <1>1 DEF Filter!Settled, Filter!Wanted
  <2>4. InHand(part) => Filter!Settled(part)'
    BY <1>1 DEF InHand, Filter!Settled
  <2>5. ~InHand(part)'
    BY <1>5, <1>8 DEF InHand, ToDo, Reading
  <2> QED BY <2>1, <2>2, <2>3, <2>4, <2>5 DEF PartFits
<1> QED BY <1>1, <1>4, <1>6, <1>7, <1>9, <1>10, SyncStep DEF FilterInv, FilterTypes

\* A rule is set, or not.
LEMMA WorkerSyncs ==
  ASSUME FilterInv, FilterAssumed, NEW p \in Filter!Parts, Filter!SyncRule(p) PROVE FilterInv'
<1> DEFINE t == routines[Worker]
           next == IF p = "invites" THEN "words" ELSE "end"
           r == To(t, next)
<1>1. /\ UNCHANGED <<filterTables, syncTask, syncTimer, syncInFlight, syncRerun, syncRequeues,
                     exitingAs, syncMisled, flushLate>>
      /\ UNCHANGED <<guildRow, configCache, cacheRaced, overlappedBy>>
  BY DEF Filter!SyncRule, Filter!syncer, Filter!Elsewhere, Filter!configVars
<1>2. t # NoJob /\ t.step = p
  BY DEF Filter!SyncRule, Filter!At
<1>3. SyncTask(t) /\ IsTask(t) /\ Worker \in DOMAIN routines /\ CacheFits
  BY <1>2, WorkerIs
<1>4. routines' = [routines EXCEPT ![Worker] = r]
  BY FilterGoesTo DEF Filter!SyncRule
<1>5. /\ IsTask(r) /\ r.step = next /\ r.then = t.then /\ r.item = t.item /\ r.seen = t.seen
      /\ r.updates = t.updates
  BY <1>3, ToIs DEF Fields
<1>6. \/ p \notin t.item /\ UNCHANGED <<ruleOf, syncFailed, syncMisset>>
      \/ /\ p \in t.item
         /\ ruleOf' = [ruleOf EXCEPT ![p] = Filter!Wanted(p, t.seen, t.updates)]
         /\ syncFailed' = syncFailed \ {p}
         /\ syncMisset' = IF syncMisled THEN syncMisset \cup {p} ELSE syncMisset \ {p}
      \/ p \in t.item /\ syncFailed' = syncFailed \cup {p} /\ UNCHANGED <<ruleOf, syncMisset>>
  BY DEF Filter!SyncRule
<1> HIDE DEF r, t
<1>7. SyncTask(r) /\ r # NoJob
  BY <1>3, <1>5 DEF SyncTask, FilterAssumed, IdleIsNoTask
<1>8. CacheFits'
  <2>1. ~AtStep(Worker, "invalidate") /\ r.step # "fill"
    BY <1>2, <1>5 DEF AtStep, t, Filter!Parts
  <2> QED BY <1>1, <1>3, <1>4, <2>1, QuietFits
<1>9. /\ routines'[Worker] = r
      /\ \A part : Invalidating(part)' <=> Invalidating(part)
      /\ \A part : Queueing(part)' <=> Queueing(part)
  BY <1>4, WorkerMoves
<1>10. Seen'
  BY <1>1, <1>2, <1>7, <1>9 DEF FilterInv, Seen, t
<1>11. ruleOf' = [part \in Filter!Parts |-> ruleOf'[part]]
  BY <1>6 DEF FilterInv, FilterTypes
<1>12. ASSUME NEW part \in Filter!Parts PROVE PartFits(part)'
  <2>1. PartFits(part)
    BY DEF FilterInv
  <2>2. Agrees(part)' /\ (Awaits(part)' <=> Awaits(part))
    BY <1>1, <1>9, <2>1 DEF PartFits, Agrees, Awaits
  <2>3. CASE part # p
    <3>1. /\ ruleOf'[part] = ruleOf[part]
          /\ part \in syncFailed' <=> part \in syncFailed
          /\ part \in syncMisset' <=> part \in syncMisset
      BY <1>6, <2>3 DEF FilterInv, FilterTypes
    <3>2. Filter!Settled(part)' <=> Filter!Settled(part)
      BY <1>1, <3>1 DEF Filter!Settled, Filter!Wanted
    <3>3. InHand(part)' <=> InHand(part)
      BY <1>2, <1>5, <1>7, <1>9, <2>3 DEF InHand, ToDo, Reading, Filter!Parts, t
    <3>4. Right(part) => Right(part)'
      BY <1>1, <1>2, <1>5, <1>9 DEF Right, Filter!Parts, t
    <3> QED BY <2>1, <2>2, <3>2, <3>3, <3>4 DEF PartFits
  <2>4. CASE part = p
    <3>1. ~InHand(part)'
      BY <1>5, <1>9, <2>4 DEF InHand, ToDo, Reading, Filter!Parts
    <3>2. CASE p \notin t.item /\ UNCHANGED <<ruleOf, syncFailed, syncMisset>>
      <4>1. ~InHand(part)
        BY <2>4, <3>2 DEF InHand, t
      <4>2. Filter!Settled(part)' <=> Filter!Settled(part)
        BY <1>1, <3>2 DEF Filter!Settled, Filter!Wanted
      <4> QED BY <2>1, <2>2, <3>1, <4>1, <4>2 DEF PartFits
    <3>3. CASE p \in t.item /\ syncFailed' = syncFailed \cup {p}
      BY <2>2, <2>4, <3>1, <3>3 DEF PartFits, Filter!Settled
    <3>4. CASE /\ p \in t.item
               /\ ruleOf' = [ruleOf EXCEPT ![p] = Filter!Wanted(p, t.seen, t.updates)]
               /\ syncMisset' = IF syncMisled THEN syncMisset \cup {p} ELSE syncMisset \ {p}
      <4>1. InHand(part)
        BY <1>2, <2>4, <3>4 DEF InHand, ToDo, Filter!Parts, t
      <4>2. ASSUME Right(part) PROVE Filter!Settled(part)'
        <5>1. CASE syncMisled
          BY <2>4, <3>4, <5>1 DEF Filter!Settled
        <5>2. CASE ~syncMisled
          <6>1. /\ t.seen[SettingOf[p]] = guildRow[SettingOf[p]]
                /\ t.updates[p] = filterTables[p]
            BY <1>2, <2>4, <4>2, <5>2 DEF Right, Filter!Parts, t
          <6>2. Filter!Wanted(p, t.seen, t.updates) = Filter!Wanted(p, guildRow, filterTables)
            BY <6>1, WantsTheSame
          <6>3. Filter!Wanted(p, guildRow, filterTables)' = Filter!Wanted(p, guildRow, filterTables)
            BY <1>1 DEF Filter!Wanted
          <6>4. ruleOf'[p] = Filter!Wanted(p, t.seen, t.updates)
            BY <3>4 DEF FilterInv, FilterTypes
          <6> QED BY <2>4, <6>2, <6>3, <6>4 DEF Filter!Settled
        <5> QED BY <5>1, <5>2
      <4> QED BY <2>1, <2>2, <3>1, <4>1, <4>2 DEF PartFits
    <3> QED BY <1>6, <3>2, <3>3, <3>4
  <2> QED BY <2>3, <2>4
<1> QED BY <1>1, <1>4, <1>7, <1>8, <1>10, <1>11, <1>12, SyncStep DEF FilterInv, FilterTypes

\* The sync is over, and the guild free for the next.
LEMMA SyncEnds ==
  ASSUME FilterInv, FilterAssumed, Filter!EndSync PROVE FilterInv'
<1>1. /\ UNCHANGED <<filterTables, syncTask, syncTimer, ruleOf, exitingAs, syncFailed, syncMisled,
                     syncMisset, flushLate>>
      /\ UNCHANGED <<guildRow, configCache, cacheRaced, overlappedBy>>
      /\ syncInFlight' = FALSE /\ syncRerun' = FALSE
      /\ syncRequeues' = IF syncRerun THEN syncRequeues + 1 ELSE syncRequeues
  BY DEF Filter!EndSync, Filter!ghosts, Filter!Elsewhere, Filter!configVars
<1>2. routines[Worker] # NoJob /\ routines[Worker].step = "end"
  BY DEF Filter!EndSync, Filter!At
<1>3. Worker \in DOMAIN routines /\ CacheFits
  BY <1>2, WorkerIs
<1>4. routines' = [routines EXCEPT ![Worker] = NoJob]
  BY FilterGoesTo DEF Filter!EndSync
<1>5. CacheFits'
  BY <1>1, <1>2, <1>3, <1>4, QuietFits DEF AtStep
<1>6. /\ routines'[Worker] = NoJob
      /\ \A part : Invalidating(part)' <=> Invalidating(part)
      /\ \A part : Queueing(part)' <=> Queueing(part)
  BY <1>4, WorkerMoves
<1>7. syncRequeues \in Nat /\ Seen
  BY DEF FilterInv, FilterTypes
<1>8. Seen'
  <2>1. syncRequeues + 1 # 0
    BY <1>7
  <2>2. (syncRerun \/ syncRequeues # 0 => syncRequeues' # 0) /\ ~syncInFlight' /\ ~syncRerun'
    BY <1>1, <2>1
  <2> QED BY <1>1, <1>6, <1>7, <2>2 DEF Seen
<1>9. ASSUME NEW part \in Filter!Parts PROVE PartFits(part)'
  <2>1. PartFits(part)
    BY DEF FilterInv
  <2>2. Agrees(part)' /\ (Awaits(part)' <=> Awaits(part))
    BY <1>1, <1>6, <2>1 DEF PartFits, Agrees, Awaits
  <2>3. Filter!Settled(part)' <=> Filter!Settled(part)
    BY <1>1 DEF Filter!Settled, Filter!Wanted
  <2>4. ~InHand(part) /\ ~InHand(part)'
    BY <1>2, <1>6 DEF InHand, ToDo, Reading
  <2> QED BY <2>1, <2>2, <2>3, <2>4 DEF PartFits
<1>10. syncRequeues' \in Nat
  BY <1>1, <1>7
<1> QED BY <1>1, <1>4, <1>5, <1>8, <1>9, <1>10, SyncStep DEF FilterInv, FilterTypes

-----------------------------------------------------------------------------
\* The timer, the workers that are through, and Flush: no goroutine moves.
LEMMA NobodyMoves ==
  ASSUME FilterInv, FilterAssumed,
         UNCHANGED <<guildRow, configCache, cacheRaced, overlappedBy, routines>>,
         UNCHANGED <<filterTables, ruleOf, syncFailed, syncMisled, syncMisset>>,
         syncTask' \subseteq Filter!Parts, syncRequeues' \in Nat, Seen',
         \A part \in Filter!Parts : Awaits(part) => Awaits(part)'
  PROVE  FilterInv'
<1>1. FilterTypes' /\ CacheFits'
  BY DEF FilterInv, FilterTypes, CacheFits, FillFits, AtStep
<1>2. ASSUME NEW part \in Filter!Parts PROVE PartFits(part)'
  <2>1. PartFits(part)
    BY DEF FilterInv
  <2>2. Agrees(part)'
    BY <2>1 DEF PartFits, Agrees, Invalidating, AtStep, Concerned
  <2>3. Filter!Settled(part)' <=> Filter!Settled(part)
    BY DEF Filter!Settled, Filter!Wanted
  <2>4. (InHand(part)' <=> InHand(part)) /\ (Right(part)' <=> Right(part))
    BY DEF InHand, Right
  <2> QED BY <2>1, <2>2, <2>3, <2>4 DEF PartFits
<1> QED BY <1>1, <1>2 DEF FilterInv

\* Somebody has the part in hand, or not, as before.
LEMMA StillWaited ==
  ASSUME UNCHANGED routines, NEW part
  PROVE  /\ Invalidating(part)' <=> Invalidating(part)
         /\ Queueing(part)' <=> Queueing(part)
BY DEF Invalidating, Queueing, AtStep, Concerned

LEMMA FlushesGuild ==
  ASSUME FilterInv, FilterAssumed, Filter!FlushGuild, exitingAs # "done",
         UNCHANGED <<guildRow, configCache, cacheRaced, overlappedBy>>,
         UNCHANGED <<filterTables, syncRequeues, ruleOf, syncFailed, syncMisled, syncMisset>>,
         \/ UNCHANGED <<exitingAs, flushLate>>
         \/ exitingAs = "flushing" /\ exitingAs' = "waiting" /\ flushLate' = (flushLate \/ syncInFlight)
  PROVE  FilterInv'
<1> DEFINE ways == {"no", "flushing", "waiting", "done", "gave up"}
<1>0. /\ exitingAs' = "no" => exitingAs = "no" /\ ~flushLate'
      /\ exitingAs' = "done" => exitingAs = "done"
      /\ exitingAs' \in ways
  <2>0. Seen
    BY DEF FilterInv
  <2>1. CASE UNCHANGED <<exitingAs, flushLate>>
    <3>1. exitingAs' = exitingAs /\ (flushLate' <=> flushLate)
      BY <2>1
    <3> QED BY <2>0, <3>1 DEF Seen
  <2>2. CASE exitingAs = "flushing" /\ exitingAs' = "waiting"
    BY <2>2
  <2> QED BY <2>1, <2>2
<1> HIDE DEF ways
<1>00. \A way : way \in ways <=> way \in {"no", "flushing", "waiting", "done", "gave up"}
  BY DEF ways
<1>1. CASE syncTask = {} /\ UNCHANGED <<syncTask, syncInFlight, syncRerun, routines>>
  <2>1. Seen'
    BY <1>0, <1>00, <1>1 DEF FilterInv, Seen
  <2>2. ASSUME NEW part PROVE Awaits(part) => Awaits(part)'
    BY <1>1, StillWaited DEF Awaits
  <2> QED BY <1>1, <2>1, <2>2, NobodyMoves DEF FilterInv, FilterTypes
<1>2. CASE syncInFlight /\ syncRerun' = TRUE /\ UNCHANGED <<syncTask, syncInFlight, routines>>
  <2>1. Seen'
    BY <1>0, <1>00, <1>2 DEF FilterInv, Seen
  <2>2. ASSUME NEW part PROVE Awaits(part) => Awaits(part)'
    BY <1>2, StillWaited DEF Awaits
  <2> QED BY <1>2, <2>1, <2>2, NobodyMoves DEF FilterInv, FilterTypes
<1>3. ASSUME ~syncInFlight, syncTask' = {}, syncInFlight' = TRUE, UNCHANGED syncRerun,
             routines' = [routines EXCEPT ![Worker] =
               [Filter!Blank EXCEPT !.step = "get", !.then = "load", !.item = syncTask]]
      PROVE  FilterInv'
  <2> DEFINE r == [Filter!Blank EXCEPT !.step = "get", !.then = "load", !.item = syncTask]
  <2>1. IsTask(r) /\ r.step = "get" /\ r.then = "load" /\ r.item = syncTask
    BY DEF IsTask, Fields, Filter!Blank
  <2>2. routines' = [routines EXCEPT ![Worker] = r]
    BY <1>3
  <2> HIDE DEF r
  <2>3. SyncTask(r) /\ r # NoJob
    BY <2>1 DEF SyncTask, Reading, FilterInv, FilterTypes, FilterAssumed, IdleIsNoTask
  <2>4. routines[Worker] = NoJob /\ Worker \in DOMAIN routines /\ CacheFits
    BY <1>3, FilterTasksAre DEF FilterInv, Seen
  <2>5. CacheFits'
    BY <2>1, <2>2, <2>4, QuietFits DEF AtStep
  <2>6. /\ routines'[Worker] = r
        /\ \A part : Invalidating(part)' <=> Invalidating(part)
        /\ \A part : Queueing(part)' <=> Queueing(part)
    BY <2>2, WorkerMoves
  <2>7. Seen'
    <3>1. /\ routines'[Worker] # NoJob /\ syncInFlight' /\ syncTask' = {}
          /\ exitingAs' = "done" => routines'[Worker] = NoJob
      BY <1>0, <1>3, <2>3, <2>6
    <3> QED BY <1>0, <1>00, <3>1 DEF Seen
  <2>8. ASSUME NEW part \in Filter!Parts PROVE PartFits(part)'
    <3>1. PartFits(part)
      BY DEF FilterInv
    <3>2. Agrees(part)'
      BY <2>6, <3>1 DEF PartFits, Agrees
    <3>3. Filter!Settled(part)' <=> Filter!Settled(part)
      BY DEF Filter!Settled, Filter!Wanted
    <3>4. ~InHand(part) /\ Right(part)'
      BY <2>1, <2>4, <2>6 DEF InHand, Right
    <3>5. CASE part \in syncTask
      <4>1. InHand(part)'
        BY <2>1, <2>3, <2>6, <3>5 DEF InHand, ToDo, Reading
      <4> QED BY <3>2, <3>4, <4>1 DEF PartFits
    <3>6. CASE part \notin syncTask
      <4>1. Awaits(part) => Awaits(part)'
        BY <2>6, <3>6 DEF Awaits
      <4> QED BY <3>1, <3>2, <3>3, <3>4, <4>1 DEF PartFits
    <3> QED BY <3>5, <3>6
  <2> QED BY <1>3, <2>2, <2>3, <2>5, <2>7, <2>8, SyncStep DEF FilterInv, FilterTypes
<1> QED BY <1>1, <1>2, <1>3 DEF Filter!FlushGuild

LEMMA FilterFlushes ==
  ASSUME FilterInv, FilterAssumed, Filter!Fire \/ Filter!FlushTasks, exitingAs # "done"
  PROVE  FilterInv'
<1>1. /\ UNCHANGED <<guildRow, configCache, cacheRaced, overlappedBy>>
      /\ UNCHANGED <<filterTables, syncRequeues, ruleOf, syncFailed, syncMisled, syncMisset>>
      /\ Filter!FlushGuild
  BY DEF Filter!Fire, Filter!FlushTasks, Filter!Elsewhere, Filter!configVars, Filter!ghosts
<1>2. \/ UNCHANGED <<exitingAs, flushLate>>
      \/ exitingAs = "flushing" /\ exitingAs' = "waiting" /\ flushLate' = (flushLate \/ syncInFlight)
  BY DEF Filter!Fire, Filter!FlushTasks, Filter!ghosts
<1> QED BY <1>1, <1>2, FlushesGuild

LEMMA FilterRequeues ==
  ASSUME FilterInv, FilterAssumed, Filter!Requeue PROVE FilterInv'
<1>1. /\ UNCHANGED <<guildRow, configCache, cacheRaced, overlappedBy, routines>>
      /\ UNCHANGED <<filterTables, syncInFlight, syncRerun, ruleOf, exitingAs, syncFailed, syncMisled,
                     syncMisset, flushLate>>
      /\ syncTask' = Filter!Parts /\ syncTimer' = TRUE
      /\ syncRequeues > 0 /\ syncRequeues' = syncRequeues - 1
  BY DEF Filter!Requeue, Filter!Elsewhere, Filter!configVars, Filter!ghosts
<1>2. syncRequeues \in Nat /\ Seen
  BY DEF FilterInv, FilterTypes
<1>3. syncRequeues' \in Nat
  BY <1>1, <1>2
<1>4. Seen'
  BY <1>1, <1>2 DEF Seen
<1>5. ASSUME NEW part \in Filter!Parts PROVE Awaits(part) => Awaits(part)'
  BY <1>1, StillWaited DEF Awaits
<1> QED BY <1>1, <1>3, <1>4, <1>5, NobodyMoves

LEMMA FilterExits ==
  ASSUME FilterInv, FilterAssumed, Filter!FlushBegins \/ Filter!FlushEnds \/ Filter!FlushGivesUp
  PROVE  FilterInv'
<1>1. /\ UNCHANGED <<guildRow, configCache, cacheRaced, overlappedBy, routines>>
      /\ UNCHANGED <<filterTables, syncTask, syncInFlight, syncRerun, syncRequeues, ruleOf,
                     syncFailed, syncMisled, syncMisset, flushLate>>
  BY DEF Filter!FlushBegins, Filter!FlushEnds, Filter!FlushGivesUp, Filter!Elsewhere,
    Filter!configVars, Filter!ghosts, Filter!syncer
<1>2. \/ exitingAs = "no" /\ exitingAs' = IF syncTask = {} THEN "waiting" ELSE "flushing"
      \/ exitingAs = "waiting" /\ exitingAs' = "done" /\ routines[Worker] = NoJob
      \/ exitingAs = "waiting" /\ exitingAs' = "gave up"
  BY DEF Filter!FlushBegins, Filter!FlushEnds, Filter!FlushGivesUp
<1>3. Seen'
  BY <1>1, <1>2 DEF FilterInv, Seen
<1>4. ASSUME NEW part \in Filter!Parts PROVE Awaits(part) => Awaits(part)'
  BY <1>1, <1>2, StillWaited DEF Awaits
<1> QED BY <1>1, <1>3, <1>4, NobodyMoves DEF FilterInv, FilterTypes

LEMMA FilterKeeps ==
  ASSUME FilterInv, FilterAssumed, [Filter!FilterNext]_(Filter!filterVars) PROVE FilterInv'
<1>1. ASSUME NEW j \in Jobs,
             \/ Filter!Config(j) \/ Filter!Table(j) \/ Filter!TableFails(j) \/ Filter!QueueSync(j)
             \/ Filter!HandleInvites(j) \/ Filter!HandleWords(j) \/ Filter!HandleRegex(j)
      PROVE  FilterInv'
  BY <1>1, FilterConfigKeeps, FilterEditsTable, FilterTableFails, FilterQueues, FilterHandled
<1>2. CASE Filter!Expire /\ SyncStays
  BY <1>2, FilterExpires
<1>3. CASE /\ exitingAs # "done"
           /\ \/ Filter!Fire \/ Filter!ReadConfig \/ Filter!Load \/ Filter!LoadFails
              \/ (\E part \in Filter!Parts : Filter!SyncRule(part)) \/ Filter!EndSync \/ Filter!Requeue
              \/ Filter!FlushBegins \/ Filter!FlushTasks \/ Filter!FlushEnds \/ Filter!FlushGivesUp
  BY <1>3, FilterFlushes, WorkerReads, WorkerLoads, WorkerFails, WorkerSyncs, SyncEnds,
     FilterRequeues, FilterExits
<1>4. CASE UNCHANGED Filter!filterVars
  <2>1. UNCHANGED <<guildRow, configCache, cacheRaced, overlappedBy, routines>> /\ SyncStays
    BY <1>4 DEF Filter!filterVars, Filter!vars, Filter!configVars, Filter!syncer, Filter!ghosts,
      SyncStays
  <2>2. Seen'
    BY <2>1 DEF FilterInv, Seen, SyncStays
  <2>3. ASSUME NEW part \in Filter!Parts PROVE Awaits(part) => Awaits(part)'
    BY <2>1, StillWaited DEF Awaits, SyncStays
  <2> QED BY <2>1, <2>2, <2>3, NobodyMoves DEF FilterInv, FilterTypes, SyncStays
<1>5. CASE Filter!FilterNext
  <2>1. Filter!Expire /\ UNCHANGED <<s12, <<s13, s14, s15, s16, s23>>, s17, s18, <<s19, s20, s21, s22>>>>
        => SyncStays
    BY DEF SyncStays
  <2> QED BY <1>1, <1>2, <1>3, <1>5, <2>1 DEF Filter!FilterNext, Filter!syncer, Filter!ghosts
<1> QED BY <1>4, <1>5

LEMMA FilterStarts == ASSUME Filter!FilterInit, FilterAssumed PROVE FilterInv
<1>1. /\ guildRow = Filter!Defaults /\ configCache = Nothing
      /\ routines = [j \in Jobs \cup {Worker} |-> NoJob]
      /\ filterTables = [part \in Filter!Parts |-> {}] /\ syncTask = {}
      /\ syncInFlight = FALSE /\ syncRerun = FALSE /\ syncRequeues = 0
      /\ ruleOf = [part \in Filter!Parts |-> Filter!Wanted(part, guildRow, filterTables)]
      /\ exitingAs = "no" /\ flushLate = FALSE
  BY DEF Filter!FilterInit, Filter!ConfigInit
<1>2. DOMAIN guildRow = Filter!Settings
  BY <1>1 DEF Filter!Defaults
<1>3. FilterTypes
  <2>1. \A j \in Jobs \cup {Worker} : routines[j] = NoJob
    BY <1>1
  <2> QED BY <1>1, <1>2, <2>1 DEF FilterTypes
<1>4. Seen /\ CacheFits
  BY <1>1 DEF Seen, CacheFits, FillFits, AtStep
<1>5. ASSUME NEW part \in Filter!Parts PROVE PartFits(part)
  <2>1. Filter!Settled(part)
    <3>1. ruleOf[part] = Filter!Wanted(part, guildRow, filterTables)
      BY <1>1
    <3> QED BY <3>1 DEF Filter!Settled
  <2>2. ~InHand(part)
    BY <1>1 DEF InHand
  <2> QED BY <1>1, <2>1, <2>2 DEF PartFits, Agrees
<1> QED BY <1>3, <1>4, <1>5 DEF FilterInv

LEMMA FilterFollows == ASSUME FilterInv PROVE Filter!RuleFollows /\ Filter!FlushDelivers
<1>1. ASSUME routines[Worker] = NoJob, ~Filter!Underway, ~flushLate, NEW part \in Filter!Parts,
             part \notin syncTask \/ exitingAs \notin {"no", "flushing"}
      PROVE  Filter!Settled(part)
  <2>1. ~Invalidating(part) /\ ~Queueing(part)
    BY <1>1 DEF Filter!Underway, Filter!At, Invalidating, Queueing, AtStep
  <2> QED BY <1>1, <2>1 DEF FilterInv, PartFits, InHand, Awaits
<1>2. Filter!RuleFollows
  BY <1>1 DEF Filter!RuleFollows, FilterInv, FilterTypes, Seen
<1>3. Filter!FlushDelivers
  BY <1>1 DEF Filter!FlushDelivers, FilterInv, Seen
<1> QED BY <1>2, <1>3

FilterWhenRun == focus = "filter" => FilterInv

\* When everything is quiet, Discord enforces what the moderators asked for, whatever they
\* changed while a sync ran, and so it does when Flush returns: but for a sync that failed or
\* was misled by a raced cache entry (automod.go: QueueSync, flushGuild, executeSync, Flush).
THEOREM RulesFollowAlways ==
    ASSUME FilterAssumed
    PROVE  ServicesSpec => []RulesFollow
<1>1. ServicesInit => FilterWhenRun
  BY InitOfOne, FilterStarts DEF FilterWhenRun
<1>2. FilterWhenRun /\ [ServicesNext]_<<focus, From1, lockVars>> => FilterWhenRun'
  BY StepOfOne, FilterKeeps DEF FilterWhenRun
<1>3. FilterWhenRun => RulesFollow
  BY FilterFollows DEF FilterWhenRun, RulesFollow
<1> QED BY <1>1, <1>2, <1>3, PTL DEF ServicesSpec

-----------------------------------------------------------------------------
(***************************************************************************)
(* The roles that the word filter exempts.  What a command is about to     *)
(* write holds its item exactly if it adds it.                             *)
(***************************************************************************)

ExemptRoles == "word_filter_whitelisted_roles"

AsksFor(t) ==
  t.how = CommandOf["words"] =>
    /\ t.item = Caller
    /\ t.step = "write" =>
         DOMAIN t.updates = {ExemptRoles} /\ (Caller \in t.updates[ExemptRoles] <=> t.edit = "add")

ExemptInv ==
  /\ guildRow = [s \in Filter!Settings |-> guildRow[s]]
  /\ DOMAIN promisedItems = Filter!Lists \X {Caller}
  /\ \A j \in Jobs : routines[j] # NoJob => AsksFor(routines[j])
  /\ Filter!EditsStay

LEMMA WordsAre ==
  /\ CommandOf["words"].writes[1] = {ExemptRoles} /\ CommandOf["words"].kind = "edit"
  /\ Filter!Lists = {ExemptRoles} /\ Filter!GuardedLists \subseteq {ExemptRoles}
  /\ ExemptRoles \in Filter!Settings
  /\ CommandOf["invites"] # CommandOf["words"]
  /\ \A part \in Filter!Parts : Filter!Tabled(part) # CommandOf["words"]
<1>1. /\ CommandOf["words"].writes[1] = {ExemptRoles} /\ CommandOf["words"].kind = "edit"
      /\ CommandOf["invites"].kind = "set"
  BY CommandsAre DEF IsCommand, ExemptRoles
<1>2. \A part \in Filter!Parts : Filter!Tabled(part).kind = "table"
  BY TabledIs DEF IsCommand
<1> QED BY <1>1, <1>2, SettingsAre DEF Filter!GuardedLists, ExemptRoles

LEMMA ExemptStays ==
  ASSUME FilterInv, FilterAssumed, ExemptInv, NEW k \in Jobs \cup {Worker}, NEW r,
         routines' = [routines EXCEPT ![k] = r], k \in Jobs /\ r # NoJob => AsksFor(r),
         UNCHANGED <<guildRow, promisedItems>>
  PROVE  ExemptInv'
<1>1. routines'[k] = r /\ \A j \in Jobs \ {k} : routines'[j] = routines[j]
  BY FilterTasksAre
<1>2. ASSUME NEW j \in Jobs, routines'[j] # NoJob PROVE AsksFor(routines'[j])
  BY <1>1, <1>2 DEF ExemptInv
<1>3. Filter!EditsStay'
  BY DEF ExemptInv, Filter!EditsStay
<1> QED BY <1>2, <1>3 DEF ExemptInv, AsksFor

\* A goroutine that goes on with the same command, and not to write the list.
LEMMA ExemptGoesOn ==
  ASSUME FilterInv, FilterAssumed, ExemptInv, NEW k \in Jobs \cup {Worker}, NEW r,
         routines[k] # NoJob, routines' = [routines EXCEPT ![k] = r],
         r # NoJob => /\ r.how = routines[k].how /\ r.item = routines[k].item
                      /\ k \in Jobs /\ r.step = "write" => routines[k].how # CommandOf["words"],
         UNCHANGED <<guildRow, promisedItems>>
  PROVE  ExemptInv'
<1>1. ASSUME k \in Jobs, r # NoJob PROVE AsksFor(r)
  BY <1>1 DEF AsksFor, ExemptInv
<1> QED BY <1>1, ExemptStays

LEMMA ExemptGoes ==
  ASSUME FilterInv, FilterAssumed, ExemptInv, NEW k \in Jobs \cup {Worker}, NEW step,
         routines[k] # NoJob, Filter!Goes(k, step),
         k \in Jobs /\ step = "write" => routines[k].how # CommandOf["words"],
         UNCHANGED <<guildRow, promisedItems>>
  PROVE  ExemptInv'
<1> DEFINE r == IF step = "done" THEN NoJob ELSE To(routines[k], step)
<1>1. routines' = [routines EXCEPT ![k] = r]
  BY FilterGoesTo
<1>2. IsTask(routines[k])
  BY FilterTasksAre DEF FilterTask, SyncTask
<1>3. r # NoJob => /\ r.how = routines[k].how /\ r.item = routines[k].item /\ r.step = step
  BY <1>2, ToIs DEF Fields
<1> HIDE DEF r
<1> QED BY <1>1, <1>3, ExemptGoesOn

\* A word command comes to its list, and writes only from there.
LEMMA WordsRead ==
  ASSUME FilterInv, FilterAssumed, NEW k \in Jobs, routines[k] # NoJob
  PROVE  /\ routines[k].how = CommandOf["words"] => routines[k].then = "list"
         /\ routines[k].rest = << >>
<1>1. FilterTask(routines[k])
  BY FilterTaskIs
<1>2. CommandOf["words"] # Nothing
  BY CommandsAre DEF FilterAssumed
<1> QED BY <1>1, <1>2, WordsAre DEF FilterTask

LEMMA ExemptReads ==
  ASSUME FilterInv, FilterAssumed, ExemptInv, NEW k \in Jobs \cup {Worker},
         Filter!Hit(k) \/ Filter!Miss(k) \/ Filter!Query(k) \/ Filter!Fill(k)
  PROVE  ExemptInv'
<1> DEFINE t == routines[k]
<1>1. t # NoJob /\ UNCHANGED <<guildRow, promisedItems>>
  BY DEF Filter!Hit, Filter!Miss, Filter!Query, Filter!Fill, Filter!At, Filter!configVars
<1>2. IsTask(t) /\ (k \in Jobs /\ t.how = CommandOf["words"] => t.then # "write")
  BY <1>1, FilterTasksAre, WordsRead DEF FilterTask, SyncTask
<1>3. CASE Filter!Hit(k)
  <2> DEFINE r == [t EXCEPT !.step = t.then, !.seen = configCache]
             s == IF t.then = "done" THEN NoJob ELSE r
  <2>1. routines' = [routines EXCEPT ![k] = s]
    BY <1>3 DEF Filter!Hit
  <2>2. r.how = t.how /\ r.item = t.item /\ r.step = t.then
    BY <1>2 DEF IsTask, Fields
  <2> HIDE DEF r
  <2>3. s # NoJob => s.how = t.how /\ s.item = t.item /\ s.step = t.then
    BY <2>2
  <2> HIDE DEF s
  <2> QED BY <1>1, <1>2, <2>1, <2>3, ExemptGoesOn
<1>4. CASE Filter!Query(k)
  <2> DEFINE next == IF s2 THEN "fill" ELSE t.then
             r == [t EXCEPT !.step = next, !.seen = guildRow]
             s == IF next = "done" THEN NoJob ELSE r
  <2>1. routines' = [routines EXCEPT ![k] = s]
    BY <1>4 DEF Filter!Query
  <2>2. r.how = t.how /\ r.item = t.item /\ r.step = next
    BY <1>2 DEF IsTask, Fields
  <2> HIDE DEF r
  <2>3. s # NoJob => s.how = t.how /\ s.item = t.item /\ s.step \in {"fill", t.then}
    BY <2>2
  <2> HIDE DEF s
  <2> QED BY <1>1, <1>2, <2>1, <2>3, ExemptGoesOn
<1>5. CASE Filter!Miss(k)
  BY <1>1, <1>5, ExemptGoes DEF Filter!Miss
<1>6. CASE Filter!Fill(k)
  BY <1>1, <1>2, <1>6, ExemptGoes DEF Filter!Fill
<1> QED BY <1>3, <1>4, <1>5, <1>6

LEMMA ExemptBegins ==
  ASSUME FilterInv, FilterAssumed, ExemptInv, NEW j \in Jobs, Filter!Asks(j)
  PROVE  ExemptInv'
<1>1. ASSUME NEW r, Filter!Start(j, r), AsksFor(r), UNCHANGED <<guildRow, promisedItems>>
      PROVE  ExemptInv'
  <2>1. routines' = [routines EXCEPT ![j] = r]
    BY <1>1 DEF Filter!Start
  <2> QED BY <1>1, <2>1, ExemptStays
<1>2. CASE Filter!Read(j)
  <2> DEFINE r == [Filter!Blank EXCEPT !.step = "get"]
  <2>1. r.how = Nothing
    BY DEF Filter!Blank
  <2>2. Filter!Start(j, r) /\ UNCHANGED <<guildRow, promisedItems>>
    BY <1>2 DEF Filter!Read, Filter!configVars
  <2> HIDE DEF r
  <2>3. AsksFor(r)
    BY <2>1, CommandsAre DEF AsksFor, FilterAssumed
  <2> QED BY <1>1, <2>2, <2>3
<1>3. ASSUME NEW c \in Synced, Filter!Set(j, c) PROVE ExemptInv'
  <2>1. PICK value \in {0, s7 + 1} :
          Filter!Start(j, [Filter!Blank EXCEPT
                           !.step = Filter!First(c, IF c.compares THEN "check" ELSE "write"),
                           !.then = "write", !.how = c, !.value = value,
                           !.updates = Filter!NewUpdates(Head(c.writes), value),
                           !.rest = Tail(c.writes)])
    BY <1>3 DEF Filter!Set
  <2> DEFINE step == Filter!First(c, IF c.compares THEN "check" ELSE "write")
             u == Filter!NewUpdates(Head(c.writes), value)
             rest == Tail(c.writes)
  <2> HIDE DEF step, u, rest
  <2> DEFINE r == [Filter!Blank EXCEPT !.step = step, !.then = "write", !.how = c, !.value = value,
                                       !.updates = u, !.rest = rest]
  <2>2. Filter!Start(j, r)
    BY <2>1 DEF step, u, rest
  <2>3. r.how = c
    BY DEF Filter!Blank
  <2> HIDE DEF r
  <2>4. c # CommandOf["words"] /\ UNCHANGED <<guildRow, promisedItems>>
    BY <1>3, WordsAre DEF Filter!Set
  <2>5. AsksFor(r)
    BY <2>3, <2>4 DEF AsksFor
  <2> QED BY <1>1, <2>2, <2>4, <2>5
<1>4. ASSUME NEW c \in Synced, NEW edit \in {"add", "remove"}, Filter!Edit(j, c, edit, Caller)
      PROVE  ExemptInv'
  <2>1. c.synced
    BY CommandsAre DEF IsCommand
  <2> DEFINE r == [Filter!Blank EXCEPT !.step = "get", !.then = "list", !.how = c, !.edit = edit,
                                       !.item = Caller]
  <2>2. Filter!Start(j, r) /\ UNCHANGED <<guildRow, promisedItems>>
    BY <1>4, <2>1 DEF Filter!Edit, Filter!First
  <2>3. r.item = Caller /\ r.step = "get"
    BY DEF Filter!Blank
  <2> HIDE DEF r
  <2>4. AsksFor(r)
    BY <2>3 DEF AsksFor
  <2> QED BY <1>1, <2>2, <2>4
<1> QED BY <1>2, <1>3, <1>4, NoOtherCommands DEF Filter!Asks

\* What the command makes of the list.
ExemptList(t) ==
  LET l == CHOOSE s \in t.how.writes[1] : TRUE
      adds == IF t.how.kind = "toggle" THEN t.item \notin guildRow[l] ELSE t.edit = "add"
      edited == IF adds THEN guildRow[l] \cup {t.item} ELSE guildRow[l] \ {t.item} IN
  [s \in {l} |-> edited]

LEMMA ExemptReadsList ==
  ASSUME FilterInv, FilterAssumed, ExemptInv, NEW j \in Jobs, Filter!ReadList(j)
  PROVE  ExemptInv'
<1> DEFINE t == routines[j]
           u == ExemptList(t)
           r == [t EXCEPT !.step = "write", !.updates = u, !.seen = Nothing]
<1>1. t # NoJob /\ t.step = "list" /\ UNCHANGED <<guildRow, promisedItems>>
  BY DEF Filter!ReadList, Filter!At
<1>2. \/ Filter!Goes(j, "done")
      \/ routines' = [routines EXCEPT ![j].step = "write", ![j].updates = u, ![j].seen = Nothing]
  BY DEF Filter!ReadList, ExemptList
<1>3. IsTask(t) /\ t.how = CommandOf["words"] /\ t.item = Caller
  BY <1>1, FilterTaskIs DEF FilterTask, Reading, ExemptInv, AsksFor
<1>4. CASE Filter!Goes(j, "done")
  BY <1>1, <1>4, ExemptGoes
<1>5. CASE routines' = [routines EXCEPT ![j].step = "write", ![j].updates = u, ![j].seen = Nothing]
  <2>1. (CHOOSE s \in t.how.writes[1] : TRUE) = ExemptRoles /\ t.how.kind = "edit"
    BY <1>3, WordsAre
  <2>2. u = [s \in {ExemptRoles} |-> IF t.edit = "add" THEN guildRow[ExemptRoles] \cup {Caller}
                                     ELSE guildRow[ExemptRoles] \ {Caller}]
    BY <1>3, <2>1 DEF ExemptList
  <2>3. DOMAIN u = {ExemptRoles} /\ (Caller \in u[ExemptRoles] <=> t.edit = "add")
    BY <2>2
  <2> HIDE DEF u
  <2>4. routines' = [routines EXCEPT ![j] = r]
    BY <1>5
  <2>5. r.how = t.how /\ r.item = t.item /\ r.updates = u /\ r.edit = t.edit
    BY <1>3 DEF IsTask, Fields
  <2> HIDE DEF r
  <2>6. AsksFor(r)
    BY <1>3, <2>3, <2>5 DEF AsksFor
  <2> QED BY <1>1, <2>4, <2>6, ExemptStays
<1> QED BY <1>2, <1>4, <1>5

LEMMA ExemptWrites ==
  ASSUME FilterInv, FilterAssumed, ExemptInv, NEW j \in Jobs, Filter!Write(j)
  PROVE  ExemptInv'
<1> DEFINE t == routines[j]
           u == t.updates
           r == To(t, "invalidate")
           l == ExemptRoles
<1>1. /\ t # NoJob /\ t.step = "write" /\ Filter!Goes(j, "invalidate")
      /\ guildRow' = [s \in Filter!Settings |-> IF s \in DOMAIN u THEN u[s] ELSE guildRow[s]]
      /\ promisedItems' = [p \in DOMAIN promisedItems |->
           IF p[1] \notin DOMAIN u THEN promisedItems[p]
           ELSE IF j \in overlappedBy THEN p[2] \in u[p[1]]
           ELSE CASE t.item = Nothing -> FALSE
                  [] t.item = p[2] -> t.edit = "add"
                  [] OTHER -> promisedItems[p]]
  BY DEF Filter!Write, Filter!At
<1>2. FilterTask(t) /\ IsTask(t) /\ AsksFor(t)
  BY <1>1, FilterTaskIs DEF ExemptInv
<1>3. routines' = [routines EXCEPT ![j] = r]
  BY <1>1, FilterGoesTo
<1>4. r.how = t.how /\ r.item = t.item /\ r.step = "invalidate"
  BY <1>2, ToIs DEF Fields
<1> HIDE DEF r
<1>5. ASSUME NEW k \in Jobs, routines'[k] # NoJob PROVE AsksFor(routines'[k])
  BY <1>2, <1>3, <1>4, <1>5, FilterTasksAre DEF ExemptInv, AsksFor
<1>6. \/ t.how # CommandOf["words"] /\ l \notin DOMAIN u
      \/ /\ DOMAIN u = {l} /\ t.item = Caller
         /\ Caller \in u[l] <=> t.edit = "add"
  <2>1. t.how = CommandOf["invites"] \/ t.how = CommandOf["words"]
    BY <1>1, <1>2 DEF FilterTask, Reading
  <2>2. CASE t.how = CommandOf["invites"]
    <3>1. DOMAIN u \subseteq {SettingOf["invites"]} /\ t.how # CommandOf["words"]
      BY <1>2, <2>2, WordsAre, CommandsAre, TabledIs DEF FilterTask, FilterAssumed, IsCommand, Filter!Parts
    <3> QED BY <3>1 DEF SettingOf, Filter!Parts, ExemptRoles
  <2>3. CASE t.how = CommandOf["words"]
    BY <1>1, <1>2, <2>3 DEF AsksFor
  <2> QED BY <2>1, <2>2, <2>3
<1>7. Filter!EditsStay'
  <2> SUFFICES ASSUME NEW m \in Filter!GuardedLists, NEW i \in {Caller}
               PROVE  (i \in guildRow'[m]) = promisedItems'[<<m, i>>]
    BY DEF Filter!EditsStay
  <2>1. /\ m = l /\ i = Caller /\ l \in Filter!Settings /\ <<l, i>> \in DOMAIN promisedItems
        /\ <<l, i>>[1] = l /\ <<l, i>>[2] = i
    BY WordsAre DEF ExemptInv
  <2>2. (i \in guildRow[l]) = promisedItems[<<l, i>>]
    BY <2>1 DEF ExemptInv, Filter!EditsStay
  <2>3. CASE l \notin DOMAIN u
    <3>1. guildRow'[l] = guildRow[l] /\ promisedItems'[<<l, i>>] = promisedItems[<<l, i>>]
      BY <1>1, <2>1, <2>3
    <3> QED BY <2>1, <2>2, <3>1
  <2>4. CASE l \in DOMAIN u
    <3>1. guildRow'[l] = u[l]
      BY <1>1, <2>1, <2>4
    <3>2. CASE j \in overlappedBy
      <4>1. promisedItems'[<<l, i>>] = (i \in u[l])
        BY <1>1, <2>1, <2>4, <3>2
      <4> QED BY <2>1, <3>1, <4>1
    <3>3. CASE j \notin overlappedBy
      <4>1. promisedItems'[<<l, i>>] = (t.edit = "add")
        BY <1>1, <1>6, <2>1, <2>4, <3>3 DEF FilterAssumed
      <4>2. (i \in u[l]) <=> t.edit = "add"
        BY <1>6, <2>1, <2>4
      <4>3. (i \in u[l]) = (t.edit = "add")
        BY <4>2
      <4> QED BY <2>1, <3>1, <4>1, <4>3
    <3> QED BY <3>2, <3>3
  <2> QED BY <2>3, <2>4
<1> QED BY <1>1, <1>5, <1>7 DEF ExemptInv, AsksFor

LEMMA ExemptWorks ==
  ASSUME FilterInv, FilterAssumed, ExemptInv, NEW j \in Jobs, Filter!Works(j)
  PROVE  ExemptInv'
<1>1. ~Filter!Check(j) /\ ~Filter!RunSubcommand(j) /\ ~Filter!Save(j) /\ ~Filter!AbortWizard(j)
  BY FilterSteps DEF Filter!Check, Filter!RunSubcommand, Filter!Save, Filter!AbortWizard, Filter!At,
    Reading
<1>2. CASE Filter!QueryFails(j) \/ Filter!ReadListFails(j) \/ Filter!WriteFails(j)
  <2>1. routines[j] # NoJob
    BY <1>2 DEF Filter!QueryFails, Filter!ReadListFails, Filter!WriteFails, Filter!At
  <2>2. Filter!Abandon(j)
    BY <1>2, <2>1, WordsRead DEF Filter!QueryFails, Filter!ReadListFails, Filter!WriteFails
  <2> QED BY <2>1, <2>2, ExemptGoes DEF Filter!Abandon
<1>3. CASE Filter!Invalidate(j)
  <2>1. routines[j] # NoJob /\ UNCHANGED <<guildRow, promisedItems>>
    BY <1>3 DEF Filter!Invalidate, Filter!At
  <2>2. PICK step \in {"queue", "done"} : Filter!Goes(j, step)
    BY <1>3, <2>1, WordsRead DEF Filter!Invalidate, Filter!Follows
  <2> QED BY <2>1, <2>2, ExemptGoes
<1> QED BY <1>1, <1>2, <1>3, ExemptReads, ExemptReadsList, ExemptWrites DEF Filter!Works

LEMMA ExemptKeeps ==
  ASSUME FilterInv, FilterAssumed, ExemptInv, [Filter!FilterNext]_(Filter!filterVars)
  PROVE  ExemptInv'
<1>1. ASSUME NEW j \in Jobs,
             Filter!HandleInvites(j) \/ Filter!HandleWords(j) \/ Filter!HandleRegex(j)
      PROVE  ExemptInv'
  <2>1. PICK part \in Filter!Parts, edit \in {"add", "remove", "clear"}, es \in SUBSET Entries :
          Filter!EditTable(j, part, edit, es)
    BY <1>1 DEF Filter!HandleInvites, Filter!HandleWords, Filter!HandleRegex, Filter!Parts
  <2> DEFINE c == Filter!Tabled(part)
             r == [Filter!Blank EXCEPT !.step = "get", !.then = "table", !.how = c, !.edit = edit,
                                       !.item = es]
  <2>2. routines' = [routines EXCEPT ![j] = r] /\ UNCHANGED <<guildRow, promisedItems>>
    BY <2>1 DEF Filter!EditTable, Filter!Start
  <2> HIDE DEF c
  <2>3. r.how = c
    BY DEF Filter!Blank
  <2> HIDE DEF r
  <2>4. AsksFor(r)
    BY <2>3, WordsAre DEF AsksFor, c
  <2> QED BY <2>2, <2>4, ExemptStays
<1>2. ASSUME NEW j \in Jobs, Filter!Table(j) \/ Filter!TableFails(j) \/ Filter!QueueSync(j)
      PROVE  ExemptInv'
  <2>1. routines[j] # NoJob /\ UNCHANGED <<guildRow, promisedItems>>
    BY <1>2 DEF Filter!Table, Filter!TableFails, Filter!QueueSync, Filter!At, Filter!Unlock,
      Filter!Elsewhere, Filter!configVars
  <2>2. PICK step \in {"done", "queue"} : Filter!Goes(j, step)
    BY <1>2 DEF Filter!Table, Filter!TableFails, Filter!QueueSync
  <2> QED BY <2>1, <2>2, ExemptGoes
<1>3. CASE Filter!LoadFails \/ Filter!EndSync \/ \E part \in Filter!Parts : Filter!SyncRule(part)
  <2>1. routines[Worker] # NoJob /\ UNCHANGED <<guildRow, promisedItems>>
    BY <1>3 DEF Filter!LoadFails, Filter!EndSync, Filter!SyncRule, Filter!At, Filter!Elsewhere,
      Filter!configVars
  <2>2. PICK step \in {"done", "words", "end"} : Filter!Goes(Worker, step)
    BY <1>3 DEF Filter!LoadFails, Filter!EndSync, Filter!SyncRule
  <2> QED BY <2>1, <2>2, ExemptGoes, FilterTasksAre
<1>4. CASE Filter!Load \/ Filter!Fire \/ Filter!FlushTasks
  <2>1. UNCHANGED <<guildRow, promisedItems>>
    BY <1>4 DEF Filter!Load, Filter!Fire, Filter!FlushTasks, Filter!Elsewhere, Filter!configVars
  <2>2. \A j \in Jobs : routines'[j] = routines[j]
    <3>1. CASE Filter!Load
      BY <3>1, FilterTasksAre DEF Filter!Load
    <3>2. CASE Filter!FlushGuild
      BY <3>2, FilterTasksAre DEF Filter!FlushGuild
    <3> QED BY <1>4, <3>1, <3>2 DEF Filter!Fire, Filter!FlushTasks
  <2> QED BY <2>1, <2>2 DEF ExemptInv, Filter!EditsStay, AsksFor
<1>5. CASE Filter!ReadConfig
  BY <1>5, ExemptReads DEF Filter!ReadConfig
<1>6. CASE UNCHANGED <<guildRow, promisedItems, routines>>
  BY <1>6 DEF ExemptInv, Filter!EditsStay, AsksFor
<1>7. CASE \/ Filter!Expire \/ Filter!Requeue \/ Filter!FlushBegins \/ Filter!FlushEnds
           \/ Filter!FlushGivesUp \/ UNCHANGED Filter!filterVars
  BY <1>6, <1>7 DEF Filter!Expire, Filter!Requeue, Filter!FlushBegins, Filter!FlushEnds,
    Filter!FlushGivesUp, Filter!Elsewhere, Filter!configVars, Filter!filterVars, Filter!vars
<1>8. ASSUME NEW j \in Jobs, Filter!Config(j) PROVE ExemptInv'
  BY <1>8, ExemptBegins, ExemptWorks DEF Filter!Config
<1> QED BY <1>1, <1>2, <1>3, <1>4, <1>5, <1>7, <1>8 DEF Filter!FilterNext

LEMMA ExemptStarts == ASSUME Filter!FilterInit, FilterAssumed PROVE ExemptInv
<1>1. /\ routines = [j \in Jobs \cup {Worker} |-> NoJob] /\ guildRow = Filter!Defaults
      /\ promisedItems = [edit \in Filter!Lists \X {Caller} |-> FALSE]
  BY DEF Filter!FilterInit, Filter!ConfigInit
<1>2. ASSUME NEW l \in Filter!GuardedLists, NEW i \in {Caller}
      PROVE  (i \in guildRow[l]) = promisedItems[<<l, i>>]
  <2> DEFINE listed == i \in guildRow[l]
  <2>1. l \in Filter!Lists /\ l \in Filter!Settings
    BY WordsAre
  <2>2. ~listed /\ promisedItems[<<l, i>>] = FALSE
    BY <1>1, <2>1 DEF Filter!Defaults
  <2>3. listed = FALSE
    BY <2>2
  <2> QED BY <2>2, <2>3
<1> QED BY <1>1, <1>2 DEF ExemptInv, Filter!EditsStay, Filter!Defaults

LEMMA FilterCachedIsTrue == ASSUME CacheFits PROVE Filter!CacheIsTrue
BY DEF CacheFits, AtStep, Filter!CacheIsTrue, Filter!At

ConfigWhenRun == focus = "configuration" => ConfigInv
ExemptWhenRun == focus = "filter" => FilterInv /\ ExemptInv

\* The cached configuration is the row's, but while a writer has still to invalidate it or a
\* reader put what had been overwritten; no edit of a guarded list is lost; and the setup
\* dashboard changes what was chosen in it, unless somebody wrote meanwhile (config.go,
\* restrictions.go, setup.go).
THEOREM ConfigurationIsTrueAlways ==
    ASSUME ConfigAssumed, FilterAssumed
    PROVE  ServicesSpec => ConfigurationIsTrue
<1>1. ServicesInit => ConfigWhenRun /\ ExemptWhenRun
  BY InitOfOne, ConfigStarts, FilterStarts, ExemptStarts DEF ConfigWhenRun, ExemptWhenRun
<1>2. ConfigWhenRun /\ [ServicesNext]_<<focus, From1, lockVars>> => ConfigWhenRun'
  BY StepOfOne, ConfigKeeps DEF ConfigWhenRun
<1>3. ExemptWhenRun /\ [ServicesNext]_<<focus, From1, lockVars>> => ExemptWhenRun'
  BY StepOfOne, FilterKeeps, ExemptKeeps DEF ExemptWhenRun
<1>4. ConfigWhenRun => (focus = "configuration" => Config!CacheIsTrue /\ Config!EditsStay)
  BY CachedIsTrue DEF ConfigWhenRun, ConfigInv
<1>5. ExemptWhenRun => (focus = "filter" => Filter!CacheIsTrue /\ Filter!EditsStay)
  BY FilterCachedIsTrue DEF ExemptWhenRun, ExemptInv, FilterInv
<1>6. ConfigWhenRun /\ [ServicesNext]_<<focus, From1, lockVars>>
        => [focus = "configuration" => Config!ChangesWhatWasChosen]_<<focus, From1, lockVars>>
  BY StepOfOne, SetupSaves DEF ConfigWhenRun
<1> QED BY <1>1, <1>2, <1>3, <1>4, <1>5, <1>6, PTL DEF ServicesSpec, ConfigurationIsTrue

=============================================================================
