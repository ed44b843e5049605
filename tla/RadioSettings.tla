---------------------------- MODULE RadioSettings ----------------------------
(***************************************************************************)
(* The settings of one guild's radio session (internal/radio/settings.go): *)
(* a copy in memory of three columns of the database, loaded on first use  *)
(* by one goroutine for all (settingsMu, waitCh), replaced by updates,     *)
(* reloaded by force after the setup dashboard wrote the columns itself,   *)
(* and cleared when the autojoin channel is deleted.                       *)
(*                                                                         *)
(* A value is the number of the write that stored it.  Each thread is a    *)
(* command or an event; it stops at every point where the code unlocks or  *)
(* waits.  Sections that neither wait nor call out while they hold         *)
(* settingsMu are one step; the two that save to the database keep it.     *)
(***************************************************************************)
EXTENDS Naturals, Sequences, FiniteSets, SequencesExt

CONSTANTS
  Threads,        \* goroutines that use the settings
  NoThread,       \* the null thread
  Keys,           \* the fields, in the order LoadRadioSettings reads them
  Autojoin,       \* the field that names the autojoin channel
  Cleared,        \* autojoin "" in memory, while it is not yet saved
  MaxWrites,      \* bound: writes to the database
  MaxErrors       \* bound: database calls that fail

Fields == Range(Keys)

ASSUME SettingsAssumption ==
  /\ NoThread \notin Threads
  /\ Keys \in Seq(STRING) /\ Len(Keys) > 0 /\ IsInjective(Keys)
  /\ Autojoin \in Fields
  /\ Cleared \notin Nat /\ IsFiniteSet(Threads)
  /\ MaxWrites \in Nat \ {0} /\ MaxErrors \in Nat

VARIABLES
  store,          \* guild_settings: field -> write
  mem,            \* session.restrictionMode, autojoinChannelID, ...: field -> write
  loaded,         \* settingsLoadState.loaded
  err,            \* settingsLoadState.err # nil
  waitCh,         \* the thread whose load owns waitCh; loading iff there is one
  mutex,          \* who keeps settingsMu across a call to the database
  th,             \* the threads
  writes,         \* writes to the database so far
  errors,         \* database calls that failed so far
  fatal           \* settingsMu was unlocked by a thread that had not locked it

vars == <<store, mem, loaded, err, waitCh, mutex, th, writes, errors, fatal>>

(***************************************************************************)
(* A thread: where it is, which operation it performs, whether this call   *)
(* of loadSettingsWithForce forces, the load it waits for, what it has     *)
(* read, the fields it sets, its copy of the settings (UpdateSettings,     *)
(* HandleChannelDeleted) and the write setup made.                         *)
(***************************************************************************)
Ops == {"none", "use", "update", "setup", "delete"}
PCs == {"idle", "load", "wait", "woken", "read", "failed", "unheld",
        "lock", "waitLock", "save", "saved"}

Idle == [pc |-> "idle", op |-> "none", force |-> FALSE, on |-> NoThread,
         got |-> <<>>, set |-> {}, local |-> [f \in Fields |-> 0],
         mine |-> 0]

Loading == waitCh # NoThread

TypeOK ==
  /\ store \in [Fields -> Nat \ {0}]
  /\ mem \in [Fields -> Nat \cup {Cleared}]
  /\ loaded \in BOOLEAN /\ err \in BOOLEAN /\ fatal \in BOOLEAN
  /\ waitCh \in Threads \cup {NoThread} /\ mutex \in Threads \cup {NoThread}
  /\ writes \in Nat \ {0} /\ errors \in 0..MaxErrors
  /\ th \in [Threads -> [pc : PCs, op : Ops, force : BOOLEAN,
                         on : Threads \cup {NoThread}, got : Seq(Nat \ {0}),
                         set : SUBSET Fields, local : [Fields -> Nat], mine : Nat]]
  /\ \A t \in Threads : Len(th[t].got) <= Len(Keys)

Init ==
  /\ store = [f \in Fields |-> 1]
  /\ mem = [f \in Fields |-> 0]
  /\ loaded = FALSE /\ err = FALSE /\ fatal = FALSE
  /\ waitCh = NoThread /\ mutex = NoThread
  /\ th = [t \in Threads |-> Idle]
  /\ writes = 1 /\ errors = 0

(***************************************************************************)
(* Helpers.                                                                *)
(***************************************************************************)

\* settingsMu is free: the guard of every section.
Free == ~fatal /\ mutex = NoThread

Goto(t, pc) == th' = [th EXCEPT ![t].pc = pc]

\* close(ch): the load of t is over and those who wait for it may go on, and t
\* becomes r.
Closing(t, r) ==
  [u \in Threads |->
     IF u = t THEN r
     ELSE IF th[u].on = t /\ th[u].pc = "wait"
          THEN [th[u] EXCEPT !.pc = "woken", !.on = NoThread]
     ELSE IF th[u].on = t /\ th[u].pc = "waitLock"
          THEN [th[u] EXCEPT !.pc = "lock", !.on = NoThread]
     ELSE th[u]]

\* What t does when loadSettingsWithForce returns to its caller: a command goes
\* on, UpdateSettings locks, RefreshSettings forces a second load.
Returned(r) ==
  CASE r.op = "update" -> [Idle EXCEPT !.pc = "lock", !.op = "update", !.set = r.set]
    [] r.op = "setup" /\ ~r.force ->
         [Idle EXCEPT !.pc = "load", !.op = "setup", !.force = TRUE, !.mine = r.mine]
    [] OTHER -> Idle

\* The bound on writes is one on the operations that may still make one.
Writers == {t \in Threads : \/ th[t].op = "delete"
                            \/ th[t].op = "update" /\ th[t].set # {}}
MayWrite == writes + Cardinality(Writers) < MaxWrites

\* The fields of D get a new write.
Write(D) == /\ writes' = writes + 1
            /\ store' = [f \in Fields |-> IF f \in D THEN writes + 1 ELSE store[f]]

Fails == errors < MaxErrors /\ errors' = errors + 1

(***************************************************************************)
(* The operations begin.                                                   *)
(***************************************************************************)

\* Any command or event that calls getSession.
Use(t) ==
  /\ ~fatal /\ th[t].pc = "idle"
  /\ th' = [th EXCEPT ![t] = [Idle EXCEPT !.pc = "load", !.op = "use"]]
  /\ UNCHANGED <<store, mem, loaded, err, waitCh, mutex, writes, errors, fatal>>

\* UpdateSettings: getSession loads, its error is ignored.
Update(t, D) ==
  /\ ~fatal /\ th[t].pc = "idle"
  /\ D # {} => MayWrite
  /\ th' = [th EXCEPT ![t] = [Idle EXCEPT !.pc = "load", !.op = "update", !.set = D]]
  /\ UNCHANGED <<store, mem, loaded, err, waitCh, mutex, writes, errors, fatal>>

\* The setup dashboard writes every column and calls RefreshSettings, which
\* calls getSession first.
Setup(t) ==
  /\ ~fatal /\ th[t].pc = "idle"
  /\ MayWrite /\ Write(Fields)
  /\ th' = [th EXCEPT ![t] = [Idle EXCEPT !.pc = "load", !.op = "setup", !.mine = writes + 1]]
  /\ UNCHANGED <<mem, loaded, err, waitCh, mutex, errors, fatal>>

\* A channel is deleted.
ChannelDeleted(t) ==
  /\ ~fatal /\ th[t].pc = "idle"
  /\ MayWrite
  /\ th' = [th EXCEPT ![t] = [Idle EXCEPT !.pc = "lock", !.op = "delete"]]
  /\ UNCHANGED <<store, mem, loaded, err, waitCh, mutex, writes, errors, fatal>>

(***************************************************************************)
(* loadSettingsWithForce.                                                  *)
(***************************************************************************)

AlreadyLoaded(t) ==
  /\ Free /\ th[t].pc = "load" /\ loaded /\ ~th[t].force
  /\ th' = [th EXCEPT ![t] = Returned(th[t])]
  /\ UNCHANGED <<store, mem, loaded, err, waitCh, mutex, writes, errors, fatal>>

WaitForLoad(t) ==
  /\ Free /\ th[t].pc = "load" /\ (~loaded \/ th[t].force) /\ Loading
  /\ th' = [th EXCEPT ![t].pc = "wait", ![t].on = waitCh]
  /\ UNCHANGED <<store, mem, loaded, err, waitCh, mutex, writes, errors, fatal>>

BeginLoad(t) ==
  /\ Free /\ th[t].pc = "load" /\ (~loaded \/ th[t].force) /\ ~Loading
  /\ waitCh' = t /\ err' = FALSE
  /\ th' = [th EXCEPT ![t].pc = "read", ![t].got = <<>>]
  /\ UNCHANGED <<store, mem, loaded, mutex, writes, errors, fatal>>

\* The context of a waiting thread ends.
WaitCancelled(t) ==
  /\ ~fatal /\ th[t].pc \in {"wait", "waitLock"}
  /\ th' = [th EXCEPT ![t] = IF th[t].pc = "wait" THEN Returned(th[t]) ELSE Idle]
  /\ UNCHANGED <<store, mem, loaded, err, waitCh, mutex, writes, errors, fatal>>

\* The load it waited for is over: a forced load returns if some load succeeded,
\* tries again if the last failed, and otherwise goes on to line 189 although
\* it has unlocked.
AfterWait(t) ==
  /\ Free /\ th[t].pc = "woken"
  /\ th' = [th EXCEPT ![t] =
       IF ~th[t].force \/ loaded THEN Returned(th[t])
       ELSE IF err THEN [th[t] EXCEPT !.pc = "load"]
       ELSE [th[t] EXCEPT !.pc = "unheld"]]
  /\ UNCHANGED <<store, mem, loaded, err, waitCh, mutex, writes, errors, fatal>>

\* Lines 189 to 194 without the lock end in Unlock.  A mutex that nobody holds
\* makes that fatal for the process; one that another holds is then unlocked
\* once more than it is locked, so a later Unlock is.  The model ends here.
UnlockUnheld(t) ==
  /\ ~fatal /\ th[t].pc = "unheld"
  /\ fatal' = TRUE
  /\ UNCHANGED <<store, mem, loaded, err, waitCh, mutex, th, writes, errors>>

\* Mutant: a column comes from the settings in memory where they are known.
ReadFieldCached(t) ==
  /\ ~fatal /\ th[t].pc = "read" /\ Len(th[t].got) < Len(Keys)
  /\ th' = [th EXCEPT ![t].got =
       LET f == Keys[Len(@) + 1] IN Append(@, IF mem[f] \in {0, Cleared} THEN store[f] ELSE mem[f])]
  /\ UNCHANGED <<store, mem, loaded, err, waitCh, mutex, writes, errors, fatal>>

\* Mutant: a failed load does not close its channel.
LoadFailedSilently(t) ==
  /\ Free /\ th[t].pc = "failed"
  /\ err' = TRUE /\ waitCh' = NoThread
  /\ th' = [th EXCEPT ![t] = Returned(th[t])]
  /\ UNCHANGED <<store, mem, loaded, mutex, writes, errors, fatal>>

\* LoadRadioSettings reads one column per statement.
ReadField(t) ==
  /\ ~fatal /\ th[t].pc = "read" /\ Len(th[t].got) < Len(Keys)
  /\ th' = [th EXCEPT ![t].got = Append(@, store[Keys[Len(@) + 1]])]
  /\ UNCHANGED <<store, mem, loaded, err, waitCh, mutex, writes, errors, fatal>>

ReadFails(t) ==
  /\ ~fatal /\ th[t].pc = "read" /\ Len(th[t].got) < Len(Keys)
  /\ Fails
  /\ Goto(t, "failed")
  /\ UNCHANGED <<store, mem, loaded, err, waitCh, mutex, writes, fatal>>

LoadFailed(t) ==
  /\ Free /\ th[t].pc = "failed"
  /\ err' = TRUE /\ waitCh' = NoThread
  /\ th' = Closing(t, Returned(th[t]))
  /\ UNCHANGED <<store, mem, loaded, mutex, writes, errors, fatal>>

\* The fields as they were read.
Read(t) == [f \in Fields |-> th[t].got[CHOOSE k \in DOMAIN Keys : Keys[k] = f]]

LoadSucceeded(t) ==
  /\ Free /\ th[t].pc = "read" /\ Len(th[t].got) = Len(Keys)
  /\ mem' = Read(t)
  /\ loaded' = TRUE /\ err' = FALSE /\ waitCh' = NoThread
  /\ th' = Closing(t, Returned(th[t]))
  /\ UNCHANGED <<store, mutex, writes, errors, fatal>>

(***************************************************************************)
(* lockSettingsForUpdate, UpdateSettings and HandleChannelDeleted.         *)
(***************************************************************************)

WaitToLock(t) ==
  /\ Free /\ th[t].pc = "lock" /\ Loading
  /\ th' = [th EXCEPT ![t].pc = "waitLock", ![t].on = waitCh]
  /\ UNCHANGED <<store, mem, loaded, err, waitCh, mutex, writes, errors, fatal>>

\* Mutant: an update does not wait for a load under way.
LockUpdateEarly(t) ==
  /\ Free /\ th[t].pc = "lock" /\ th[t].op = "update"
  /\ mutex' = t
  /\ th' = [th EXCEPT ![t].pc = "save", ![t].local = mem]
  /\ UNCHANGED <<store, mem, loaded, err, waitCh, writes, errors, fatal>>

\* UpdateSettings copies the settings and overwrites those of the request.
LockUpdate(t) ==
  /\ Free /\ th[t].pc = "lock" /\ ~Loading /\ th[t].op = "update"
  /\ mutex' = t
  /\ th' = [th EXCEPT ![t].pc = "save", ![t].local = mem]
  /\ UNCHANGED <<store, mem, loaded, err, waitCh, writes, errors, fatal>>

\* A restriction mode that is none ends the update; so does a failed save.
UpdateRefused(t) ==
  /\ ~fatal /\ th[t].pc = "save" /\ th[t].op = "update" /\ th[t].set # {}
  /\ \/ UNCHANGED errors
     \/ Fails
  /\ mutex' = NoThread
  /\ th' = [th EXCEPT ![t] = Idle]
  /\ UNCHANGED <<store, mem, loaded, err, waitCh, writes, fatal>>

\* SaveRadioSettings writes the fields of the request; none, nothing is written.
SaveUpdate(t) ==
  /\ ~fatal /\ th[t].pc = "save" /\ th[t].op = "update"
  /\ \/ th[t].set = {} /\ UNCHANGED <<store, writes>> /\ Goto(t, "saved")
     \/ /\ th[t].set # {} /\ Write(th[t].set)
        /\ th' = [th EXCEPT ![t].pc = "saved",
                            ![t].local = [f \in Fields |-> IF f \in th[t].set
                                                           THEN writes + 1 ELSE @[f]]]
  /\ UNCHANGED <<mem, loaded, err, waitCh, mutex, errors, fatal>>

\* The copy becomes the settings, which now count as loaded.
CommitUpdate(t) ==
  /\ ~fatal /\ th[t].pc = "saved"
  /\ mem' = th[t].local
  /\ loaded' = TRUE /\ err' = FALSE
  /\ mutex' = NoThread
  /\ th' = [th EXCEPT ![t] = Idle]
  /\ UNCHANGED <<store, waitCh, writes, errors, fatal>>

\* Mutant: a deletion does not wait for a load under way.
LockDeleteEarly(t) ==
  /\ Free /\ th[t].pc = "lock" /\ th[t].op = "delete"
  /\ \/ /\ th' = [th EXCEPT ![t] = Idle]
        /\ UNCHANGED <<mem, mutex>>
     \/ /\ mutex' = t
        /\ mem' = [mem EXCEPT ![Autojoin] = Cleared]
        /\ th' = [th EXCEPT ![t].pc = "save", ![t].local = mem]
  /\ UNCHANGED <<store, loaded, err, waitCh, writes, errors, fatal>>

\* HandleChannelDeleted: the channel is not the autojoin channel, or memory is
\* cleared at once.
LockDelete(t) ==
  /\ Free /\ th[t].pc = "lock" /\ ~Loading /\ th[t].op = "delete"
  /\ \/ /\ th' = [th EXCEPT ![t] = Idle]
        /\ UNCHANGED <<mem, mutex>>
     \/ /\ mutex' = t
        /\ mem' = [mem EXCEPT ![Autojoin] = Cleared]
        /\ th' = [th EXCEPT ![t].pc = "save", ![t].local = mem]
  /\ UNCHANGED <<store, loaded, err, waitCh, writes, errors, fatal>>

SaveDelete(t) ==
  /\ ~fatal /\ th[t].pc = "save" /\ th[t].op = "delete"
  /\ Write({Autojoin})
  /\ mem' = [mem EXCEPT ![Autojoin] = writes + 1]
  /\ mutex' = NoThread
  /\ th' = [th EXCEPT ![t] = Idle]
  /\ UNCHANGED <<loaded, err, waitCh, errors, fatal>>

\* The save fails: memory gets the channel back.
DeleteFails(t) ==
  /\ ~fatal /\ th[t].pc = "save" /\ th[t].op = "delete"
  /\ Fails
  /\ mem' = [mem EXCEPT ![Autojoin] = th[t].local[Autojoin]]
  /\ mutex' = NoThread
  /\ th' = [th EXCEPT ![t] = Idle]
  /\ UNCHANGED <<store, loaded, err, waitCh, writes, fatal>>

(***************************************************************************)
(* The specification.                                                      *)
(***************************************************************************)

\* What the scheduler and the database drive once an operation has begun.
Step(t) ==
  \/ AlreadyLoaded(t) \/ WaitForLoad(t) \/ BeginLoad(t) \/ AfterWait(t)
  \/ UnlockUnheld(t) \/ ReadField(t) \/ ReadFails(t) \/ LoadFailed(t) \/ LoadSucceeded(t)
  \/ WaitToLock(t) \/ LockUpdate(t) \/ UpdateRefused(t) \/ SaveUpdate(t) \/ CommitUpdate(t)
  \/ LockDelete(t) \/ SaveDelete(t) \/ DeleteFails(t)

Begin(t) ==
  \/ Use(t) \/ Setup(t) \/ ChannelDeleted(t)
  \/ \E D \in SUBSET Fields : Update(t, D)

Next == \E t \in Threads : Begin(t) \/ Step(t) \/ WaitCancelled(t)

Spec == Init /\ [][Next]_vars

(***************************************************************************)
(* Go's mutexes hand over to a waiter that has waited a millisecond, so a  *)
(* thread is not kept from settingsMu for ever (SF); a database call       *)
(* returns.  Contexts need not end, commands need not come.                *)
(***************************************************************************)
FairSpec == Spec /\ \A t \in Threads : SF_vars(Step(t))

(***************************************************************************)
(* Properties.                                                             *)
(***************************************************************************)

\* What the session shows: while HandleChannelDeleted saves, memory is ahead.
Shown == [f \in Fields |-> IF mem[f] = Cleared THEN th[mutex].local[f] ELSE mem[f]]

View == INSTANCE SettingsView WITH view <- Shown

\* Settings never go back: a load never overwrites what an update or a later
\* load has put there, however the two overlap (settings.go:196-223, 229-243).
ImplementsView == View!Spec

\* A session that claims to have its settings shows a default only if a read of
\* the database has failed before: UpdateSettings waits for the first load
\* before it declares the settings loaded (settings.go:229, 296).
DefaultsOnlyAfterError == (loaded /\ \E f \in Fields : mem[f] = 0) => errors > 0

\* A forced refresh that returns after a load of its own shows what its caller
\* had written to the database before (settings.go:196-226, setup.go:332-336).
RefreshSeesWrite ==
  [][\A t \in Threads :
       (/\ th[t].op = "setup" /\ th[t].force /\ th[t].pc = "read"
        /\ th'[t].pc \notin {"read", "failed"})
         => \A f \in Fields : mem'[f] >= th[t].mine]_vars

\* Every operation ends: no waiter is forgotten when a load ends, fails or is
\* overtaken, and nobody keeps settingsMu (settings.go:198-224, 229-243, 256).
OperationsEnd == \A t \in Threads : th[t].pc # "idle" ~> (th[t].pc = "idle" \/ fatal)

\* What a session passes for its settings is what the database holds or held.
ShowsWhatIsStored == []DefaultsOnlyAfterError /\ RefreshSeesWrite
=============================================================================
