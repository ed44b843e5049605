---------------------------- MODULE ChannelLocks ---------------------------
(***************************************************************************)
(* Who may speak in and see the channels of one guild (commands/moderation *)
(* lock, hide and nuke, helpers/channels.go): lock and unlock, hide and    *)
(* reveal, nuke, and the lockdown of every channel with the list that lets *)
(* an unlockdown lift it.                                                  *)
(*                                                                         *)
(* A command decides by what Discord answers, but changes an overwrite by  *)
(* the session's copy, which lags: helpers.GetChannel asks the state       *)
(* first.  So a lock may bring back a hide that was just undone.  Of an    *)
(* overwrite the denied permissions are kept, what it allows is not.  The  *)
(* confirmations are PromptConfirmation's (module Moderation).             *)
(***************************************************************************)
EXTENDS Naturals, FiniteSets

CONSTANTS
  Channels,      \* bound: the channels Discord makes
  Jobs,          \* bound: commands at a time
  Idle, None,
  MaxCommands,   \* bound: commands that are started
  MaxErrors      \* bound: calls that fail

VARIABLES
  channels,      \* those that exist
  denied,        \* channel -> what @everyone is denied
  seen,          \* the same, in the session's state
  saved,         \* the setting locked_channels
  modlog,        \* the setting mod_log_channel_id
  jobs, commands, errors,
  lockedDown,    \* ghost: channels a lockdown locked and nothing unlocked since
  forgotten,     \* ghost: channels of a list that was not written or was overwritten
  overlapped     \* ghost: a lockdown began while an unlockdown ran, or the reverse

discord == <<channels, denied, seen>>
settings == <<saved, modlog>>
ghosts == <<lockedDown, forgotten, overlapped>>
vars == <<discord, settings, jobs, commands, errors, ghosts>>

Permissions == {"send", "view"}
Kinds == {"lockdown", "unlockdown", "nuke", "softnuke"}

TypeOK ==
  /\ channels \subseteq Channels
  /\ denied \in [Channels -> SUBSET Permissions] /\ seen \in [Channels -> SUBSET Permissions]
  /\ saved \subseteq Channels /\ modlog \in Channels \cup {None}
  /\ \A j \in Jobs :
       jobs[j] = Idle \/ jobs[j] \in
         [kind : Kinds, step : {"work", "copy", "point", "remove"}, todo : SUBSET Channels,
          done : SUBSET Channels, failed : SUBSET Channels, read : SUBSET Channels,
          old : Channels \cup {None}, new : Channels \cup {None}]
  /\ commands \in 0..MaxCommands /\ errors \in 0..MaxErrors
  /\ lockedDown \subseteq Channels /\ forgotten \subseteq Channels
  /\ overlapped \in BOOLEAN

Init ==
  /\ channels \in SUBSET Channels /\ channels # {}
  /\ denied \in [Channels -> {{}, {"send"}}] /\ \A c \in Channels \ channels : denied[c] = {}
  /\ seen = denied /\ saved = {}
  /\ modlog \in {None} \cup channels
  /\ jobs = [j \in Jobs |-> Idle] /\ commands = 0 /\ errors = 0
  /\ lockedDown = {} /\ forgotten = {} /\ overlapped = FALSE

Fails == errors < MaxErrors /\ errors' = errors + 1
Command == commands < MaxCommands /\ commands' = commands + 1
At(j, step) == jobs[j] # Idle /\ jobs[j].step = step
Runs(j, kind) == jobs[j] # Idle /\ jobs[j].kind = kind
End(j) == jobs' = [jobs EXCEPT ![j] = Idle]
NewJob(kind, step, todo) ==
  [kind |-> kind, step |-> step, todo |-> todo, done |-> {}, failed |-> {}, read |-> {},
   old |-> None, new |-> None]

IsChannelLocked(c) == "send" \in denied[c]

(***************************************************************************)
(* Overwrites.                                                             *)
(***************************************************************************)

\* UpdateEveryoneRoleOverwrite: the whole overwrite is set, from the session's copy.
SetOverwrite(c, new) ==
  /\ c \in channels
  /\ denied' = [denied EXCEPT ![c] = new]
  /\ lockedDown' = IF "send" \in new THEN lockedDown ELSE lockedDown \ {c}
  /\ UNCHANGED <<channels, seen>>

LockChannel(c) == SetOverwrite(c, seen[c] \cup {"send"})
UnlockChannel(c) == SetOverwrite(c, seen[c] \ {"send"})
HideChannel(c) == SetOverwrite(c, seen[c] \cup {"view"})
UnhideChannel(c) == SetOverwrite(c, seen[c] \ {"view"})

\* The gateway tells the session.
Sync(c) ==
  /\ c \in channels /\ seen[c] # denied[c]
  /\ seen' = [seen EXCEPT ![c] = denied[c]]
  /\ UNCHANGED <<channels, denied, settings, jobs, commands, errors, ghosts>>

\* lock and unlock: nothing is done for a channel that is as wanted.  A call that fails
\* changes nothing, here and below.
Lock(c) ==
  /\ Command /\ c \in channels /\ ~IsChannelLocked(c)
  /\ LockChannel(c)
  /\ UNCHANGED <<settings, jobs, errors, forgotten, overlapped>>

Unlock(c) ==
  /\ Command /\ c \in channels /\ IsChannelLocked(c)
  /\ UnlockChannel(c)
  /\ UNCHANGED <<settings, jobs, errors, forgotten, overlapped>>

Hide(c) ==
  /\ Command /\ HideChannel(c)
  /\ UNCHANGED <<settings, jobs, errors, forgotten, overlapped>>

Reveal(c) ==
  /\ Command /\ UnhideChannel(c)
  /\ UNCHANGED <<settings, jobs, errors, forgotten, overlapped>>

(***************************************************************************)
(* Lockdown.                                                               *)
(***************************************************************************)

Overlaps(kind) == overlapped' = (overlapped \/ \E j \in Jobs : Runs(j, kind))

\* One goroutine per channel that is open now.
Lockdown(j) ==
  /\ jobs[j] = Idle /\ Command
  /\ jobs' = [jobs EXCEPT ![j] =
                NewJob("lockdown", "work", {c \in channels : ~IsChannelLocked(c)})]
  /\ Overlaps("unlockdown")
  /\ UNCHANGED <<discord, settings, errors, lockedDown, forgotten>>

LockOne(j, c) ==
  /\ Runs(j, "lockdown") /\ c \in jobs[j].todo
  /\ \/ /\ c \in channels
        /\ denied' = [denied EXCEPT ![c] = seen[c] \cup {"send"}]
        /\ jobs' = [jobs EXCEPT ![j].todo = @ \ {c}, ![j].done = @ \cup {c}]
        /\ lockedDown' = lockedDown \cup {c}
        /\ UNCHANGED errors
     \/ /\ jobs' = [jobs EXCEPT ![j].todo = @ \ {c}]
        /\ (c \notin channels /\ UNCHANGED errors) \/ Fails
        /\ UNCHANGED <<denied, lockedDown>>
  /\ UNCHANGED <<channels, seen, settings, commands, forgotten, overlapped>>

\* The list is replaced by what was locked this time, if anything was.
Lockedown(j) ==
  LET done == jobs[j].done IN
  /\ Runs(j, "lockdown") /\ jobs[j].todo = {}
  /\ \/ /\ saved' = IF done = {} THEN saved ELSE done
        /\ forgotten' = IF done = {} THEN forgotten ELSE forgotten \cup (saved \ done)
        /\ UNCHANGED errors
     \/ Fails /\ done # {} /\ forgotten' = forgotten \cup done /\ UNCHANGED saved
  /\ End(j)
  /\ UNCHANGED <<discord, modlog, commands, lockedDown, overlapped>>

\* The list, or, when it is empty or cannot be read, every channel that is locked.
Unlockdown(j) ==
  /\ jobs[j] = Idle /\ Command
  /\ \E read \in {saved, {}} :
       /\ IF read = saved THEN UNCHANGED errors ELSE Fails
       /\ jobs' = [jobs EXCEPT ![j] =
            [NewJob("unlockdown", "work", IF read # {} THEN read ELSE {c \in channels : IsChannelLocked(c)})
             EXCEPT !.read = read]]
  /\ Overlaps("lockdown")
  /\ UNCHANGED <<discord, settings, lockedDown, forgotten>>

UnlockOne(j, c) ==
  /\ Runs(j, "unlockdown") /\ c \in jobs[j].todo
  /\ \/ /\ UnlockChannel(c)
        /\ jobs' = [jobs EXCEPT ![j].todo = @ \ {c}, ![j].done = @ \cup {c}]
        /\ UNCHANGED errors
     \/ /\ jobs' = [jobs EXCEPT ![j].todo = @ \ {c}, ![j].failed = @ \cup {c}]
        /\ (c \notin channels /\ UNCHANGED errors) \/ Fails
        /\ UNCHANGED <<discord, lockedDown>>
  /\ UNCHANGED <<settings, commands, forgotten, overlapped>>

\* Mutant: the list is emptied whatever happened.
EmptyList(j) ==
  /\ Runs(j, "unlockdown") /\ jobs[j].todo = {}
  /\ saved' = {} /\ forgotten' = forgotten \cup (saved \ jobs[j].read)
  /\ End(j)
  /\ UNCHANGED <<discord, modlog, commands, errors, lockedDown, overlapped>>

\* What could not be unlocked stays in the list; what the fallback could not unlock,
\* and what was added to the list meanwhile, does not.
Unlockeddown(j) ==
  LET read == jobs[j].read
      remaining == IF read = {} THEN {} ELSE jobs[j].failed IN
  /\ Runs(j, "unlockdown") /\ jobs[j].todo = {}
  /\ \/ /\ saved' = remaining
        /\ forgotten' = forgotten \cup (saved \ read)
        /\ UNCHANGED errors
     \/ Fails /\ UNCHANGED <<saved, forgotten>>
  /\ End(j)
  /\ UNCHANGED <<discord, modlog, commands, lockedDown, overlapped>>

(***************************************************************************)
(* nuke and softnuke.                                                      *)
(***************************************************************************)

Nuke(j, c, kind) ==
  /\ jobs[j] = Idle /\ Command /\ c \in channels
  /\ jobs' = [jobs EXCEPT ![j] = [NewJob(kind, "copy", {}) EXCEPT !.old = c]]
  /\ UNCHANGED <<discord, settings, errors, ghosts>>

\* The new channel has the old one's overwrites; it is in no list.
Copy(j, new) ==
  LET old == jobs[j].old IN
  /\ At(j, "copy") /\ new \notin channels
  /\ channels' = channels \cup {new}
  /\ denied' = [denied EXCEPT ![new] = denied[old]]
  /\ seen' = [seen EXCEPT ![new] = denied[old]]
  /\ jobs' = [jobs EXCEPT ![j].step = "point", ![j].new = new]
  /\ lockedDown' = lockedDown \ {new}
  /\ UNCHANGED <<settings, commands, errors, forgotten, overlapped>>

CopyFails(j) ==
  /\ At(j, "copy") /\ Fails /\ End(j)
  /\ UNCHANGED <<discord, settings, commands, ghosts>>

\* A setting that names the old channel names the new one, before the old one goes.
Point(j) ==
  /\ At(j, "point")
  /\ \/ modlog' = (IF modlog = jobs[j].old THEN jobs[j].new ELSE modlog) /\ UNCHANGED errors
     \/ Fails /\ UNCHANGED modlog
  /\ jobs' = [jobs EXCEPT ![j].step = "remove"]
  /\ UNCHANGED <<discord, saved, commands, ghosts>>

Remove(j) ==
  LET old == jobs[j].old IN
  /\ At(j, "remove")
  /\ \/ /\ old \in channels /\ UNCHANGED errors
        /\ IF jobs[j].kind = "softnuke" THEN HideChannel(old)
           ELSE /\ channels' = channels \ {old} /\ lockedDown' = lockedDown \ {old}
                /\ UNCHANGED <<denied, seen>>
     \/ /\ (old \notin channels /\ UNCHANGED errors) \/ Fails
        /\ UNCHANGED <<discord, lockedDown>>
  /\ End(j)
  /\ UNCHANGED <<settings, commands, forgotten, overlapped>>

Next ==
  \/ \E c \in Channels :
       Sync(c) \/ Lock(c) \/ Unlock(c) \/ Hide(c) \/ Reveal(c)
  \/ \E j \in Jobs :
       \/ Lockdown(j) \/ Lockedown(j) \/ Unlockdown(j) \/ Unlockeddown(j)
       \/ \E c \in Channels :
            \/ LockOne(j, c) \/ UnlockOne(j, c) \/ Copy(j, c)
            \/ \E kind \in {"nuke", "softnuke"} : Nuke(j, c, kind)
       \/ CopyFails(j) \/ Point(j) \/ Remove(j)

Spec == Init /\ [][Next]_vars

(***************************************************************************)
(* Properties.                                                             *)
(***************************************************************************)

InHand(c) ==
  \E j \in Jobs :
    \/ Runs(j, "lockdown") /\ c \in jobs[j].done
    \/ Runs(j, "unlockdown") /\ c \in jobs[j].todo \cup jobs[j].failed

\* A channel that a lockdown closed is not lost: until something opens it, it is in the
\* list, or with a command at work, unless a later list took its place, the list could
\* not be written or read, or a lockdown and its lifting overlapped.
LockdownIsRemembered ==
  ~overlapped => \A c \in lockedDown : c \in saved \cup forgotten \/ InHand(c)
=============================================================================
