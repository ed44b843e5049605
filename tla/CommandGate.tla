----------------------------- MODULE CommandGate ----------------------------
(***************************************************************************)
(* Who may run a command: handler.OnMessageCreate and OnInteractionCreate  *)
(* ask policy.CanExecute, one look-up after the other, while bot owners    *)
(* and moderators block, disable and blacklist; and the bot leaves a guild *)
(* that is blocked.                                                        *)
(*                                                                         *)
(* One guild, and one member of it who calls one command, by its name or   *)
(* by an alias that can be disabled on its own.  The lists of the guild    *)
(* (GuildConfig) come from ConfigCache, everything else from the tables.   *)
(* A mutation of policy.Module that looks before it writes does both under *)
(* mutationMu, and is one step.                                            *)
(***************************************************************************)
EXTENDS GuildConfig

CONSTANT Caller   \* of Items: the member, in each of the lists

VARIABLES
  barred,    \* the global blacklist and disabled_commands
  present,   \* the bot is a member of the guild
  since,     \* ghost: goroutine -> what was in force ever since it began
  misled,    \* ghost: goroutines that got the lists from a raced cache entry
  unheard    \* ghost: a GuildLeave, or the look-up before it, has failed

gateVars == <<vars, barred, present, since, misled, unheard>>

Bars == {"guild", "user", "canonical", "invoked"}

GateInit ==
  /\ Init
  /\ barred = {} /\ present = TRUE
  /\ since = [j \in Jobs |-> {}] /\ misled = {} /\ unheard = FALSE

Gate == UNCHANGED <<barred, present, unheard>>
Elsewhere == UNCHANGED <<configVars, commands>>

\* GuildConfig's commands, and the two look-ups of the configuration below.
Config(j) == (Asks(j) \/ Works(j)) /\ Gate

(***************************************************************************)
(* The calls.  edit: by which name.                                        *)
(***************************************************************************)

\* OnMessageCreate reads the configuration for the prefix.  Without it nothing is run.
OnMessageCreate(j) ==
  /\ present
  /\ \E name \in {"canonical", "invoked"} :
       Start(j, [Blank EXCEPT !.step = "get", !.then = "blocked", !.edit = name])
  /\ UNCHANGED <<configVars, errors>> /\ Gate

OnInteractionCreate(j) ==
  /\ present
  /\ Start(j, [Blank EXCEPT !.step = "guild", !.edit = "canonical"])
  /\ UNCHANGED <<configVars, errors>> /\ Gate

\* IsGuildBlocked, of a message: an error is left to CanExecute.
IsGuildBlocked(j) ==
  /\ At(j, "blocked")
  /\ \/ "guild" \in barred /\ Goes(j, "leave") /\ UNCHANGED errors
     \/ "guild" \notin barred /\ Goes(j, "guild") /\ UNCHANGED errors
     \/ Fails /\ Goes(j, "guild")
  /\ Elsewhere /\ Gate

\* Mutant: what cannot be looked up does not deny.
LookedUpOpenly(j, bar, next) ==
  /\ At(j, bar)
  /\ \/ bar \in barred /\ Goes(j, "done") /\ UNCHANGED errors
     \/ bar \notin barred /\ jobs' = [jobs EXCEPT ![j] = next] /\ UNCHANGED errors
     \/ Fails /\ jobs' = [jobs EXCEPT ![j] = next]

\* IsGlobalBlacklisted, IsCommandDisabled: an error denies.
LookedUp(j, bar, next) ==
  /\ At(j, bar)
  /\ \/ bar \in barred /\ Goes(j, "done") /\ UNCHANGED errors
     \/ bar \notin barred /\ jobs' = [jobs EXCEPT ![j] = next] /\ UNCHANGED errors
     \/ Fails /\ Goes(j, "done")

\* CanExecute; the lists are in between.
CanExecute(j) ==
  /\ \/ LookedUp(j, "guild", [jobs[j] EXCEPT !.step = "user"])
     \/ LookedUp(j, "user", [jobs[j] EXCEPT !.step = "canonical"])
     \/ LookedUp(j, "canonical", [jobs[j] EXCEPT !.step = "get", !.then = "lists"])
     \/ LookedUp(j, "invoked", [jobs[j] EXCEPT !.step = "run"])
  /\ Elsewhere /\ Gate

\* GetGuildRestrictions: the channel, the user, the roles.
GetGuildRestrictions(j) ==
  /\ At(j, "lists")
  /\ jobs' = [jobs EXCEPT ![j] =
       IF \E l \in GuardedLists : Caller \in @.seen[l] THEN Idle
       ELSE [@ EXCEPT !.step = IF jobs[j].edit = "invoked" THEN "invoked" ELSE "run",
                      !.seen = Nothing]]
  /\ overlapped' = overlapped \ {j}
  /\ UNCHANGED <<row, stored, cache, mutationMu, setupLock, raced, promised, commands, errors>>
  /\ Gate

Run(j) == At(j, "run") /\ Goes(j, "done") /\ Elsewhere /\ UNCHANGED errors /\ Gate

(***************************************************************************)
(* The bars.                                                               *)
(***************************************************************************)

\* AddGlobalRestriction; a guild is left once it is blocked.
Block(j, bar) ==
  /\ mutationMu = Idle /\ bar \notin barred /\ barred' = barred \cup {bar}
  /\ Start(j, [Blank EXCEPT !.step = IF bar = "guild" THEN "leave" ELSE "reply"])
  /\ UNCHANGED <<configVars, errors, present, unheard>>

\* RemoveGlobalRestriction, of one that is there.
Lift(j, bar) ==
  /\ mutationMu = Idle /\ bar \in barred /\ barred' = barred \ {bar}
  /\ Start(j, [Blank EXCEPT !.step = "reply"])
  /\ UNCHANGED <<configVars, errors, present, unheard>>

\* For the guild or everywhere, whether it was so before or not.
DisableCommand(j, name) ==
  /\ mutationMu = Idle /\ barred' = barred \cup {name}
  /\ Start(j, [Blank EXCEPT !.step = "reply"])
  /\ UNCHANGED <<configVars, errors, present, unheard>>

EnableCommand(j, name) ==
  /\ mutationMu = Idle /\ barred' = barred \ {name}
  /\ Start(j, [Blank EXCEPT !.step = "reply"])
  /\ UNCHANGED <<configVars, errors, present, unheard>>

Reply(j) == At(j, "reply") /\ Goes(j, "done") /\ Elsewhere /\ UNCHANGED errors /\ Gate

\* GuildLeave, whose error nobody looks at.
GuildLeave(j) ==
  /\ At(j, "leave") /\ Goes(j, "done") /\ Elsewhere /\ UNCHANGED barred
  /\ \/ present' = FALSE /\ UNCHANGED <<errors, unheard>>
     \/ Fails /\ unheard' = TRUE /\ UNCHANGED present

\* The bot is invited: GuildCreate.
OnGuildCreate(j) ==
  /\ ~present /\ present' = TRUE
  /\ Start(j, [Blank EXCEPT !.step = "admit"])
  /\ UNCHANGED <<configVars, errors, barred, unheard>>

\* Mutant: an invitation is not looked at.
AdmitAnybody(j) ==
  /\ At(j, "admit") /\ Elsewhere /\ Goes(j, "done") /\ UNCHANGED errors /\ Gate

Admit(j) ==
  /\ At(j, "admit") /\ Elsewhere /\ UNCHANGED <<barred, present>>
  /\ \/ /\ Goes(j, IF "guild" \in barred THEN "leave" ELSE "done")
        /\ UNCHANGED <<errors, unheard>>
     \/ Fails /\ Goes(j, "done") /\ unheard' = TRUE

OnGuildDelete(j) == ~present /\ LeaveGuild(j) /\ Gate

Steps(j) ==
  \/ Config(j)
  \/ OnMessageCreate(j) \/ OnInteractionCreate(j) \/ IsGuildBlocked(j) \/ CanExecute(j)
  \/ GetGuildRestrictions(j) \/ Run(j)
  \/ \E bar \in {"guild", "user"} : Block(j, bar) \/ Lift(j, bar)
  \/ \E name \in {"canonical", "invoked"} : DisableCommand(j, name) \/ EnableCommand(j, name)
  \/ Reply(j)
  \/ GuildLeave(j) \/ OnGuildCreate(j) \/ Admit(j) \/ OnGuildDelete(j)

\* What denies a call: the bars and, once the command that wrote it has returned, a list.
InForce ==
  barred \cup
  (IF (\E l \in GuardedLists : Caller \in row[l]) /\ ~\E j \in Jobs : At(j, "invalidate")
   THEN {"listed"} ELSE {})

Watch ==
  /\ since' = [j \in Jobs |-> IF jobs'[j] = Idle THEN {}
                              ELSE IF jobs[j] = Idle THEN InForce \cap InForce'
                              ELSE since[j] \cap InForce']
  /\ misled' = {j \in Jobs : /\ jobs'[j] # Idle
                             /\ \/ j \in misled
                                \/ Hit(j) /\ jobs[j].then = "lists" /\ raced}

GateNext == (Expire /\ Gate /\ Watch) \/ \E j \in Jobs : Steps(j) /\ Watch

GateSpec == GateInit /\ [][GateNext]_gateVars

(***************************************************************************)
(* Properties.                                                             *)
(***************************************************************************)

GateTypeOK ==
  /\ TypeOK
  /\ barred \subseteq Bars /\ present \in BOOLEAN /\ unheard \in BOOLEAN
  /\ misled \subseteq Jobs

\* Nobody runs a command against a bar or a list that was in force all the time the call was
\* looked at, whatever failed: only a configuration that was cached after it had been
\* overwritten lets a blacklisted member in.
DeniedStayOut ==
  \A j \in Jobs : At(j, "run") =>
    since[j] \cap {"guild", "user", "canonical", jobs[j].edit, "listed"}
      \subseteq (IF j \in misled THEN {"listed"} ELSE {})

\* The bot does not stay in a blocked guild, whether it was invited before or after, or in
\* between, unless Discord or the database failed it.
BlockedGuildIsLeft ==
  present /\ "guild" \in barred =>
    unheard \/ \E j \in Jobs : At(j, "leave") \/ At(j, "admit")
=============================================================================
