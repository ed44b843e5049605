----------------------------- MODULE Cooldowns ------------------------------
(***************************************************************************)
(* The cooldown of one command for one user: the CooldownManager of        *)
(* bot/ratelimit.go, and handler.OnMessageCreate, which takes the cooldown *)
(* before it runs the command and gives it back when the command fails.    *)
(* Its shard's lock makes every call atomic; a command may run for longer  *)
(* than its cooldown.  Time is counted in seconds.                         *)
(***************************************************************************)
EXTENDS Naturals

CONSTANTS
  Cooldown,
  Runners,         \* goroutines of OnMessageCreate
  Idle, Never,
  MaxTime          \* bound: seconds

VARIABLES
  now,
  entry,           \* entries[key]: when the cooldown ends, or Never
  runs,            \* runner -> when the command it runs began
  latest,          \* ghost: who took the cooldown last, and when, unless that command failed
  wiped,           \* ghost: a command that failed gave back a later command's cooldown
  repeated         \* ghost: a command began within the cooldown of another

vars == <<now, entry, runs, latest, wiped, repeated>>

TypeOK ==
  /\ now \in 0..MaxTime
  /\ entry = Never \/ entry \in 0..(MaxTime + Cooldown)
  /\ runs \in [Runners -> {Idle} \cup (0..MaxTime)]
  /\ wiped \in BOOLEAN /\ repeated \in BOOLEAN
  /\ latest = Never \/ (latest.by \in Runners /\ latest.at <= now)

Init ==
  /\ now = 0 /\ entry = Never /\ runs = [r \in Runners |-> Idle]
  /\ latest = Never /\ wiped = FALSE /\ repeated = FALSE

Tick ==
  /\ now < MaxTime /\ now' = now + 1
  /\ UNCHANGED <<entry, runs, latest, wiped, repeated>>

Begins(r) ==
  /\ runs[r] = Idle /\ runs' = [runs EXCEPT ![r] = now]
  /\ entry' = now + Cooldown /\ latest' = [by |-> r, at |-> now]
  /\ repeated' = (repeated \/ (latest # Never /\ now < latest.at + Cooldown))
  /\ UNCHANGED <<now, wiped>>

\* Mutant: an entry is taken to have run out a second early.
ExecuteEarly(r) == (entry # Never => entry <= now + 1) /\ Begins(r)

\* The cooldown begins with the command, whether or not the command turns out to be allowed.
Execute(r) == (entry # Never => entry <= now) /\ Begins(r)

Succeed(r) ==
  /\ runs[r] # Idle /\ runs' = [runs EXCEPT ![r] = Idle]
  /\ UNCHANGED <<now, entry, latest, wiped, repeated>>

\* An error or a panic: the user may try again at once.  What is given back is whatever
\* cooldown there is.
Fail(r) ==
  /\ runs[r] # Idle /\ runs' = [runs EXCEPT ![r] = Idle]
  /\ entry' = Never
  /\ LET own == latest = [by |-> r, at |-> runs[r]] IN
     /\ latest' = IF own THEN Never ELSE latest
     /\ wiped' = (wiped \/ (~own /\ entry # Never /\ entry > now))
  /\ UNCHANGED <<now, repeated>>

\* runCleanup.
CleanCooldowns ==
  /\ entry # Never /\ now > entry /\ entry' = Never
  /\ UNCHANGED <<now, runs, latest, wiped, repeated>>

Next ==
  \/ Tick \/ CleanCooldowns
  \/ \E r \in Runners : Execute(r) \/ Succeed(r) \/ Fail(r)

Spec == Init /\ [][Next]_vars

\* A command does not begin within the cooldown of another that did not fail, unless a third
\* one, which had begun before that and failed late, gave the other's cooldown back.
CooldownHolds == repeated => wiped
=============================================================================
