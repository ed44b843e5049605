---------------------------- MODULE RateLimiter -----------------------------
(***************************************************************************)
(* How often one user may do something in one guild (bot/ratelimit.go,     *)
(* RateLimiter), which every command and every interaction asks, and the   *)
(* goroutine that forgets users.  The state of one key; its shard's lock   *)
(* makes every call atomic.  Time is counted in seconds.                   *)
(***************************************************************************)
EXTENDS Naturals, Sequences

CONSTANTS
  Burst, Window,   \* 3 in 3 seconds
  Penalties,       \* cooldownDuration, for each number of violations
  MaxPenalty,      \* 30 seconds
  Forgiven,        \* violations are forgotten after 15 seconds
  IdleAfter,       \* and the user after 5 minutes
  Never,
  MaxTime,         \* bound: seconds
  MaxCalls         \* bound: calls in one second

VARIABLES
  now,
  user,            \* users[key], or Never
  calls,
  admitted,        \* ghost: when CheckLimit let the user pass, in the window before it last did
  announced,       \* ghost: the end of the penalty the user was told of
  early            \* ghost: a call was let pass before that

vars == <<now, user, calls, admitted, announced, early>>

NewUser == [timestamps |-> <<now>>, violations |-> 0, cooldownUntil |-> 0, lastViolation |-> 0,
            lastActivity |-> now, warnedUntil |-> 0, spamStrikes |-> 0]

TypeOK ==
  /\ now \in 0..MaxTime /\ calls \in 0..MaxCalls /\ early \in BOOLEAN
  /\ user = Never \/ (user.cooldownUntil \in Nat /\ Len(user.timestamps) <= Burst)

Init ==
  /\ now = 0 /\ user = Never /\ calls = 0
  /\ admitted = <<>> /\ announced = 0 /\ early = FALSE

\* The timestamps within the window; they ascend, so the oldest are those that go.
Recent(times) ==
  LET gone == CHOOSE k \in 0..Len(times) :
                \A i \in DOMAIN times : i <= k <=> times[i] + Window <= now
  IN SubSeq(times, gone + 1, Len(times))

Tick ==
  /\ now < MaxTime /\ now' = now + 1 /\ calls' = 0
  /\ UNCHANGED <<user, admitted, announced, early>>

(***************************************************************************)
(* CheckLimit.                                                             *)
(***************************************************************************)

Least(a, b) == IF a < b THEN a ELSE b
Penalty(violations) == Penalties[Least(violations, Len(Penalties))]

Admit ==
  /\ admitted' = Append(Recent(admitted), now)
  /\ early' = (early \/ now < announced)
  /\ UNCHANGED announced

Tell(until) == announced' = until /\ UNCHANGED <<admitted, early>>

FirstCall == user = Never /\ user' = NewUser /\ Admit

\* The penalty is still running: it is prolonged, a second more each time, and announced
\* only if the last announcement has run out.
CallInPenalty ==
  /\ user # Never /\ now < user.cooldownUntil
  /\ LET until == Least(user.cooldownUntil + user.spamStrikes + 1, now + MaxPenalty)
         notify == now > user.warnedUntil IN
     /\ user' = [user EXCEPT !.lastActivity = now, !.spamStrikes = @ + 1,
                             !.cooldownUntil = until, !.warnedUntil = IF notify THEN until ELSE @]
     /\ IF notify THEN Tell(until) ELSE UNCHANGED <<announced, admitted, early>>

\* Mutant: one more than a burst.
TooManyByOne(times) == Len(times) > Burst + 1

TooMany(times) == Len(times) > Burst

Calls ==
  /\ user # Never /\ now >= user.cooldownUntil
  /\ LET forgiven == user.violations > 0 /\ now - user.lastViolation > Forgiven
         violations == IF forgiven THEN 0 ELSE user.violations
         strikes == IF forgiven THEN 0 ELSE user.spamStrikes
         times == Append(Recent(user.timestamps), now)
         until == now + Penalty(violations + 1) IN
     IF TooMany(times)
     THEN /\ user' = [timestamps |-> <<>>, violations |-> violations + 1, cooldownUntil |-> until,
                      lastViolation |-> now, lastActivity |-> now, warnedUntil |-> until,
                      spamStrikes |-> 0]
          /\ Tell(until)
     ELSE /\ user' = [user EXCEPT !.timestamps = times, !.violations = violations,
                                  !.spamStrikes = strikes, !.lastActivity = now]
          /\ Admit

CheckLimit ==
  /\ calls < MaxCalls /\ calls' = calls + 1
  /\ FirstCall \/ CallInPenalty \/ Calls
  /\ UNCHANGED <<now>>

\* runCleanup of the limiter.
CleanUsers ==
  /\ user # Never /\ now - user.lastActivity > IdleAfter /\ user' = Never
  /\ UNCHANGED <<now, calls, admitted, announced, early>>

Next == Tick \/ CheckLimit \/ CleanUsers

Spec == Init /\ [][Next]_vars

\* Nobody gets past a penalty he was told of, whatever the cleanup deletes and however the
\* penalty is prolonged; and nobody does more than two bursts in one window, one before a
\* violation and one after its penalty, which may be shorter than the window.
LimitHolds == ~early /\ Len(admitted) <= 2 * Burst
=============================================================================
