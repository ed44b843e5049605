----------------------------- MODULE KeyedMutex -----------------------------
(***************************************************************************)
(* What sharedRoleLocks promises the role manager: one mutex per member,   *)
(* that keeps no member it is not asked about.                             *)
(***************************************************************************)
CONSTANTS Threads, Members

VARIABLES
  wants,    \* member -> the threads that wait for its mutex
  inside    \* member -> the threads that hold it, at most one

vars == <<wants, inside>>

Init == wants = [m \in Members |-> {}] /\ inside = [m \in Members |-> {}]

Busy(t) == \E m \in Members : t \in wants[m] \cup inside[m]

Request(t, m) ==
  /\ ~Busy(t)
  /\ wants' = [wants EXCEPT ![m] = @ \cup {t}] /\ UNCHANGED inside

Enter(t, m) ==
  /\ t \in wants[m] /\ inside[m] = {}
  /\ wants' = [wants EXCEPT ![m] = @ \ {t}]
  /\ inside' = [inside EXCEPT ![m] = {t}]

Leave(t, m) ==
  /\ t \in inside[m]
  /\ inside' = [inside EXCEPT ![m] = {}] /\ UNCHANGED wants

Next == \E t \in Threads, m \in Members : Request(t, m) \/ Enter(t, m) \/ Leave(t, m)

Spec == Init /\ [][Next]_vars
=============================================================================
