---------------------------- MODULE SettingsView ----------------------------
(***************************************************************************)
(* What a reader of a guild's radio settings may rely on, whatever loads,  *)
(* updates and clean-ups are under way.  A value is the number of the      *)
(* write that stored it: the store only moves forward, and what the        *)
(* session shows of a field catches up with the store and never goes back. *)
(***************************************************************************)
EXTENDS Naturals

CONSTANT Fields            \* the settings of a guild

VARIABLES store,           \* field -> the write it holds in the database
          view             \* field -> the write the session shows, 0 a default

vars == <<store, view>>

Init == /\ store = [f \in Fields |-> 1]
        /\ view  = [f \in Fields |-> 0]

\* Some fields are written.
Put == /\ store' \in [Fields -> Nat]
       /\ \A f \in Fields : store[f] <= store'[f]
       /\ UNCHANGED view

\* The session shows of some fields a later write than before.
Show == /\ view' \in [Fields -> Nat]
        /\ \A f \in Fields : view[f] <= view'[f] /\ view'[f] <= store[f]
        /\ UNCHANGED store

\* A write that is shown in the step that stores it.
PutAndShow == /\ store' \in [Fields -> Nat]
              /\ view' \in [Fields -> Nat]
              /\ \A f \in Fields : /\ store[f] <= store'[f]
                                   /\ view[f] <= view'[f]
                                   /\ view'[f] <= store'[f]

Next == Put \/ Show \/ PutAndShow

Spec == Init /\ [][Next]_vars
=============================================================================
