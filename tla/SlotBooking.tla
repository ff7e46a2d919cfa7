---------------------------- MODULE SlotBooking -----------------------------
(***************************************************************************)
(* What the ordering API promises about slots, with no statuses, requests  *)
(* or rows: a booking takes a free place of its slot, keeps that place     *)
(* until it is given up for good, and never moves to another slot.  Staff  *)
(* may change a slot's limit at any time; a lower limit evicts nobody.     *)
(***************************************************************************)
EXTENDS Integers, FiniteSets

CONSTANTS Orders, Slots, Limits, DefaultLimit

VARIABLES
    booked,   \* [Slots -> SUBSET Orders]: who holds a place in a slot
    gone,     \* the orders that gave their place up
    limit     \* [Slots -> Nat]

vars == <<booked, gone, limit>>

Init ==
    /\ booked = [s \in Slots |-> {}]
    /\ gone = {}
    /\ limit = [s \in Slots |-> DefaultLimit]

Book(o, s) ==
    /\ o \notin gone
    /\ \A t \in Slots : o \notin booked[t]
    /\ Cardinality(booked[s]) < limit[s]
    /\ booked' = [booked EXCEPT ![s] = @ \cup {o}]
    /\ UNCHANGED <<gone, limit>>

\* An order may also be cancelled before it ever held a place.
GiveUp(o) ==
    /\ booked' = [s \in Slots |-> booked[s] \ {o}]
    /\ gone' = gone \cup {o}
    /\ UNCHANGED limit

SetLimit(s, n) ==
    /\ limit' = [limit EXCEPT ![s] = n]
    /\ UNCHANGED <<booked, gone>>

Next ==
    \/ \E o \in Orders, s \in Slots : Book(o, s)
    \/ \E o \in Orders : GiveUp(o)
    \/ \E s \in Slots, n \in Limits \cup {DefaultLimit} : SetLimit(s, n)

Spec == Init /\ [][Next]_vars
=============================================================================
