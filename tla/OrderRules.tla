----------------------------- MODULE OrderRules -----------------------------
(***************************************************************************)
(* The constant rules of an order's life: the status sets and transition   *)
(* maps of api/app/orders/engine.py, and the timestamp columns a status    *)
(* leaves behind.  Nothing here has state.  An operator whose comment      *)
(* starts with "Faulty variant" is a bug put in on purpose, to see that a  *)
(* property notices it; the specification never uses it.                   *)
(***************************************************************************)

\* "absent" stands for a row that has not been inserted yet.
Status == {"absent", "draft", "quoted", "conflict", "confirmed", "preparing",
           "ready_for_pickup", "handed_off", "ready_for_dispatch",
           "out_for_delivery", "delivered", "cancelled"}

\* The statuses that occupy a place in their slot (FINALIZED_STATUSES).
Finalized == {"confirmed", "preparing", "ready_for_pickup", "handed_off",
              "ready_for_dispatch", "out_for_delivery", "delivered"}

\* The statuses validate_order_mutable lets a customer edit.
Mutable == {"draft", "quoted", "conflict"}

PickupCodeEligible == {"confirmed", "preparing", "ready_for_pickup"}

\* The statuses assert_cancellation_allowed refuses whatever the time is.
NotCancellable == {"cancelled", "handed_off", "out_for_delivery", "delivered"}

Service == {"pickup", "delivery"}

-----------------------------------------------------------------------------

\* PICKUP_FULFILLMENT_TRANSITIONS, as (status, target) pairs.
PickupTransitions ==
    {<<"confirmed", "preparing">>, <<"confirmed", "cancelled">>,
     <<"preparing", "ready_for_pickup">>, <<"preparing", "cancelled">>,
     <<"ready_for_pickup", "cancelled">>}

\* DELIVERY_FULFILLMENT_TRANSITIONS.
DeliveryTransitions ==
    {<<"confirmed", "preparing">>, <<"confirmed", "cancelled">>,
     <<"preparing", "ready_for_dispatch">>, <<"preparing", "cancelled">>,
     <<"ready_for_dispatch", "out_for_delivery">>, <<"ready_for_dispatch", "cancelled">>,
     <<"out_for_delivery", "delivered">>}

\* The targets staff may name for an order of this type in this status
\* (assert_transition_allowed).
FulfillmentTargets(type, status) ==
    {target \in Status :
        <<status, target>> \in IF type = "pickup" THEN PickupTransitions
                                                 ELSE DeliveryTransitions}

\* The nullable timestamp columns of the orders table, without the suffix _at.
Stamp == {"confirmed", "preparing", "ready", "dispatched", "handed_off", "delivered"}

\* Faulty variant of StampFor: ready_at is forgotten on the pickup path.
StampForForgetsReady(target) ==
    {stamp \in Stamp :
        <<target, stamp>> \in {<<"preparing", "preparing">>,
                              <<"ready_for_dispatch", "ready">>,
                              <<"out_for_delivery", "dispatched">>,
                              <<"delivered", "delivered">>}}

\* The column apply_fulfillment_transition fills when it sets a status.
StampFor(target) ==
    {stamp \in Stamp :
        <<target, stamp>> \in {<<"preparing", "preparing">>,
                              <<"ready_for_pickup", "ready">>,
                              <<"ready_for_dispatch", "ready">>,
                              <<"out_for_delivery", "dispatched">>,
                              <<"delivered", "delivered">>}}

-----------------------------------------------------------------------------

\* The timestamps an order has behind it when it stands in a status: each
\* step of the paths in api-spec.md 12.2 leaves its column filled.
Timeline(status) ==
    {stamp \in Stamp :
        \/ stamp = "confirmed"  /\ status \in Finalized
        \/ stamp = "preparing"  /\ status \in Finalized \ {"confirmed"}
        \/ stamp = "ready"      /\ status \in Finalized \ {"confirmed", "preparing"}
        \/ stamp = "dispatched" /\ status \in {"out_for_delivery", "delivered"}
        \/ stamp = status       /\ status \in {"handed_off", "delivered"}}

\* The documented life cycle: what a status may change to.
Lifecycle(type, status) ==
    {target \in Status :
        \/ status = "absent" /\ target = "draft"
        \/ status \in Mutable /\ target \in Mutable \cup {"confirmed", "cancelled"}
        \/ status = "ready_for_pickup" /\ type = "pickup" /\ target = "handed_off"
        \/ target \in FulfillmentTargets(type, status)}
=============================================================================
