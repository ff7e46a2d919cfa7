--------------------------- MODULE OrderingProofs ---------------------------
(***************************************************************************)
(* Theorems about Ordering for every set of orders, slots, addresses,      *)
(* capacities and workers: what holds however requests overlap, what holds *)
(* while no two are about one order, how far a slot can be overbooked, and *)
(* that one worker implements SlotBooking.                                 *)
(***************************************************************************)
EXTENDS Ordering, FiniteSetTheorems, TLAPS

\* The row after an UPDATE is a row: no Keep is left in a column.
LEMMA FlushType ==
    ASSUME NEW row \in Row, NEW update \in Update
    PROVE  Flush(row, update) \in Row
BY NullsAssumption DEF Flush, Assign, Row, Update

\* IfChanged picks a value of the column's UPDATE domain.
LEMMA IfChangedType ==
    ASSUME NEW S, NEW loaded, NEW value \in S
    PROVE  IfChanged(loaded, value) \in S \cup {Keep}
BY DEF IfChanged

LEMMA NoOrderType == NoOrder \in Row
BY SlotsAssumption DEF NoOrder, Row, Status, Service, CodeState

LEMMA NoUpdateType == NoUpdate \in Update
BY DEF NoUpdate, Update

\* StampFor names timestamp columns.
LEMMA StampForType == ASSUME NEW target PROVE StampFor(target) \subseteq Stamp
BY DEF StampFor, Stamp

\* A target staff may name is a status.
LEMMA TargetType ==
    ASSUME NEW type, NEW status PROVE FulfillmentTargets(type, status) \subseteq Status
BY DEF FulfillmentTargets, Status

-----------------------------------------------------------------------------
(* Type correctness.                                                       *)

\* Preparing a well-formed UPDATE keeps the types.
LEMMA PrepareType ==
    ASSUME TypeOK, NEW w \in Workers, NEW o \in Orders, NEW update \in Update,
           Prepare(w, o, update)
    PROVE  TypeOK'
<1>1. [phase |-> "writing", order |-> o, update |-> update] \in Request
  BY DEF Request, Writing
<1> QED BY <1>1 DEF TypeOK, Prepare

\* So does deciding on one.
LEMMA DecideType ==
    ASSUME TypeOK, NEW w \in Workers, NEW op, NEW update \in Update,
           Decide(w, op, update)
    PROVE  TypeOK'
<1>1. request[w] \in Reading
  BY DEF TypeOK, Decide, Request, Reading, Writing, Idle
<1>2. request[w].order \in Orders
  BY <1>1 DEF Reading
<1>3. [phase |-> "writing", order |-> request[w].order, update |-> update] \in Request
  BY <1>2 DEF Request, Writing
<1> QED BY <1>3 DEF TypeOK, Decide

\* What the handlers ask the database to change is an UPDATE of its columns.
LEMMA UpdatesType ==
    ASSUME NEW row \in Row
    PROVE  /\ \A type \in Service, slot \in Slots, meals \in Meals,
                 address \in Addresses \cup {NoAddress} :
               DraftEdit(row, type, slot, meals, address) \in Update
           /\ ConflictState(row) \in Update
           /\ Quote(row) \in Update
           /\ Confirmation(row) \in Update
           /\ Cancellation(row) \in Update
           /\ IssuedCode(row) \in Update
           /\ \A target \in Status : Transition(row, target) \in Update
           /\ HandedOff(row) \in Update
<1> USE DEF NoUpdate, Update, IfChanged, Status, CodeState, Stamp
<1>1. ASSUME NEW type \in Service, NEW slot \in Slots, NEW meals \in Meals,
             NEW address \in Addresses \cup {NoAddress}
      PROVE  DraftEdit(row, type, slot, meals, address) \in Update
  BY DEF DraftEdit
<1>2. ConflictState(row) \in Update /\ Quote(row) \in Update
  BY DEF ConflictState, Quote
<1>3. Confirmation(row) \in Update /\ Cancellation(row) \in Update
  BY DEF Confirmation, Cancellation
<1>4. IssuedCode(row) \in Update /\ HandedOff(row) \in Update
  BY DEF IssuedCode, HandedOff
<1>5. \A target \in Status : Transition(row, target) \in Update
  BY StampForType DEF Transition
<1> QED BY <1>1, <1>2, <1>3, <1>4, <1>5

\* A worker that reads has a copy of a row.
LEMMA CopyType ==
    ASSUME TypeOK, NEW w \in Workers, request[w].phase = "reading"
    PROVE  request[w] \in Reading /\ request[w].order \in Orders /\ request[w].row \in Row
BY DEF TypeOK, Request, Reading, Writing, Idle

\* The decisions of a worker that holds a copy.
LEMMA DecisionType ==
    ASSUME TypeOK, NEW w \in Workers,
           \/ UpdateOrderDraft(w)
           \/ \E op \in {"quote", "confirm"} : SlotConflict(w, op)
           \/ QuoteOrder(w)
           \/ ConfirmOrder(w)
    PROVE  TypeOK'
<1>1. CASE UpdateOrderDraft(w)
  <2>1. PICK type \in Services, slot \in Slots, meals \in Meals,
             address \in Addresses \cup {NoAddress} :
           Decide(w, "update", DraftEdit(request[w].row, type, slot, meals, address))
    BY <1>1 DEF UpdateOrderDraft
  <2>2. DraftEdit(request[w].row, type, slot, meals, address) \in Update
    BY <1>1, CopyType, UpdatesType, ServicesAssumption DEF UpdateOrderDraft
  <2> QED BY <2>1, <2>2, DecideType
<1>2. ASSUME NEW op \in {"quote", "confirm"}, SlotConflict(w, op) PROVE TypeOK'
  BY <1>2, CopyType, UpdatesType, DecideType DEF SlotConflict
<1>3. CASE QuoteOrder(w)
  BY <1>3, CopyType, UpdatesType, DecideType DEF QuoteOrder
<1>4. CASE ConfirmOrder(w)
  BY <1>4, CopyType, UpdatesType, DecideType DEF ConfirmOrder
<1> QED BY <1>1, <1>2, <1>3, <1>4

\* The handlers that go straight to their UPDATE.
LEMMA PreparedType ==
    ASSUME TypeOK, NEW w \in Workers, NEW o \in Orders,
           \/ CancelOrder(w, o)
           \/ IssueOrderPickupCode(w, o)
           \/ \E target \in Status : TransitionOrderStatus(w, o, target)
           \/ VerifyPickupCodeAndHandoff(w, o)
    PROVE  TypeOK'
<1>0. orders[o] \in Row
  BY DEF TypeOK
<1>1. CASE CancelOrder(w, o)
  BY <1>0, <1>1, UpdatesType, PrepareType DEF CancelOrder
<1>2. CASE IssueOrderPickupCode(w, o)
  BY <1>0, <1>2, UpdatesType, PrepareType DEF IssueOrderPickupCode
<1>3. ASSUME NEW target \in Status, TransitionOrderStatus(w, o, target) PROVE TypeOK'
  BY <1>0, <1>3, UpdatesType, PrepareType DEF TransitionOrderStatus
<1>4. CASE VerifyPickupCodeAndHandoff(w, o)
  BY <1>0, <1>4, UpdatesType, PrepareType DEF VerifyPickupCodeAndHandoff
<1> QED BY <1>1, <1>2, <1>3, <1>4

\* The handlers that write their rows in one step.
LEMMA DirectType ==
    ASSUME TypeOK, NEW w \in Workers,
           \/ \E o \in Orders : CreateOrderDraft(w, o)
           \/ \E o \in Orders, op \in {"update", "quote", "confirm"} : LoadMutable(w, o, op)
           \/ \E a \in Addresses : \/ CreateAddress(w, a)
                                  \/ DeleteAddress(w, a)
                                  \/ ChangeDeliveryZone(w, a)
           \/ \E s \in Slots, n \in Capacities : UpsertSlotCapacity(w, s, n)
           \/ \E s \in Slots : DeleteSlotCapacity(w, s)
    PROVE  TypeOK'
<1>1. ASSUME NEW o \in Orders, CreateOrderDraft(w, o) PROVE TypeOK'
  <2>1. PICK type \in Services, slot \in Slots, meals \in Meals,
             address \in Addresses \cup {NoAddress} :
           orders' = [orders EXCEPT ![o] = NewDraft(type, slot, meals, address)]
    BY <1>1 DEF CreateOrderDraft
  <2>2. NewDraft(type, slot, meals, address) \in Row
    BY NoOrderType, ServicesAssumption DEF NewDraft, NoOrder, Row, Status
  <2> QED BY <1>1, <2>1, <2>2 DEF TypeOK, CreateOrderDraft
<1>2. ASSUME NEW o \in Orders, NEW op \in {"update", "quote", "confirm"},
             LoadMutable(w, o, op)
      PROVE  TypeOK'
  <2>1. [phase |-> "reading", op |-> op, order |-> o, row |-> orders[o]] \in Request
    BY DEF Request, Reading, TypeOK
  <2> QED BY <1>2, <2>1 DEF TypeOK, LoadMutable
<1>3. ASSUME NEW a \in Addresses, CreateAddress(w, a) PROVE TypeOK'
  BY <1>3 DEF TypeOK, CreateAddress
<1>4. ASSUME NEW a \in Addresses, DeleteAddress(w, a) PROVE TypeOK'
  <2>1. ASSUME NEW o \in Orders PROVE [orders[o] EXCEPT !.address = NoAddress] \in Row
    BY DEF TypeOK, Row
  <2> QED BY <1>4, <2>1 DEF TypeOK, DeleteAddress
<1>5. ASSUME NEW a \in Addresses, ChangeDeliveryZone(w, a) PROVE TypeOK'
  BY <1>5 DEF TypeOK, ChangeDeliveryZone
<1>6. ASSUME NEW s \in Slots, NEW n \in Capacities, UpsertSlotCapacity(w, s, n)
      PROVE  TypeOK'
  BY <1>6 DEF TypeOK, UpsertSlotCapacity
<1>7. ASSUME NEW s \in Slots, DeleteSlotCapacity(w, s) PROVE TypeOK'
  BY <1>7 DEF TypeOK, DeleteSlotCapacity
<1> QED BY <1>1, <1>2, <1>3, <1>4, <1>5, <1>6, <1>7

\* The end of a request.
LEMMA EndType ==
    ASSUME TypeOK, NEW w \in Workers, CommitUpdate(w) \/ AbortRequest(w)
    PROVE  TypeOK'
<1>1. Idle \in Request
  BY DEF Request
<1>2. CASE CommitUpdate(w)
  <2>1. request[w] \in Writing
    BY <1>2 DEF TypeOK, CommitUpdate, Request, Reading, Writing, Idle
  <2>2. request[w].order \in Orders /\ request[w].update \in Update
    BY <2>1 DEF Writing
  <2>3. Flush(orders[request[w].order], request[w].update) \in Row
    BY <2>2, FlushType DEF TypeOK
  <2> QED BY <1>1, <1>2, <2>2, <2>3 DEF TypeOK, CommitUpdate
<1>3. CASE AbortRequest(w)
  BY <1>1, <1>3 DEF TypeOK, AbortRequest
<1> QED BY <1>2, <1>3

LEMMA ClockType == ASSUME TypeOK, Clock PROVE TypeOK'
<1>1. ASSUME NEW o \in Orders, CancellationCutoff(o) PROVE TypeOK'
  BY <1>1 DEF TypeOK, CancellationCutoff
<1>2. ASSUME NEW o \in Orders, PickupCodeExpires(o) PROVE TypeOK'
  <2>1. [orders[o] EXCEPT !.code = "expired"] \in Row
    BY DEF TypeOK, Row, CodeState
  <2> QED BY <1>2, <2>1 DEF TypeOK, PickupCodeExpires
<1> QED BY <1>1, <1>2 DEF Clock

\* Every step keeps the types.
LEMMA TypeStep == ASSUME TypeOK, [Next]_vars PROVE TypeOK'
<1>1. ASSUME NEW w \in Workers, Customer(w) PROVE TypeOK'
  BY <1>1, DecisionType, PreparedType, DirectType DEF Customer
<1>2. ASSUME NEW w \in Workers, Staff(w) PROVE TypeOK'
  BY <1>2, PreparedType, DirectType DEF Staff
<1>3. ASSUME NEW w \in Workers, CommitUpdate(w) \/ AbortRequest(w) PROVE TypeOK'
  BY <1>3, EndType
<1>4. CASE Clock
  BY <1>4, ClockType
<1>5. CASE UNCHANGED vars
  BY <1>5 DEF TypeOK, vars
<1> QED BY <1>1, <1>2, <1>3, <1>4, <1>5 DEF Next

LEMMA TypeInit == Init => TypeOK
BY NoOrderType DEF Init, TypeOK, Request

\* Every column, copy and pending UPDATE always holds a value of its column.
THEOREM TypeCorrect == Spec => []TypeOK
<1>1. TypeOK /\ [Next]_vars => TypeOK'
  BY TypeStep
<1> QED BY <1>1, TypeInit, PTL DEF Spec

-----------------------------------------------------------------------------
(* The timeline of an order, however its requests overlap.                 *)

\* A fulfillment step adds the one timestamp its target needs.
LEMMA TransitionTimeline ==
    ASSUME NEW type, NEW status, NEW target \in FulfillmentTargets(type, status)
    PROVE  /\ Timeline(target) \subseteq Timeline(status) \cup StampFor(target)
           /\ target # "absent"
BY DEF FulfillmentTargets, PickupTransitions, DeliveryTransitions, Timeline, StampFor,
       Finalized, Stamp, Status

\* Before the kitchen has an order, and after it lost it, nothing is owed.
LEMMA EmptyTimeline ==
    ASSUME NEW status \in Mutable \cup {"absent", "cancelled"}
    PROVE  Timeline(status) = {}
BY DEF Timeline, Mutable, Finalized, Stamp

LEMMA ConfirmedTimeline ==
    /\ Timeline("confirmed") = {"confirmed"}
    /\ Timeline("handed_off") \subseteq Timeline("ready_for_pickup") \cup {"handed_off"}
BY DEF Timeline, Finalized, Stamp

\* A worker that starts to write leaves the table alone; its UPDATE is the
\* only new obligation.
LEMMA StartWriteTimeline ==
    ASSUME TimelineInv, TypeOK', NEW w \in Workers, NEW o \in Orders, NEW update,
           request' = [request EXCEPT ![w] =
                         [phase |-> "writing", order |-> o, update |-> update]],
           UNCHANGED orders,
           orders[o].status # "absent",
           update.status # "absent",
           update.status # Keep =>
               Timeline(update.status) \subseteq orders[o].stamps \cup update.stamps
    PROVE  TimelineInv'
<1>1. TimelineComplete'
  BY DEF TimelineInv, TimelineComplete
<1>2. PendingTimeline'
  BY DEF TimelineInv, TypeOK, PendingTimeline
<1>3. InFlightExists'
  BY DEF TimelineInv, TypeOK, InFlightExists, Free, Idle
<1> QED BY <1>1, <1>2, <1>3 DEF TimelineInv

\* The same for the handlers that decide on the row alone.
LEMMA PrepareTimeline ==
    ASSUME TimelineInv, TypeOK', NEW w \in Workers, NEW o \in Orders, NEW update,
           Prepare(w, o, update),
           orders[o].status # "absent",
           update.status # "absent",
           update.status # Keep =>
               Timeline(update.status) \subseteq orders[o].stamps \cup update.stamps
    PROVE  TimelineInv'
BY StartWriteTimeline DEF Prepare

\* The decisions of a worker that holds a copy.
LEMMA DecideTimeline ==
    ASSUME TimelineInv, TypeOK', NEW w \in Workers, NEW op, NEW update,
           Decide(w, op, update),
           \/ update.status \in Mutable \cup {Keep}
           \/ update.status = "confirmed" /\ update.stamps = {"confirmed"}
    PROVE  TimelineInv'
<1>1. request[w] \in Reading
  BY DEF TimelineInv, TypeOK, Decide, Request, Reading, Writing, Idle
<1>2. request[w].order \in Orders /\ ~Free(w)
  BY <1>1 DEF Reading, Free, Idle
<1>3. orders[request[w].order].status # "absent"
  BY <1>2 DEF TimelineInv, InFlightExists
<1>4. update.status # "absent"
  BY NullsAssumption DEF Mutable, Status
<1>5. update.status # Keep =>
        Timeline(update.status) \subseteq orders[request[w].order].stamps \cup update.stamps
  BY EmptyTimeline, ConfirmedTimeline
<1> QED BY <1>2, <1>3, <1>4, <1>5, StartWriteTimeline DEF Decide

LEMMA DecisionTimeline ==
    ASSUME TimelineInv, TypeOK', NEW w \in Workers,
           \/ UpdateOrderDraft(w)
           \/ \E op \in {"quote", "confirm"} : SlotConflict(w, op)
           \/ QuoteOrder(w)
           \/ ConfirmOrder(w)
    PROVE  TimelineInv'
<1>1. CASE UpdateOrderDraft(w)
  <2>1. PICK type \in Services, slot \in Slots, meals \in Meals,
             address \in Addresses \cup {NoAddress} :
           Decide(w, "update", DraftEdit(request[w].row, type, slot, meals, address))
    BY <1>1 DEF UpdateOrderDraft
  <2>2. DraftEdit(request[w].row, type, slot, meals, address).status \in Mutable \cup {Keep}
    BY DEF DraftEdit, NoUpdate, IfChanged, Mutable
  <2> QED BY <2>1, <2>2, DecideTimeline
<1>2. ASSUME NEW op \in {"quote", "confirm"}, SlotConflict(w, op) PROVE TimelineInv'
  <2>1. ConflictState(request[w].row).status \in Mutable \cup {Keep}
    BY DEF ConflictState, NoUpdate, IfChanged, Mutable
  <2> QED BY <1>2, <2>1, DecideTimeline DEF SlotConflict
<1>3. CASE QuoteOrder(w)
  <2>1. Quote(request[w].row).status \in Mutable \cup {Keep}
    BY DEF Quote, NoUpdate, IfChanged, Mutable
  <2> QED BY <1>3, <2>1, DecideTimeline DEF QuoteOrder
<1>4. CASE ConfirmOrder(w)
  <2> DEFINE u == Confirmation(request[w].row)
  <2>1. u.status \in {"confirmed", Keep} /\ u.stamps = {"confirmed"}
    BY DEF Confirmation, NoUpdate, IfChanged
  <2> QED BY <1>4, <2>1, DecideTimeline DEF ConfirmOrder
<1> QED BY <1>1, <1>2, <1>3, <1>4

\* The handlers that decide on the row alone.
LEMMA PreparedTimeline ==
    ASSUME TimelineInv, TypeOK', NEW w \in Workers, NEW o \in Orders,
           \/ CancelOrder(w, o)
           \/ IssueOrderPickupCode(w, o)
           \/ \E target \in Status : TransitionOrderStatus(w, o, target)
           \/ VerifyPickupCodeAndHandoff(w, o)
    PROVE  TimelineInv'
<1>0. Timeline(orders[o].status) \subseteq orders[o].stamps
  BY DEF TimelineInv, TimelineComplete
<1>1. CASE CancelOrder(w, o)
  <2>1. Cancellation(orders[o]).status = "cancelled"
    BY DEF Cancellation, NoUpdate
  <2> QED BY <1>1, <2>1, EmptyTimeline, PrepareTimeline DEF CancelOrder
<1>2. CASE IssueOrderPickupCode(w, o)
  <2>1. IssuedCode(orders[o]).status = Keep /\ Keep # "absent"
    BY NullsAssumption DEF IssuedCode, NoUpdate, Status
  <2>2. orders[o].status # "absent"
    BY <1>2 DEF IssueOrderPickupCode, PickupCodeEligible
  <2> QED BY <1>2, <2>1, <2>2, PrepareTimeline DEF IssueOrderPickupCode
<1>3. ASSUME NEW target \in Status, TransitionOrderStatus(w, o, target) PROVE TimelineInv'
  <2>1. /\ Transition(orders[o], target).status = target
        /\ Transition(orders[o], target).stamps = StampFor(target)
    BY DEF Transition, NoUpdate
  <2>2. /\ Timeline(target) \subseteq orders[o].stamps \cup StampFor(target)
        /\ target # "absent"
    BY <1>0, <1>3, TransitionTimeline DEF TransitionOrderStatus
  <2>3. orders[o].status # "absent"
    BY <1>3 DEF TransitionOrderStatus, FulfillmentTargets, PickupTransitions,
                DeliveryTransitions
  <2> QED BY <1>3, <2>1, <2>2, <2>3, PrepareTimeline DEF TransitionOrderStatus
<1>4. CASE VerifyPickupCodeAndHandoff(w, o)
  <2>1. HandedOff(orders[o]).status = "handed_off" /\ HandedOff(orders[o]).stamps = {"handed_off"}
    BY DEF HandedOff, NoUpdate
  <2> QED BY <1>0, <1>4, <2>1, ConfirmedTimeline, PrepareTimeline
          DEF VerifyPickupCodeAndHandoff
<1> QED BY <1>1, <1>2, <1>3, <1>4

\* A step that keeps every status and timestamp, and starts no UPDATE.
LEMMA QuietTimeline ==
    ASSUME TimelineInv, TypeOK',
           \A o \in Orders : /\ orders'[o].status = orders[o].status
                            /\ orders'[o].stamps = orders[o].stamps,
           \A w \in Workers :
               \/ request'[w] = request[w]
               \/ request'[w] = Idle
               \/ /\ request'[w] \in Reading
                  /\ orders[request'[w].order].status # "absent"
    PROVE  TimelineInv'
<1>0. \A w \in Workers : request[w] \in Request /\ request'[w] \in Request
  BY DEF TimelineInv, TypeOK
<1>1. TimelineComplete'
  BY DEF TimelineInv, TimelineComplete
<1>2. \A w \in Workers : request'[w].phase = "writing" =>
          request'[w] = request[w] /\ request[w].order \in Orders
  BY <1>0 DEF Idle, Reading, Writing, Request
<1>3. PendingTimeline'
  BY <1>2 DEF TimelineInv, PendingTimeline
<1>4. InFlightExists'
  BY <1>0, <1>2 DEF TimelineInv, InFlightExists, Free, Idle, Reading, Writing, Request
<1> QED BY <1>1, <1>3, <1>4 DEF TimelineInv

LEMMA DirectTimeline ==
    ASSUME TimelineInv, TypeOK', NEW w \in Workers,
           \/ \E o \in Orders, op \in {"update", "quote", "confirm"} : LoadMutable(w, o, op)
           \/ \E a \in Addresses : \/ CreateAddress(w, a)
                                  \/ DeleteAddress(w, a)
                                  \/ ChangeDeliveryZone(w, a)
           \/ \E s \in Slots, n \in Capacities : UpsertSlotCapacity(w, s, n)
           \/ \E s \in Slots : DeleteSlotCapacity(w, s)
           \/ AbortRequest(w)
    PROVE  TimelineInv'
<1> USE DEF TimelineInv, TypeOK
<1>1. ASSUME NEW o \in Orders, NEW op \in {"update", "quote", "confirm"},
             LoadMutable(w, o, op)
      PROVE  TimelineInv'
  <2>1. /\ request'[w] = [phase |-> "reading", op |-> op, order |-> o, row |-> orders[o]]
        /\ \A v \in Workers \ {w} : request'[v] = request[v]
    BY <1>1 DEF LoadMutable
  <2>2. request'[w] \in Reading /\ request'[w].order = o
    BY <2>1 DEF Reading
  <2>3. orders[o].status # "absent" /\ UNCHANGED orders
    BY <1>1 DEF LoadMutable, Mutable
  <2> QED BY <2>1, <2>2, <2>3, QuietTimeline
<1>2. ASSUME NEW a \in Addresses, DeleteAddress(w, a) PROVE TimelineInv'
  <2>1. \A o \in Orders : /\ orders'[o].status = orders[o].status
                         /\ orders'[o].stamps = orders[o].stamps
    BY <1>2 DEF DeleteAddress, Row
  <2> QED BY <1>2, <2>1, QuietTimeline DEF DeleteAddress
<1>3. ASSUME NEW a \in Addresses, CreateAddress(w, a) \/ ChangeDeliveryZone(w, a)
      PROVE  TimelineInv'
  BY <1>3, QuietTimeline DEF CreateAddress, ChangeDeliveryZone
<1>4. CASE \/ \E s \in Slots, n \in Capacities : UpsertSlotCapacity(w, s, n)
           \/ \E s \in Slots : DeleteSlotCapacity(w, s)
  BY <1>4, QuietTimeline DEF UpsertSlotCapacity, DeleteSlotCapacity
<1>5. CASE AbortRequest(w)
  BY <1>5, QuietTimeline DEF AbortRequest
<1> QED BY <1>1, <1>2, <1>3, <1>4, <1>5

LEMMA ClockTimeline == ASSUME TimelineInv, TypeOK', Clock PROVE TimelineInv'
<1> USE DEF TimelineInv, TypeOK
<1>1. ASSUME NEW o \in Orders, CancellationCutoff(o) PROVE TimelineInv'
  BY <1>1, QuietTimeline DEF CancellationCutoff
<1>2. ASSUME NEW o \in Orders, PickupCodeExpires(o) PROVE TimelineInv'
  <2>1. \A p \in Orders : /\ orders'[p].status = orders[p].status
                         /\ orders'[p].stamps = orders[p].stamps
    BY <1>2 DEF PickupCodeExpires, Row
  <2> QED BY <1>2, <2>1, QuietTimeline DEF PickupCodeExpires
<1> QED BY <1>1, <1>2 DEF Clock

\* A new draft is an order no request is about.
LEMMA CreateTimeline ==
    ASSUME TimelineInv, TypeOK', NEW w \in Workers, NEW o \in Orders,
           CreateOrderDraft(w, o)
    PROVE  TimelineInv'
<1>1. PICK type \in Services, slot \in Slots, meals \in Meals,
           address \in Addresses \cup {NoAddress} :
         orders' = [orders EXCEPT ![o] = NewDraft(type, slot, meals, address)]
  BY DEF CreateOrderDraft
<1>2. /\ orders'[o].status = "draft"
      /\ \A p \in Orders \ {o} : orders'[p] = orders[p]
  BY <1>1 DEF TimelineInv, TypeOK, NewDraft, NoOrder
<1>3. \A v \in Workers : ~Free(v) => request[v].order \in Orders \ {o}
  BY DEF TimelineInv, TypeOK, InFlightExists, Free, Request, Reading, Writing,
         CreateOrderDraft
<1>4. \A v \in Workers : request[v].phase = "writing" => ~Free(v)
  BY DEF Free, Idle
<1>5. UNCHANGED request
  BY DEF CreateOrderDraft
<1>6. TimelineComplete'
  BY <1>2, EmptyTimeline DEF TimelineInv, TimelineComplete, Mutable
<1>7. PendingTimeline'
  BY <1>2, <1>3, <1>4, <1>5 DEF TimelineInv, PendingTimeline
<1>8. InFlightExists'
  BY <1>2, <1>3, <1>4, <1>5 DEF TimelineInv, InFlightExists, Free
<1> QED BY <1>6, <1>7, <1>8 DEF TimelineInv

\* An UPDATE adds its timestamps to those that are there, and its status has
\* its timeline among the two.
LEMMA CommitTimeline ==
    ASSUME TimelineInv, TypeOK', NEW w \in Workers, CommitUpdate(w)
    PROVE  TimelineInv'
<1> DEFINE o == request[w].order
           u == request[w].update
<1>1. request[w] \in Writing
  BY DEF TimelineInv, TypeOK, CommitUpdate, Request, Reading, Writing, Idle
<1>2. o \in Orders /\ u \in Update
  BY <1>1 DEF Writing
<1>3. /\ orders'[o].status = IF u.status = Keep THEN orders[o].status ELSE u.status
      /\ orders'[o].stamps = orders[o].stamps \cup u.stamps
      /\ \A p \in Orders \ {o} : orders'[p] = orders[p]
  BY <1>2 DEF CommitUpdate, Flush, Assign, TimelineInv, TypeOK
<1>4. request' = [request EXCEPT ![w] = Idle]
  BY DEF CommitUpdate
<1>5. TimelineComplete'
  <2>1. u.status # Keep => Timeline(u.status) \subseteq orders[o].stamps \cup u.stamps
    BY <1>1 DEF TimelineInv, PendingTimeline, Writing
  <2> QED BY <1>2, <1>3, <2>1 DEF TimelineInv, TimelineComplete
<1>6. \A v \in Workers : request'[v].phase = "writing" => v # w /\ request'[v] = request[v]
  BY <1>4 DEF TimelineInv, TypeOK, Idle
<1>7. \A v \in Workers : ~Free(v)' => ~Free(v) /\ request'[v] = request[v]
  BY <1>4 DEF TimelineInv, TypeOK, Free
<1>8. \A v \in Workers : ~Free(v) => request[v].order \in Orders
  BY DEF TimelineInv, TypeOK, Free, Request, Reading, Writing
<1>9. PendingTimeline'
  <2> SUFFICES ASSUME NEW v \in Workers, request'[v].phase = "writing",
                      request'[v].update.status # Keep
               PROVE  Timeline(request'[v].update.status)
                        \subseteq orders'[request'[v].order].stamps \cup request'[v].update.stamps
    BY DEF PendingTimeline
  <2>1. request'[v] = request[v] /\ request[v].order \in Orders
    BY <1>6, <1>8 DEF Free, Idle
  <2>2. orders[request[v].order].stamps \subseteq orders'[request[v].order].stamps
    BY <1>3, <2>1
  <2> QED BY <2>1, <2>2 DEF TimelineInv, PendingTimeline
<1>10. InFlightExists'
  <2>1. \A p \in Orders : orders[p].status # "absent" => orders'[p].status # "absent"
    BY <1>1, <1>3 DEF TimelineInv, InFlightExists, Writing
  <2> QED BY <1>6, <1>7, <1>8, <2>1 DEF TimelineInv, InFlightExists, Free
<1> QED BY <1>5, <1>9, <1>10 DEF TimelineInv

\* An order stands in a status only with the whole documented path to it in
\* its timestamps, however many requests overlap and whatever they lose.
THEOREM TimelineSafe == Spec => []TimelineComplete
<1>1. Init => TimelineInv
  <2> SUFFICES ASSUME Init PROVE TimelineInv
    OBVIOUS
  <2>1. TypeOK
    BY TypeInit
  <2>2. TimelineComplete
    BY EmptyTimeline DEF Init, TimelineComplete, NoOrder
  <2> QED BY <2>1, <2>2 DEF Init, TimelineInv, PendingTimeline, InFlightExists, Free, Idle
<1>2. TimelineInv /\ TypeOK' /\ [Next]_vars => TimelineInv'
  <2> SUFFICES ASSUME TimelineInv, TypeOK', [Next]_vars PROVE TimelineInv'
    OBVIOUS
  <2>1. ASSUME NEW w \in Workers, Customer(w) PROVE TimelineInv'
    BY <2>1, CreateTimeline, DirectTimeline, DecisionTimeline, PreparedTimeline DEF Customer
  <2>2. ASSUME NEW w \in Workers, Staff(w) PROVE TimelineInv'
    BY <2>2, DirectTimeline, PreparedTimeline DEF Staff
  <2>3. ASSUME NEW w \in Workers, CommitUpdate(w) PROVE TimelineInv'
    BY <2>3, CommitTimeline
  <2>4. ASSUME NEW w \in Workers, AbortRequest(w) PROVE TimelineInv'
    BY <2>4, DirectTimeline
  <2>5. CASE Clock
    BY <2>5, ClockTimeline
  <2>6. CASE UNCHANGED vars
    BY <2>6, QuietTimeline DEF vars
  <2> QED BY <2>1, <2>2, <2>3, <2>4, <2>5, <2>6 DEF Next
<1>3. TimelineInv => TimelineComplete
  BY DEF TimelineInv
<1> QED BY <1>1, <1>2, <1>3, TypeCorrect, PTL DEF Spec

-----------------------------------------------------------------------------
(* What holds when no two requests on one order are in flight together     *)
(* (PoliteSpec): one inductive invariant, PoliteInv, gives RowsConsistent, *)
(* LifecycleFollowed and AcceptedOrderFrozen.                              *)

\* What each column of a row holds after an UPDATE.
LEMMA FlushColumns ==
    ASSUME NEW row, NEW update
    PROVE  /\ Flush(row, update).status = Assign(row.status, update.status)
           /\ Flush(row, update).type = Assign(row.type, update.type)
           /\ Flush(row, update).slot = Assign(row.slot, update.slot)
           /\ Flush(row, update).meals = Assign(row.meals, update.meals)
           /\ Flush(row, update).quote = Assign(row.quote, update.quote)
           /\ Flush(row, update).code = Assign(row.code, update.code)
BY DEF Flush

\* Writing back a column only when it changes gives it the value written.
LEMMA AssignIfChanged ==
    ASSUME NEW value, value # Keep
    PROVE  \A column : Assign(column, IfChanged(column, value)) = value
BY DEF Assign, IfChanged

\* The customer's statuses and the kitchen's have nothing in common.
LEMMA MutableNotFinalized ==
    ASSUME NEW status \in Mutable
    PROVE  status \notin Finalized /\ status # "absent" /\ status # "cancelled"
BY DEF Mutable, Finalized

LEMMA MutableLifecycle ==
    ASSUME NEW type, NEW status \in Mutable
    PROVE  Mutable \cup {"confirmed", "cancelled"} \subseteq Lifecycle(type, status)
BY DEF Lifecycle, Mutable, Status

-----------------------------------------------------------------------------
(* Each UPDATE the handlers decide on is one its row allows.               *)

\* A decision that moves an editable order to a status of the customer's.
LEMMA EditAllowed ==
    ASSUME NEW row \in Row, RowSane(row), row.status \in Mutable,
           NEW update \in Update,
           update.status \in Mutable \cup {"confirmed", "cancelled", Keep},
           update.code = Keep,
           LET f == Flush(row, update)
           IN  /\ f.status = "quoted" => f.quote = "set"
               /\ f.quote = "set" => f.status \in {"quoted", "conflict"}
    PROVE  UpdateAllowed(row, update)
<1> DEFINE f == Flush(row, update)
<1>1. f.code = "none"
  BY MutableNotFinalized, FlushColumns
     DEF RowSane, Assign, Row, Mutable, PickupCodeEligible
<1>2. f.status \in Mutable \cup {"confirmed", "cancelled"}
  BY FlushColumns DEF Assign
<1>3. RowSane(f)
  BY <1>1, <1>2 DEF RowSane, Mutable
<1> QED BY <1>3, MutableNotFinalized, MutableLifecycle DEF UpdateAllowed

LEMMA DraftEditAllowed ==
    ASSUME NEW row \in Row, RowSane(row), NEW copy \in Row, CopyCurrent(row, copy),
           NEW type \in Service, NEW slot \in Slots, NEW meals \in Meals,
           NEW address \in Addresses \cup {NoAddress}
    PROVE  UpdateAllowed(row, DraftEdit(copy, type, slot, meals, address))
<1> DEFINE u == DraftEdit(copy, type, slot, meals, address)
<1>1. /\ u.status = IfChanged(row.status, "draft")
      /\ u.quote = IfChanged(row.quote, "none")
      /\ u.code = Keep
  BY DEF DraftEdit, NoUpdate, CopyCurrent
<1>2. u \in Update
  BY UpdatesType
<1>3. Flush(row, u).status = "draft" /\ Flush(row, u).quote = "none"
  BY <1>1, FlushColumns, AssignIfChanged, NullsAssumption DEF Status
<1>4. u.status \in Mutable \cup {Keep}
  BY <1>1 DEF IfChanged, Mutable
<1> QED BY <1>1, <1>2, <1>3, <1>4, EditAllowed DEF CopyCurrent

LEMMA ConflictAllowed ==
    ASSUME NEW row \in Row, RowSane(row), NEW copy \in Row, CopyCurrent(row, copy)
    PROVE  UpdateAllowed(row, ConflictState(copy))
<1> DEFINE u == ConflictState(copy)
<1>1. u.status = IfChanged(row.status, "conflict") /\ u.code = Keep
  BY DEF ConflictState, NoUpdate, CopyCurrent
<1>2. u \in Update
  BY UpdatesType
<1>3. Flush(row, u).status = "conflict"
  BY <1>1, FlushColumns, AssignIfChanged, NullsAssumption DEF Status
<1>4. u.status \in Mutable \cup {Keep}
  BY <1>1 DEF IfChanged, Mutable
<1> QED BY <1>1, <1>2, <1>3, <1>4, EditAllowed DEF CopyCurrent

LEMMA QuoteAllowed ==
    ASSUME NEW row \in Row, RowSane(row), NEW copy \in Row, CopyCurrent(row, copy)
    PROVE  UpdateAllowed(row, Quote(copy))
<1> DEFINE u == Quote(copy)
<1>1. u.status = IfChanged(row.status, "quoted") /\ u.quote = "set" /\ u.code = Keep
  BY DEF Quote, NoUpdate, CopyCurrent
<1>2. u \in Update
  BY UpdatesType
<1>3. Flush(row, u).status = "quoted" /\ Flush(row, u).quote = "set"
  BY <1>1, FlushColumns, AssignIfChanged, NullsAssumption DEF Status, Assign
<1>4. u.status \in Mutable \cup {Keep}
  BY <1>1 DEF IfChanged, Mutable
<1> QED BY <1>1, <1>2, <1>3, <1>4, EditAllowed DEF CopyCurrent

LEMMA ConfirmAllowed ==
    ASSUME NEW row \in Row, RowSane(row), NEW copy \in Row, CopyCurrent(row, copy)
    PROVE  UpdateAllowed(row, Confirmation(copy))
<1> DEFINE u == Confirmation(copy)
<1>1. /\ u.status = IfChanged(row.status, "confirmed")
      /\ u.quote = IfChanged(row.quote, "none")
      /\ u.code = Keep
  BY DEF Confirmation, NoUpdate, CopyCurrent
<1>2. u \in Update
  BY UpdatesType
<1>3. Flush(row, u).status = "confirmed" /\ Flush(row, u).quote = "none"
  BY <1>1, FlushColumns, AssignIfChanged, NullsAssumption DEF Status
<1>4. u.status \in {"confirmed", Keep}
  BY <1>1 DEF IfChanged
<1> QED BY <1>1, <1>2, <1>3, <1>4, EditAllowed DEF CopyCurrent

\* A status that cancel_order accepts may become cancelled.
LEMMA CancelLifecycle ==
    ASSUME NEW type \in Service, NEW status \in Status \ (NotCancellable \cup {"absent"}),
           status = "ready_for_pickup" => type = "pickup",
           status = "ready_for_dispatch" => type = "delivery"
    PROVE  "cancelled" \in Lifecycle(type, status)
BY DEF Status, NotCancellable, Lifecycle, Mutable, FulfillmentTargets, Service,
       PickupTransitions, DeliveryTransitions

LEMMA CancellationAllowed ==
    ASSUME NEW row \in Row, RowSane(row),
           row.status \notin NotCancellable \cup {"absent"}
    PROVE  UpdateAllowed(row, Cancellation(row))
<1> DEFINE u == Cancellation(row)
           f == Flush(row, u)
<1>1. /\ u.status = "cancelled"
      /\ u.quote = IfChanged(row.quote, "none")
      /\ u.code = IfChanged(row.code, "none")
      /\ u.slot = Keep /\ u.type = Keep /\ u.meals = Keep
  BY DEF Cancellation, NoUpdate
<1>2. f.status = "cancelled" /\ f.quote = "none" /\ f.code = "none"
  BY <1>1, FlushColumns, AssignIfChanged, NullsAssumption DEF Status, Assign
<1>3. RowSane(f)
  BY <1>2 DEF RowSane
<1>4. row.type \in Service /\ row.status \in Status
  BY DEF Row
<1>5. "cancelled" \in Lifecycle(row.type, row.status)
  <2>1. row.status = "ready_for_pickup" => row.type = "pickup"
    BY DEF RowSane
  <2>2. row.status = "ready_for_dispatch" => row.type = "delivery"
    BY DEF RowSane
  <2> QED BY <1>4, <2>1, <2>2, CancelLifecycle
<1> QED BY <1>1, <1>3, <1>5 DEF UpdateAllowed

LEMMA IssuedCodeAllowed ==
    ASSUME NEW row \in Row, RowSane(row), row.type = "pickup",
           row.status \in PickupCodeEligible
    PROVE  UpdateAllowed(row, IssuedCode(row))
<1> DEFINE u == IssuedCode(row)
           f == Flush(row, u)
<1>1. /\ u.status = Keep /\ u.quote = Keep
      /\ u.code = IF row.status = "ready_for_pickup" THEN "fresh" ELSE "early"
      /\ u.slot = Keep /\ u.type = Keep /\ u.meals = Keep
  BY DEF IssuedCode, NoUpdate
<1>2. /\ f.status = row.status /\ f.type = row.type /\ f.quote = row.quote
      /\ f.code = u.code
  BY <1>1, FlushColumns, NullsAssumption DEF Assign
<1>3. RowSane(f)
  BY <1>1, <1>2 DEF RowSane, PickupCodeEligible
<1> QED BY <1>1, <1>3 DEF UpdateAllowed, PickupCodeEligible

LEMMA TransitionAllowed ==
    ASSUME NEW row \in Row, RowSane(row),
           NEW target \in FulfillmentTargets(row.type, row.status)
    PROVE  UpdateAllowed(row, Transition(row, target))
<1> DEFINE u == Transition(row, target)
           f == Flush(row, u)
<1>0. row.type \in Service /\ row.code \in CodeState
  BY DEF Row
<1>1. /\ u.status = target /\ u.quote = Keep
      /\ u.code = IF target = "ready_for_pickup" THEN IfChanged(row.code, "none") ELSE Keep
      /\ u.slot = Keep /\ u.type = Keep /\ u.meals = Keep
  BY DEF Transition, NoUpdate
<1>2. target \in Status /\ target # Keep
  BY NullsAssumption DEF FulfillmentTargets
<1>3. /\ f.status = target /\ f.type = row.type /\ f.quote = row.quote
      /\ f.code = IF target = "ready_for_pickup" THEN "none" ELSE row.code
  BY <1>1, <1>2, FlushColumns, AssignIfChanged, NullsAssumption DEF Assign
<1>4. row.quote # "set"
  BY DEF RowSane, FulfillmentTargets, PickupTransitions, DeliveryTransitions
<1>5. target \notin {"quoted", "handed_off"}
  BY DEF FulfillmentTargets, PickupTransitions, DeliveryTransitions
<1>6. target \in {"ready_for_dispatch", "out_for_delivery", "delivered"} =>
          row.type = "delivery"
  BY <1>0 DEF FulfillmentTargets, PickupTransitions, Service
<1>7. target = "ready_for_pickup" => row.type = "pickup"
  BY <1>0 DEF FulfillmentTargets, DeliveryTransitions, Service
<1>8. row.code # "none" =>
        row.type = "pickup" /\ target \in PickupCodeEligible \cup {"cancelled"}
  BY DEF RowSane, FulfillmentTargets, PickupTransitions, PickupCodeEligible
<1>9. RowSane(f)
  BY <1>3, <1>4, <1>5, <1>6, <1>7, <1>8 DEF RowSane
<1>10. target \in Lifecycle(row.type, row.status) /\ row.status # "absent"
  BY <1>2 DEF Lifecycle, FulfillmentTargets, PickupTransitions, DeliveryTransitions
<1> QED BY <1>1, <1>9, <1>10 DEF UpdateAllowed

LEMMA HandedOffAllowed ==
    ASSUME NEW row \in Row, RowSane(row), row.type = "pickup",
           row.status = "ready_for_pickup"
    PROVE  UpdateAllowed(row, HandedOff(row))
<1> DEFINE u == HandedOff(row)
           f == Flush(row, u)
<1>1. /\ u.status = "handed_off" /\ u.quote = Keep
      /\ u.code = IfChanged(row.code, "none")
      /\ u.slot = Keep /\ u.type = Keep /\ u.meals = Keep
  BY DEF HandedOff, NoUpdate
<1>2. /\ f.status = "handed_off" /\ f.type = row.type /\ f.quote = row.quote
      /\ f.code = "none"
  BY <1>1, FlushColumns, AssignIfChanged, NullsAssumption DEF Assign, Status
<1>3. RowSane(f)
  BY <1>2 DEF RowSane
<1>4. "handed_off" \in Lifecycle(row.type, row.status)
  BY DEF Lifecycle, Status
<1> QED BY <1>1, <1>3, <1>4 DEF UpdateAllowed

-----------------------------------------------------------------------------
(* PoliteInv is inductive.                                                 *)

\* What a step has to leave true of each worker.
LEMMA PoliteFrame ==
    ASSUME PoliteInv, TypeOK', OneRequestPerOrder',
           \A o \in Orders : RowSane(orders'[o]),
           \A v \in Workers :
               \/ request'[v].phase \notin {"reading", "writing"}
               \/ /\ request'[v] = request[v]
                  /\ orders'[request[v].order] = orders[request[v].order]
               \/ /\ request'[v].phase = "reading"
                  /\ CopyCurrent(orders'[request'[v].order], request'[v].row)
               \/ /\ request'[v].phase = "writing"
                  /\ UpdateAllowed(orders'[request'[v].order], request'[v].update)
    PROVE  PoliteInv'
BY DEF PoliteInv

\* A worker that starts to write leaves the table alone; its UPDATE must be
\* one the row allows.
LEMMA PreparePolite ==
    ASSUME PoliteInv, TypeOK', OneRequestPerOrder', NEW w \in Workers, NEW o \in Orders,
           NEW update, UpdateAllowed(orders[o], update),
           request' = [request EXCEPT ![w] =
                         [phase |-> "writing", order |-> o, update |-> update]],
           UNCHANGED orders
    PROVE  PoliteInv'
<1>1. /\ request'[w].phase = "writing" /\ request'[w].order = o
      /\ request'[w].update = update
      /\ \A v \in Workers \ {w} : request'[v] = request[v]
  BY DEF PoliteInv, TypeOK
<1> QED BY <1>1, PoliteFrame DEF PoliteInv

LEMMA DecisionPolite ==
    ASSUME PoliteInv, TypeOK', OneRequestPerOrder', NEW w \in Workers,
           \/ UpdateOrderDraft(w)
           \/ \E op \in {"quote", "confirm"} : SlotConflict(w, op)
           \/ QuoteOrder(w)
           \/ ConfirmOrder(w)
    PROVE  PoliteInv'
<1> DEFINE o == request[w].order
           copy == request[w].row
<1>1. request[w].phase = "reading"
  BY DEF UpdateOrderDraft, SlotConflict, QuoteOrder, ConfirmOrder
<1>2. o \in Orders /\ copy \in Row
  BY <1>1, CopyType DEF PoliteInv
<1>3. orders[o] \in Row /\ RowSane(orders[o]) /\ CopyCurrent(orders[o], copy)
  BY <1>1, <1>2 DEF PoliteInv, TypeOK
<1>4. ASSUME NEW op, NEW update, Decide(w, op, update), UpdateAllowed(orders[o], update)
      PROVE  PoliteInv'
  BY <1>2, <1>4, PreparePolite DEF Decide
<1>5. CASE UpdateOrderDraft(w)
  <2>1. PICK type \in Services, slot \in Slots, meals \in Meals,
             address \in Addresses \cup {NoAddress} :
           Decide(w, "update", DraftEdit(copy, type, slot, meals, address))
    BY <1>5 DEF UpdateOrderDraft
  <2>2. UpdateAllowed(orders[o], DraftEdit(copy, type, slot, meals, address))
    BY <1>2, <1>3, DraftEditAllowed, ServicesAssumption
  <2> QED BY <2>1, <2>2, <1>4
<1>6. ASSUME NEW op \in {"quote", "confirm"}, SlotConflict(w, op) PROVE PoliteInv'
  <2>1. UpdateAllowed(orders[o], ConflictState(copy))
    BY <1>2, <1>3, ConflictAllowed
  <2> QED BY <1>6, <2>1, <1>4 DEF SlotConflict
<1>7. CASE QuoteOrder(w)
  <2>1. UpdateAllowed(orders[o], Quote(copy))
    BY <1>2, <1>3, QuoteAllowed
  <2> QED BY <1>7, <2>1, <1>4 DEF QuoteOrder
<1>8. CASE ConfirmOrder(w)
  <2>1. UpdateAllowed(orders[o], Confirmation(copy))
    BY <1>2, <1>3, ConfirmAllowed
  <2> QED BY <1>8, <2>1, <1>4 DEF ConfirmOrder
<1> QED BY <1>5, <1>6, <1>7, <1>8

LEMMA PreparedPolite ==
    ASSUME PoliteInv, TypeOK', OneRequestPerOrder', NEW w \in Workers, NEW o \in Orders,
           \/ CancelOrder(w, o)
           \/ IssueOrderPickupCode(w, o)
           \/ \E target \in Status : TransitionOrderStatus(w, o, target)
           \/ VerifyPickupCodeAndHandoff(w, o)
    PROVE  PoliteInv'
<1>1. orders[o] \in Row /\ RowSane(orders[o])
  BY DEF PoliteInv, TypeOK
<1>2. ASSUME NEW update, Prepare(w, o, update), UpdateAllowed(orders[o], update)
      PROVE  PoliteInv'
  BY <1>2, PreparePolite DEF Prepare
<1>3. CASE CancelOrder(w, o)
  BY <1>1, <1>2, <1>3, CancellationAllowed DEF CancelOrder
<1>4. CASE IssueOrderPickupCode(w, o)
  BY <1>1, <1>2, <1>4, IssuedCodeAllowed DEF IssueOrderPickupCode
<1>5. ASSUME NEW target \in Status, TransitionOrderStatus(w, o, target) PROVE PoliteInv'
  BY <1>1, <1>2, <1>5, TransitionAllowed DEF TransitionOrderStatus
<1>6. CASE VerifyPickupCodeAndHandoff(w, o)
  BY <1>1, <1>2, <1>6, HandedOffAllowed DEF VerifyPickupCodeAndHandoff
<1> QED BY <1>3, <1>4, <1>5, <1>6

\* A row that changes only its address, or whose code expires, stays sane and
\* allows the same UPDATEs.
LEMMA SimilarRow ==
    ASSUME NEW row, NEW new, RowSane(row),
           new.status = row.status, new.type = row.type, new.quote = row.quote,
           \/ new.code = row.code
           \/ row.code # "none" /\ new.code = "expired"
    PROVE  /\ RowSane(new)
           /\ \A update : UpdateAllowed(row, update) => UpdateAllowed(new, update)
<1>1. RowSane(new)
  BY DEF RowSane
<1>2. ASSUME NEW update, UpdateAllowed(row, update) PROVE UpdateAllowed(new, update)
  <2> DEFINE f == Flush(row, update)
             g == Flush(new, update)
  <2>1. g.status = f.status /\ g.type = f.type /\ g.quote = f.quote
    BY FlushColumns
  <2>2. \/ g.code = f.code
        \/ f.code # "none" /\ g.code = "expired"
    BY FlushColumns DEF Assign
  <2>3. RowSane(f)
    BY <1>2 DEF UpdateAllowed
  <2>4. RowSane(g)
    BY <2>1, <2>2, <2>3 DEF RowSane
  <2> QED BY <1>2, <2>4 DEF UpdateAllowed
<1> QED BY <1>1, <1>2

\* A step that changes no request and every row only in such a way.
LEMMA QuietPolite ==
    ASSUME PoliteInv, TypeOK', OneRequestPerOrder',
           \A o \in Orders :
               /\ orders'[o].status = orders[o].status
               /\ orders'[o].type = orders[o].type
               /\ orders'[o].quote = orders[o].quote
               /\ \/ orders'[o].code = orders[o].code
                  \/ orders[o].code # "none" /\ orders'[o].code = "expired",
           \A v \in Workers : request'[v] = request[v] \/ request'[v] = Idle
    PROVE  PoliteInv'
<1>1. \A o \in Orders :
        /\ RowSane(orders'[o])
        /\ \A update : UpdateAllowed(orders[o], update) => UpdateAllowed(orders'[o], update)
  BY SimilarRow DEF PoliteInv
<1>2. ASSUME NEW v \in Workers, request'[v].phase \in {"reading", "writing"}
      PROVE  request'[v] = request[v] /\ request[v].order \in Orders
  <2>1. request'[v] = request[v]
    BY <1>2 DEF Idle
  <2>2. request[v] \in Request
    BY DEF PoliteInv, TypeOK
  <2> QED BY <1>2, <2>1, <2>2 DEF Request, Reading, Writing, Idle
<1>3. \A v \in Workers :
        \/ request'[v].phase \notin {"reading", "writing"}
        \/ /\ request'[v].phase = "reading"
           /\ CopyCurrent(orders'[request'[v].order], request'[v].row)
        \/ /\ request'[v].phase = "writing"
           /\ UpdateAllowed(orders'[request'[v].order], request'[v].update)
  BY <1>1, <1>2 DEF PoliteInv, CopyCurrent
<1> QED BY <1>1, <1>3, PoliteFrame

\* A new draft is an order no request is about.
LEMMA CreatePolite ==
    ASSUME PoliteInv, TypeOK', OneRequestPerOrder', NEW w \in Workers, NEW o \in Orders,
           CreateOrderDraft(w, o)
    PROVE  PoliteInv'
<1>1. PICK type \in Services, slot \in Slots, meals \in Meals,
           address \in Addresses \cup {NoAddress} :
         orders' = [orders EXCEPT ![o] = NewDraft(type, slot, meals, address)]
  BY DEF CreateOrderDraft
<1>2. /\ orders'[o] = NewDraft(type, slot, meals, address)
      /\ \A p \in Orders \ {o} : orders'[p] = orders[p]
  BY <1>1 DEF PoliteInv, TypeOK
<1>3. RowSane(NewDraft(type, slot, meals, address))
  <2> DEFINE new == NewDraft(type, slot, meals, address)
  <2>1. new.status = "draft" /\ new.quote = "none" /\ new.code = "none"
    BY DEF NewDraft, NoOrder
  <2> QED BY <2>1 DEF RowSane
<1>4. ASSUME NEW v \in Workers, request[v].phase \in {"reading", "writing"}
      PROVE  orders'[request[v].order] = orders[request[v].order]
  <2>1. request[v].order \in Orders
    BY <1>4 DEF PoliteInv, TypeOK, Request, Reading, Writing, Idle
  <2>2. orders[request[v].order].status # "absent"
    BY <1>4, MutableNotFinalized DEF PoliteInv, CopyCurrent, UpdateAllowed
  <2> QED BY <1>2, <2>1, <2>2 DEF CreateOrderDraft
<1>5. UNCHANGED request
  BY DEF CreateOrderDraft
<1>6. \A p \in Orders : RowSane(orders'[p])
  BY <1>2, <1>3 DEF PoliteInv
<1> QED BY <1>4, <1>5, <1>6, PoliteFrame

LEMMA DirectPolite ==
    ASSUME PoliteInv, TypeOK', OneRequestPerOrder', NEW w \in Workers,
           \/ \E o \in Orders, op \in {"update", "quote", "confirm"} : LoadMutable(w, o, op)
           \/ \E a \in Addresses : \/ CreateAddress(w, a)
                                  \/ DeleteAddress(w, a)
                                  \/ ChangeDeliveryZone(w, a)
           \/ \E s \in Slots, n \in Capacities : UpsertSlotCapacity(w, s, n)
           \/ \E s \in Slots : DeleteSlotCapacity(w, s)
           \/ AbortRequest(w)
    PROVE  PoliteInv'
<1>0. orders \in [Orders -> Row] /\ request \in [Workers -> Request]
  BY DEF PoliteInv, TypeOK
<1>1. ASSUME NEW o \in Orders, NEW op \in {"update", "quote", "confirm"},
             LoadMutable(w, o, op)
      PROVE  PoliteInv'
  <2>1. /\ request'[w] = [phase |-> "reading", op |-> op, order |-> o, row |-> orders[o]]
        /\ \A v \in Workers \ {w} : request'[v] = request[v]
        /\ UNCHANGED orders
    BY <1>0, <1>1 DEF LoadMutable
  <2>2. CopyCurrent(orders'[request'[w].order], request'[w].row)
    BY <1>1, <2>1 DEF LoadMutable, CopyCurrent
  <2>3. \A p \in Orders : RowSane(orders'[p])
    BY <2>1 DEF PoliteInv
  <2> QED BY <2>1, <2>2, <2>3, PoliteFrame
<1>2. ASSUME NEW a \in Addresses, DeleteAddress(w, a) PROVE PoliteInv'
  <2>1. \A o \in Orders : /\ orders'[o].status = orders[o].status
                         /\ orders'[o].type = orders[o].type
                         /\ orders'[o].quote = orders[o].quote
                         /\ orders'[o].code = orders[o].code
    BY <1>0, <1>2 DEF DeleteAddress, Row
  <2> QED BY <1>2, <2>1, QuietPolite DEF DeleteAddress
<1>3. ASSUME NEW a \in Addresses, CreateAddress(w, a) \/ ChangeDeliveryZone(w, a)
      PROVE  PoliteInv'
  BY <1>3, QuietPolite DEF CreateAddress, ChangeDeliveryZone
<1>4. CASE \/ \E s \in Slots, n \in Capacities : UpsertSlotCapacity(w, s, n)
           \/ \E s \in Slots : DeleteSlotCapacity(w, s)
  BY <1>4, QuietPolite DEF UpsertSlotCapacity, DeleteSlotCapacity
<1>5. CASE AbortRequest(w)
  BY <1>0, <1>5, QuietPolite DEF AbortRequest
<1> QED BY <1>1, <1>2, <1>3, <1>4, <1>5

LEMMA ClockPolite ==
    ASSUME PoliteInv, TypeOK', OneRequestPerOrder', Clock
    PROVE  PoliteInv'
<1>0. orders \in [Orders -> Row]
  BY DEF PoliteInv, TypeOK
<1>1. ASSUME NEW o \in Orders, CancellationCutoff(o) PROVE PoliteInv'
  BY <1>1, QuietPolite DEF CancellationCutoff
<1>2. ASSUME NEW o \in Orders, PickupCodeExpires(o) PROVE PoliteInv'
  <2>1. \A p \in Orders :
          /\ orders'[p].status = orders[p].status
          /\ orders'[p].type = orders[p].type
          /\ orders'[p].quote = orders[p].quote
          /\ \/ orders'[p].code = orders[p].code
             \/ orders[p].code # "none" /\ orders'[p].code = "expired"
    BY <1>0, <1>2 DEF PickupCodeExpires, Row
  <2> QED BY <1>2, <2>1, QuietPolite DEF PickupCodeExpires
<1> QED BY <1>1, <1>2 DEF Clock

\* The UPDATE meets the row it was decided for; the other requests are about
\* other orders.
LEMMA CommitPolite ==
    ASSUME PoliteInv, TypeOK', OneRequestPerOrder', NEW w \in Workers, CommitUpdate(w)
    PROVE  PoliteInv'
<1> DEFINE o == request[w].order
           u == request[w].update
<1>1. request[w] \in Writing
  BY DEF PoliteInv, TypeOK, CommitUpdate, Request, Reading, Writing, Idle
<1>2. o \in Orders /\ ~Free(w)
  BY <1>1 DEF Writing, Free, Idle
<1>3. /\ orders'[o] = Flush(orders[o], u)
      /\ \A p \in Orders \ {o} : orders'[p] = orders[p]
      /\ request'[w] = Idle
      /\ \A v \in Workers \ {w} : request'[v] = request[v]
  BY <1>2 DEF CommitUpdate, PoliteInv, TypeOK
<1>4. \A p \in Orders : RowSane(orders'[p])
  BY <1>1, <1>2, <1>3 DEF PoliteInv, UpdateAllowed, Writing
<1>5. ASSUME NEW v \in Workers \ {w}, request[v].phase \in {"reading", "writing"}
      PROVE  orders'[request[v].order] = orders[request[v].order]
  <2>1. request[v].order \in Orders /\ ~Free(v)
    BY <1>5 DEF PoliteInv, TypeOK, Request, Reading, Writing, Idle, Free
  <2>2. request[v].order # o
    BY <1>2, <2>1 DEF PoliteInv, OneRequestPerOrder
  <2> QED BY <1>3, <2>1, <2>2
<1> QED BY <1>3, <1>4, <1>5, PoliteFrame DEF Idle

LEMMA PoliteInit == Init => PoliteInv
<1> SUFFICES ASSUME Init PROVE PoliteInv
  OBVIOUS
<1>1. RowSane(NoOrder)
  BY DEF RowSane, NoOrder
<1> QED BY <1>1, TypeInit DEF Init, PoliteInv, OneRequestPerOrder, Free, Idle

LEMMA PoliteStep ==
    ASSUME PoliteInv, [Next /\ OneRequestPerOrder']_vars
    PROVE  PoliteInv'
<1>1. CASE UNCHANGED vars
  BY <1>1 DEF vars, PoliteInv, TypeOK, OneRequestPerOrder, Free
<1>2. CASE Next /\ OneRequestPerOrder'
  <2>0. TypeOK' /\ OneRequestPerOrder'
    BY <1>2, TypeStep DEF PoliteInv
  <2>1. ASSUME NEW w \in Workers, Customer(w) PROVE PoliteInv'
    BY <2>0, <2>1, CreatePolite, DirectPolite, DecisionPolite, PreparedPolite DEF Customer
  <2>2. ASSUME NEW w \in Workers, Staff(w) PROVE PoliteInv'
    BY <2>0, <2>2, DirectPolite, PreparedPolite DEF Staff
  <2>3. ASSUME NEW w \in Workers, CommitUpdate(w) PROVE PoliteInv'
    BY <2>0, <2>3, CommitPolite
  <2>4. ASSUME NEW w \in Workers, AbortRequest(w) PROVE PoliteInv'
    BY <2>0, <2>4, DirectPolite
  <2>5. CASE Clock
    BY <2>0, <2>5, ClockPolite
  <2> QED BY <1>2, <2>1, <2>2, <2>3, <2>4, <2>5 DEF Next
<1> QED BY <1>1, <1>2

-----------------------------------------------------------------------------
(* The theorems.                                                           *)

\* Quotes and pickup codes agree with the status of their order.
THEOREM PoliteRows == PoliteSpec => []RowsConsistent
<1>1. PoliteInv => QuoteMatchesStatus
  BY DEF PoliteInv, QuoteMatchesStatus, RowSane
<1>2. PoliteInv => CodeBelongsToOpenPickup
  BY DEF PoliteInv, CodeBelongsToOpenPickup, RowSane
<1>3. PoliteInv => HandoffCodeIsFresh
  BY DEF PoliteInv, HandoffCodeIsFresh, RowSane
<1>4. PoliteInv => RowsConsistent
  BY <1>1, <1>2, <1>3 DEF RowsConsistent
<1>5. PoliteInv /\ [Next /\ OneRequestPerOrder']_vars => PoliteInv'
  BY PoliteStep
<1> QED BY <1>4, <1>5, PoliteInit, PTL DEF PoliteSpec

\* What changes the orders table besides the end of a request.
LEMMA OthersTouch ==
    ASSUME Next, \A w \in Workers : ~ CommitUpdate(w)
    PROVE  \/ \E w \in Workers, p \in Orders : CreateOrderDraft(w, p)
           \/ \E w \in Workers, a \in Addresses : DeleteAddress(w, a)
           \/ \E p \in Orders : PickupCodeExpires(p)
           \/ UNCHANGED orders
<1>1. ASSUME NEW w \in Workers, Customer(w)
      PROVE  \/ \E p \in Orders : CreateOrderDraft(w, p)
             \/ \E a \in Addresses : DeleteAddress(w, a)
             \/ UNCHANGED orders
  BY <1>1 DEF Customer, LoadMutable, UpdateOrderDraft, SlotConflict, QuoteOrder,
              ConfirmOrder, Decide, CancelOrder, IssueOrderPickupCode, Prepare, CreateAddress
<1>2. ASSUME NEW w \in Workers, Staff(w) PROVE UNCHANGED orders
  BY <1>2 DEF Staff, TransitionOrderStatus, VerifyPickupCodeAndHandoff, Prepare,
              UpsertSlotCapacity, DeleteSlotCapacity, ChangeDeliveryZone
<1>3. ASSUME Clock PROVE (\E p \in Orders : PickupCodeExpires(p)) \/ UNCHANGED orders
  BY <1>3 DEF Clock, CancellationCutoff
<1>4. ASSUME NEW w \in Workers, AbortRequest(w) PROVE UNCHANGED orders
  BY <1>4 DEF AbortRequest
<1> QED BY <1>1, <1>2, <1>3, <1>4 DEF Next

\* What a step may do to the columns the kitchen works from: insert a draft,
\* commit an UPDATE the row allows, or nothing.
LEMMA ColumnsStep ==
    ASSUME PoliteInv, [Next]_vars, NEW o \in Orders
    PROVE  \/ orders[o].status = "absent" /\ orders'[o].status = "draft"
           \/ \E update : /\ UpdateAllowed(orders[o], update)
                         /\ orders'[o] = Flush(orders[o], update)
           \/ /\ orders'[o].status = orders[o].status
              /\ orders'[o].slot = orders[o].slot
              /\ orders'[o].type = orders[o].type
              /\ orders'[o].meals = orders[o].meals
<1>0. orders \in [Orders -> Row]
  BY DEF PoliteInv, TypeOK
<1>1. ASSUME NEW w \in Workers, NEW p \in Orders, CreateOrderDraft(w, p)
      PROVE  \/ orders[o].status = "absent" /\ orders'[o].status = "draft"
             \/ orders'[o] = orders[o]
  <2>1. PICK type \in Services, slot \in Slots, meals \in Meals,
             address \in Addresses \cup {NoAddress} :
           orders' = [orders EXCEPT ![p] = NewDraft(type, slot, meals, address)]
    BY <1>1 DEF CreateOrderDraft
  <2>2. NewDraft(type, slot, meals, address).status = "draft"
    BY DEF NewDraft, NoOrder
  <2> QED BY <1>0, <1>1, <2>1, <2>2 DEF CreateOrderDraft
<1>2. ASSUME NEW w \in Workers, CommitUpdate(w)
      PROVE  \/ \E update : /\ UpdateAllowed(orders[o], update)
                           /\ orders'[o] = Flush(orders[o], update)
             \/ orders'[o] = orders[o]
  <2>1. request[w].phase = "writing"
    BY <1>2 DEF CommitUpdate
  <2>2. UpdateAllowed(orders[request[w].order], request[w].update)
    BY <2>1 DEF PoliteInv
  <2> QED BY <1>0, <1>2, <2>2 DEF CommitUpdate
<1>3. ASSUME NEW w \in Workers, NEW a \in Addresses, DeleteAddress(w, a)
      PROVE  /\ orders'[o].status = orders[o].status
             /\ orders'[o].slot = orders[o].slot
             /\ orders'[o].type = orders[o].type
             /\ orders'[o].meals = orders[o].meals
  BY <1>0, <1>3 DEF DeleteAddress, Row
<1>4. ASSUME NEW p \in Orders, PickupCodeExpires(p)
      PROVE  /\ orders'[o].status = orders[o].status
             /\ orders'[o].slot = orders[o].slot
             /\ orders'[o].type = orders[o].type
             /\ orders'[o].meals = orders[o].meals
  BY <1>0, <1>4 DEF PickupCodeExpires, Row
<1> QED BY <1>1, <1>2, <1>3, <1>4, OthersTouch DEF vars

\* Every change of a status is one the documents list.
THEOREM PoliteLifecycle == PoliteSpec => LifecycleFollowed
<1>1. ASSUME PoliteInv, [Next]_vars, NEW o \in Orders,
             orders'[o].status # orders[o].status
      PROVE  orders'[o].status \in Lifecycle(orders[o].type, orders[o].status)
  <2>1. CASE orders[o].status = "absent" /\ orders'[o].status = "draft"
    BY <2>1 DEF Lifecycle, Status
  <2>2. ASSUME NEW update, UpdateAllowed(orders[o], update),
               orders'[o] = Flush(orders[o], update)
        PROVE  orders'[o].status \in Lifecycle(orders[o].type, orders[o].status)
    BY <1>1, <2>2, FlushColumns DEF UpdateAllowed, Assign
  <2> QED BY <1>1, <2>1, <2>2, ColumnsStep
<1>2. PoliteInv /\ [Next /\ OneRequestPerOrder']_vars =>
        [\A o \in Orders :
            orders'[o].status # orders[o].status =>
                orders'[o].status \in Lifecycle(orders[o].type, orders[o].status)]_vars
  BY <1>1
<1>3. PoliteInv /\ [Next /\ OneRequestPerOrder']_vars => PoliteInv'
  BY PoliteStep
<1> QED BY <1>2, <1>3, PoliteInit, PTL DEF PoliteSpec, LifecycleFollowed

\* What the kitchen accepted is not edited under it.
THEOREM PoliteFrozen == PoliteSpec => AcceptedOrderFrozen
<1>1. ASSUME PoliteInv, [Next]_vars, NEW o \in Orders, orders[o].status \in Finalized
      PROVE  /\ orders'[o].slot = orders[o].slot
             /\ orders'[o].type = orders[o].type
             /\ orders'[o].meals = orders[o].meals
  <2>1. ASSUME NEW update, UpdateAllowed(orders[o], update),
               orders'[o] = Flush(orders[o], update)
        PROVE  /\ orders'[o].slot = orders[o].slot
               /\ orders'[o].type = orders[o].type
               /\ orders'[o].meals = orders[o].meals
    BY <1>1, <2>1, FlushColumns DEF UpdateAllowed, Assign
  <2>2. orders[o].status # "absent"
    BY <1>1 DEF Finalized
  <2> QED BY <1>1, <2>1, <2>2, ColumnsStep
<1>2. PoliteInv /\ [Next /\ OneRequestPerOrder']_vars =>
        [\A o \in Orders :
            orders[o].status \in Finalized =>
                /\ orders'[o].slot = orders[o].slot
                /\ orders'[o].type = orders[o].type
                /\ orders'[o].meals = orders[o].meals]_vars
  BY <1>1
<1>3. PoliteInv /\ [Next /\ OneRequestPerOrder']_vars => PoliteInv'
  BY PoliteStep
<1> QED BY <1>2, <1>3, PoliteInit, PTL DEF PoliteSpec, AcceptedOrderFrozen
-----------------------------------------------------------------------------
(* Places in a slot.                                                       *)

\* w is about to book a place in slot s for an order that has none.
Books(w, s) ==
    /\ request[w].phase = "writing"
    /\ request[w].update.status \in Finalized
    /\ orders[request[w].order].status \notin Finalized
    /\ orders[request[w].order].slot = s

\* The slot a handler decides on is the one its order still has.
SlotInv ==
    /\ PoliteInv
    /\ \A w \in Workers :
        /\ request[w].phase = "reading" =>
               request[w].row.slot = orders[request[w].order].slot
        /\ request[w].phase = "writing" /\ request[w].update.status \in Finalized =>
               request[w].update.slot = Keep

\* Booked places and those about to be booked, together: no decision finds
\* more than the other workers' beyond the limit.
RoomLeft ==
    \A s \in Slots :
        Cardinality(Booked(s)) + Cardinality({w \in Workers : Books(w, s)})
            <= DefaultSlotCapacity + Cardinality(Workers) - 1

\* What a single worker found free is still free when it commits.
PlaceFree ==
    \A w \in Workers, s \in Slots :
        Books(w, s) => Cardinality(Booked(s)) < SlotCapacity(s)

LEMMA FinalizedStatus == Finalized \subseteq Status /\ Keep \notin Finalized
BY NullsAssumption DEF Finalized, Status

\* Who reads or writes has an order that exists.
LEMMA BusyOrder ==
    ASSUME PoliteInv, NEW w \in Workers, request[w].phase \in {"reading", "writing"}
    PROVE  /\ request[w].order \in Orders
           /\ orders[request[w].order] \in Row
           /\ orders[request[w].order].status # "absent"
           /\ ~ Free(w)
<1>1. request[w] \in Request
  BY DEF PoliteInv, TypeOK
<1>2. request[w].order \in Orders /\ ~ Free(w)
  BY <1>1 DEF Request, Reading, Writing, Idle, Free
<1> QED BY <1>2, MutableNotFinalized DEF PoliteInv, TypeOK, CopyCurrent, UpdateAllowed

\* Requests in flight on different orders leave each other's order alone.
LEMMA OrderKept ==
    ASSUME PoliteInv, Next, NEW w \in Workers,
           request[w].phase \in {"reading", "writing"}, request'[w] = request[w]
    PROVE  /\ orders'[request[w].order].status = orders[request[w].order].status
           /\ orders'[request[w].order].slot = orders[request[w].order].slot
<1> DEFINE o == request[w].order
<1>1. o \in Orders /\ orders[o].status # "absent" /\ ~ Free(w)
  BY BusyOrder
<1>2. orders \in [Orders -> Row] /\ request \in [Workers -> Request]
  BY DEF PoliteInv, TypeOK
<1>3. ASSUME NEW v \in Workers, NEW p \in Orders, CreateOrderDraft(v, p)
      PROVE  orders'[o] = orders[o]
  BY <1>1, <1>2, <1>3 DEF CreateOrderDraft
<1>4. ASSUME NEW v \in Workers, CommitUpdate(v) PROVE orders'[o] = orders[o]
  <2>1. request'[v] = Idle /\ request[v].phase = "writing"
    BY <1>2, <1>4 DEF CommitUpdate
  <2>2. v # w /\ ~ Free(v)
    BY <1>1, <2>1 DEF Idle, Free
  <2>3. request[v].order # o
    BY <1>1, <2>2 DEF PoliteInv, OneRequestPerOrder
  <2> QED BY <1>1, <1>2, <1>4, <2>3 DEF CommitUpdate
<1>5. ASSUME NEW v \in Workers, NEW a \in Addresses, DeleteAddress(v, a)
      PROVE  orders'[o].status = orders[o].status /\ orders'[o].slot = orders[o].slot
  BY <1>1, <1>2, <1>5 DEF DeleteAddress, Row
<1>6. ASSUME NEW p \in Orders, PickupCodeExpires(p)
      PROVE  orders'[o].status = orders[o].status /\ orders'[o].slot = orders[o].slot
  BY <1>1, <1>2, <1>6 DEF PickupCodeExpires, Row
<1> QED BY <1>3, <1>4, <1>5, <1>6, OthersTouch

\* An UPDATE that books a place was decided on while the place was free.
Justified(o, update) ==
    update.status \in Finalized =>
        /\ update.slot = Keep
        /\ orders[o].status \notin Finalized =>
               Cardinality(Booked(orders[o].slot)) < SlotCapacity(orders[o].slot)

LEMMA DecisionJustified ==
    ASSUME SlotInv, NEW w \in Workers, request[w].phase = "reading",
           \/ UpdateOrderDraft(w)
           \/ \E op \in {"quote", "confirm"} : SlotConflict(w, op)
           \/ QuoteOrder(w)
           \/ ConfirmOrder(w)
    PROVE  \E update : /\ Justified(request[w].order, update)
                       /\ \E op : Decide(w, op, update)
<1> DEFINE o == request[w].order
           copy == request[w].row
<1>1. copy.slot = orders[o].slot
  BY DEF SlotInv
<1>2. CASE UpdateOrderDraft(w)
  <2>1. PICK type \in Services, slot \in Slots, meals \in Meals,
             address \in Addresses \cup {NoAddress} :
           Decide(w, "update", DraftEdit(copy, type, slot, meals, address))
    BY <1>2 DEF UpdateOrderDraft
  <2>2. DraftEdit(copy, type, slot, meals, address).status \in {"draft", Keep}
    BY DEF DraftEdit, NoUpdate, IfChanged
  <2>3. Justified(o, DraftEdit(copy, type, slot, meals, address))
    BY <2>2, FinalizedStatus DEF Justified, Finalized
  <2> QED BY <2>1, <2>3
<1>3. CASE \E op \in {"quote", "confirm"} : SlotConflict(w, op)
  <2>1. ConflictState(copy).status \in {"conflict", Keep}
    BY DEF ConflictState, NoUpdate, IfChanged
  <2>2. Justified(o, ConflictState(copy))
    BY <2>1, FinalizedStatus DEF Justified, Finalized
  <2> QED BY <1>3, <2>2 DEF SlotConflict
<1>4. CASE QuoteOrder(w)
  <2>1. Quote(copy).status \in {"quoted", Keep}
    BY DEF Quote, NoUpdate, IfChanged
  <2>2. Justified(o, Quote(copy))
    BY <2>1, FinalizedStatus DEF Justified, Finalized
  <2> QED BY <1>4, <2>2 DEF QuoteOrder
<1>5. CASE ConfirmOrder(w)
  <2>1. HasCapacityForSlot(o, orders[o].slot)
    BY <1>1, <1>5 DEF ConfirmOrder, Acceptable
  <2>2. Confirmation(copy).slot = Keep
    BY DEF Confirmation, NoUpdate
  <2>3. orders[o].status \notin Finalized => Booked(orders[o].slot) \ {o} = Booked(orders[o].slot)
    BY DEF Booked
  <2>4. Justified(o, Confirmation(copy))
    BY <2>1, <2>2, <2>3 DEF Justified, HasCapacityForSlot
  <2> QED BY <1>5, <2>4 DEF ConfirmOrder
<1> QED BY <1>2, <1>3, <1>4, <1>5

\* The handlers that decide on the row alone book no place.
LEMMA PreparedJustified ==
    ASSUME PoliteInv, NEW w \in Workers, NEW o \in Orders,
           \/ CancelOrder(w, o)
           \/ IssueOrderPickupCode(w, o)
           \/ \E target \in Status : TransitionOrderStatus(w, o, target)
           \/ VerifyPickupCodeAndHandoff(w, o)
    PROVE  \E update : Justified(o, update) /\ Prepare(w, o, update)
<1>1. CASE CancelOrder(w, o)
  <2>1. Cancellation(orders[o]).status = "cancelled"
    BY DEF Cancellation, NoUpdate
  <2>2. Justified(o, Cancellation(orders[o]))
    BY <2>1 DEF Justified, Finalized
  <2> QED BY <1>1, <2>2 DEF CancelOrder
<1>2. CASE IssueOrderPickupCode(w, o)
  <2>1. IssuedCode(orders[o]).status = Keep
    BY DEF IssuedCode, NoUpdate
  <2>2. Justified(o, IssuedCode(orders[o]))
    BY <2>1, FinalizedStatus DEF Justified
  <2> QED BY <1>2, <2>2 DEF IssueOrderPickupCode
<1>3. ASSUME NEW target \in Status, TransitionOrderStatus(w, o, target)
      PROVE  \E update : Justified(o, update) /\ Prepare(w, o, update)
  <2>1. orders[o].status \in Finalized
    BY <1>3 DEF TransitionOrderStatus, FulfillmentTargets, PickupTransitions,
                DeliveryTransitions, Finalized
  <2>2. Transition(orders[o], target).slot = Keep
    BY DEF Transition, NoUpdate
  <2>3. Justified(o, Transition(orders[o], target))
    BY <2>1, <2>2 DEF Justified
  <2> QED BY <1>3, <2>3 DEF TransitionOrderStatus
<1>4. CASE VerifyPickupCodeAndHandoff(w, o)
  <2>1. orders[o].status \in Finalized
    BY <1>4 DEF VerifyPickupCodeAndHandoff, Finalized
  <2>2. HandedOff(orders[o]).slot = Keep
    BY DEF HandedOff, NoUpdate
  <2>3. Justified(o, HandedOff(orders[o]))
    BY <2>1, <2>2 DEF Justified
  <2> QED BY <1>4, <2>3 DEF VerifyPickupCodeAndHandoff
<1> QED BY <1>1, <1>2, <1>3, <1>4

\* What a step may make of a worker's request.
LEMMA RequestStep ==
    ASSUME SlotInv, Next, NEW w \in Workers
    PROVE  \/ request'[w] = request[w]
           \/ request'[w] = Idle
           \/ /\ UNCHANGED orders
              /\ request'[w].phase = "reading"
              /\ request'[w].row = orders[request'[w].order]
           \/ /\ UNCHANGED <<orders, capacity>>
              /\ request'[w].phase = "writing"
              /\ Justified(request'[w].order, request'[w].update)
<1> DEFINE Goal == \/ request'[w] = request[w]
                   \/ request'[w] = Idle
                   \/ /\ UNCHANGED orders
                      /\ request'[w].phase = "reading"
                      /\ request'[w].row = orders[request'[w].order]
                   \/ /\ UNCHANGED <<orders, capacity>>
                      /\ request'[w].phase = "writing"
                      /\ Justified(request'[w].order, request'[w].update)
<1>1. request \in [Workers -> Request]
  BY DEF SlotInv, PoliteInv, TypeOK
<1>2. ASSUME NEW v \in Workers, NEW o \in Orders, NEW op, LoadMutable(v, o, op) PROVE Goal
  BY <1>1, <1>2 DEF LoadMutable
<1>3. ASSUME NEW v \in Workers, NEW op, NEW update, Decide(v, op, update),
             Justified(request[v].order, update)
      PROVE  Goal
  BY <1>1, <1>3 DEF Decide
<1>4. ASSUME NEW v \in Workers, NEW o \in Orders, NEW update, Prepare(v, o, update),
             Justified(o, update)
      PROVE  Goal
  BY <1>1, <1>4 DEF Prepare
<1>5. ASSUME NEW v \in Workers, CommitUpdate(v) \/ AbortRequest(v) PROVE Goal
  BY <1>1, <1>5 DEF CommitUpdate, AbortRequest
<1>6. ASSUME NEW v \in Workers,
             \/ \E o \in Orders : CreateOrderDraft(v, o)
             \/ \E a \in Addresses : \/ CreateAddress(v, a)
                                    \/ DeleteAddress(v, a)
                                    \/ ChangeDeliveryZone(v, a)
             \/ \E s \in Slots, n \in Capacities : UpsertSlotCapacity(v, s, n)
             \/ \E s \in Slots : DeleteSlotCapacity(v, s)
      PROVE  Goal
  BY <1>6 DEF CreateOrderDraft, CreateAddress, DeleteAddress, ChangeDeliveryZone,
              UpsertSlotCapacity, DeleteSlotCapacity
<1>7. ASSUME Clock PROVE Goal
  BY <1>7 DEF Clock, CancellationCutoff, PickupCodeExpires
<1>8. ASSUME NEW v \in Workers,
             \/ UpdateOrderDraft(v)
             \/ \E op \in {"quote", "confirm"} : SlotConflict(v, op)
             \/ QuoteOrder(v)
             \/ ConfirmOrder(v)
      PROVE  Goal
  <2>1. request[v].phase = "reading"
    BY <1>8 DEF UpdateOrderDraft, SlotConflict, QuoteOrder, ConfirmOrder
  <2> QED BY <1>3, <1>8, <2>1, DecisionJustified
<1>9. ASSUME NEW v \in Workers, NEW o \in Orders,
             \/ CancelOrder(v, o)
             \/ IssueOrderPickupCode(v, o)
             \/ \E target \in Status : TransitionOrderStatus(v, o, target)
             \/ VerifyPickupCodeAndHandoff(v, o)
      PROVE  Goal
  BY <1>4, <1>9, PreparedJustified DEF SlotInv
<1> HIDE DEF Goal
<1>10. ASSUME NEW v \in Workers, Customer(v) PROVE Goal
  BY <1>2, <1>6, <1>8, <1>9, <1>10 DEF Customer
<1>11. ASSUME NEW v \in Workers, Staff(v) PROVE Goal
  BY <1>6, <1>9, <1>11 DEF Staff
<1>12. ASSUME NEW v \in Workers, Customer(v) \/ Staff(v) \/ CommitUpdate(v) \/ AbortRequest(v)
       PROVE  Goal
  BY <1>5, <1>10, <1>11, <1>12
<1>13. Goal
  BY <1>7, <1>12 DEF Next
<1> QED BY <1>13 DEF Goal

LEMMA SlotInvStep ==
    ASSUME SlotInv, [Next /\ OneRequestPerOrder']_vars
    PROVE  SlotInv'
<1>1. PoliteInv'
  BY PoliteStep DEF SlotInv
<1>2. CASE UNCHANGED vars
  BY <1>1, <1>2 DEF SlotInv, vars
<1>3. ASSUME Next, NEW w \in Workers
      PROVE  /\ request'[w].phase = "reading" =>
                    request'[w].row.slot = orders'[request'[w].order].slot
             /\ request'[w].phase = "writing" /\ request'[w].update.status \in Finalized =>
                    request'[w].update.slot = Keep
  <2>1. CASE request'[w] = request[w]
    BY <1>3, <2>1, OrderKept DEF SlotInv
  <2>2. CASE request'[w] # request[w]
    BY <1>3, <2>2, RequestStep DEF Justified, Idle
  <2> QED BY <2>1, <2>2
<1> QED BY <1>1, <1>2, <1>3 DEF SlotInv

LEMMA SlotInvInit == Init => SlotInv
BY PoliteInit DEF Init, SlotInv, Idle

\* Whoever is about to book was already, or has just found the place free.
LEMMA BooksStep ==
    ASSUME SlotInv, Next, NEW w \in Workers, NEW s, Books(w, s)'
    PROVE  \/ Books(w, s)
           \/ UNCHANGED <<orders, capacity>> /\ Cardinality(Booked(s)) < SlotCapacity(s)
<1>1. CASE request'[w] = request[w]
  BY <1>1, OrderKept DEF SlotInv, Books
<1>2. CASE request'[w] # request[w]
  <2>1. /\ UNCHANGED <<orders, capacity>>
        /\ Justified(request'[w].order, request'[w].update)
    BY <1>2, RequestStep DEF Books, Idle
  <2> QED BY <2>1 DEF Books, Justified
<1> QED BY <1>1, <1>2

\* The orders that gave their place up, or never had one.
Gone == {o \in Orders : orders[o].status = "cancelled"}

\* Only the end of a request changes who holds a place.
LEMMA PlacesKept ==
    ASSUME PoliteInv, Next, \A w \in Workers : ~ CommitUpdate(w)
    PROVE  (\A s \in Slots : Booked(s)' = Booked(s)) /\ Gone' = Gone
<1>1. orders \in [Orders -> Row]
  BY DEF PoliteInv, TypeOK
<1>2. ASSUME NEW o \in Orders
      PROVE  \/ orders[o].status = "absent" /\ orders'[o].status = "draft"
             \/ /\ orders'[o].status = orders[o].status
                /\ orders'[o].slot = orders[o].slot
  <2>1. ASSUME NEW w \in Workers, NEW p \in Orders, CreateOrderDraft(w, p)
        PROVE  \/ orders[o].status = "absent" /\ orders'[o].status = "draft"
               \/ orders'[o] = orders[o]
    <3>1. PICK type \in Services, slot \in Slots, meals \in Meals,
               address \in Addresses \cup {NoAddress} :
             orders' = [orders EXCEPT ![p] = NewDraft(type, slot, meals, address)]
      BY <2>1 DEF CreateOrderDraft
    <3>2. NewDraft(type, slot, meals, address).status = "draft"
      BY DEF NewDraft, NoOrder
    <3> QED BY <1>1, <2>1, <3>1, <3>2 DEF CreateOrderDraft
  <2>2. ASSUME NEW w \in Workers, NEW a \in Addresses, DeleteAddress(w, a)
        PROVE  orders'[o].status = orders[o].status /\ orders'[o].slot = orders[o].slot
    BY <1>1, <2>2 DEF DeleteAddress, Row
  <2>3. ASSUME NEW p \in Orders, PickupCodeExpires(p)
        PROVE  orders'[o].status = orders[o].status /\ orders'[o].slot = orders[o].slot
    BY <1>1, <2>3 DEF PickupCodeExpires, Row
  <2> QED BY <2>1, <2>2, <2>3, OthersTouch
<1>3. ASSUME NEW o \in Orders
      PROVE  /\ (orders'[o].status \in Finalized) = (orders[o].status \in Finalized)
             /\ (orders'[o].status = "cancelled") = (orders[o].status = "cancelled")
             /\ orders[o].status \in Finalized => orders'[o].slot = orders[o].slot
  <2>1. CASE orders[o].status = "absent" /\ orders'[o].status = "draft"
    BY <2>1 DEF Finalized
  <2> QED BY <1>2, <2>1
<1>4. ASSUME NEW s \in Slots PROVE Booked(s)' = Booked(s)
  <2>1. \A o \in Orders : (orders'[o].status \in Finalized /\ orders'[o].slot = s)
                            <=> (orders[o].status \in Finalized /\ orders[o].slot = s)
    BY <1>3
  <2> QED BY <2>1 DEF Booked
<1>5. Gone' = Gone
  BY <1>3 DEF Gone
<1> QED BY <1>4, <1>5

\* An accepted order keeps its place until it is cancelled; a cancelled one
\* gets none again.
LEMMA LifecyclePlaces ==
    ASSUME NEW type, NEW status, NEW target \in Lifecycle(type, status)
    PROVE  /\ status \in Finalized => target \in Finalized \cup {"cancelled"}
           /\ status # "cancelled"
BY DEF Lifecycle, Finalized, Mutable, FulfillmentTargets, PickupTransitions,
       DeliveryTransitions

\* Two sets that agree on everything but one element.
LEMMA SameBut ==
    ASSUME NEW A, NEW B, NEW x, A \ {x} = B \ {x}
    PROVE  /\ (x \in A <=> x \in B) => A = B
           /\ x \notin A => A = B \ {x}
           /\ x \in A => A = B \cup {x}
<1>1. \A y : y # x => (y \in A <=> y \in B)
  OBVIOUS
<1> QED BY <1>1

\* What the end of a request does to the places: nothing, or the order takes a
\* place it was about to book, or it gives its place up.
LEMMA CommitPlaces ==
    ASSUME SlotInv, NEW w \in Workers, CommitUpdate(w)
    PROVE  /\ request[w].order \in Orders
           /\ \/ (\A s \in Slots : Booked(s)' = Booked(s)) /\ Gone' = Gone
              \/ \E t \in Slots :
                    /\ Books(w, t)
                    /\ \A s \in Slots : request[w].order \notin Booked(s)
                    /\ request[w].order \notin Gone
                    /\ Booked(t)' = Booked(t) \cup {request[w].order}
                    /\ \A s \in Slots \ {t} : Booked(s)' = Booked(s)
                    /\ Gone' = Gone
              \/ /\ \A s \in Slots : Booked(s)' = Booked(s) \ {request[w].order}
                 /\ Gone' = Gone \cup {request[w].order}
<1> DEFINE o == request[w].order
           u == request[w].update
<1>1. request[w].phase = "writing"
  BY DEF CommitUpdate
<1>2. o \in Orders /\ orders[o] \in Row
  BY <1>1, BusyOrder DEF SlotInv
<1>3. orders \in [Orders -> Row]
  BY DEF SlotInv, PoliteInv, TypeOK
<1>4. /\ orders'[o] = Flush(orders[o], u)
      /\ \A p \in Orders \ {o} : orders'[p] = orders[p]
  BY <1>2, <1>3 DEF CommitUpdate
<1>5. UpdateAllowed(orders[o], u)
  BY <1>1 DEF SlotInv, PoliteInv
<1>6. /\ orders'[o].status = Assign(orders[o].status, u.status)
      /\ orders'[o].slot = Assign(orders[o].slot, u.slot)
  BY <1>4, FlushColumns
<1>7. /\ \A s \in Slots : Booked(s)' \ {o} = Booked(s) \ {o}
      /\ Gone' \ {o} = Gone \ {o}
  BY <1>4 DEF Booked, Gone
<1>8. /\ \A s : o \in Booked(s) <=> orders[o].status \in Finalized /\ orders[o].slot = s
      /\ \A s : o \in Booked(s)' <=> orders'[o].status \in Finalized /\ orders'[o].slot = s
      /\ o \in Gone <=> orders[o].status = "cancelled"
      /\ o \in Gone' <=> orders'[o].status = "cancelled"
  BY <1>2 DEF Booked, Gone
<1>9. /\ "cancelled" \notin Finalized
      /\ orders[o].slot \in Slots
  BY <1>2 DEF Finalized, Row
<1> HIDE DEF o, u
<1>10. CASE orders'[o].status = orders[o].status
  <2>1. orders[o].status \in Finalized => orders'[o].slot = orders[o].slot
    BY <1>5, <1>6 DEF UpdateAllowed, Assign
  <2>2. \A s \in Slots : Booked(s)' = Booked(s)
    <3>1. \A s \in Slots : o \in Booked(s)' <=> o \in Booked(s)
      BY <1>8, <1>10, <2>1
    <3> QED BY <1>7, <3>1, SameBut
  <2>3. Gone' = Gone
    BY <1>7, <1>8, <1>10, SameBut
  <2> QED BY <1>2, <2>2, <2>3 DEF o
<1>11. CASE orders'[o].status # orders[o].status
  <2>1. /\ orders'[o].status = u.status /\ u.status # Keep
        /\ u.status \in Lifecycle(orders[o].type, orders[o].status)
    BY <1>5, <1>6, <1>11 DEF UpdateAllowed, Assign
  <2>2. /\ orders[o].status \in Finalized => orders'[o].status \in Finalized \cup {"cancelled"}
        /\ orders[o].status # "cancelled"
    BY <2>1, LifecyclePlaces
  <2>3. CASE orders'[o].status = "cancelled"
    <3>1. \A s \in Slots : Booked(s)' = Booked(s) \ {o}
      <4>1. \A s \in Slots : o \notin Booked(s)'
        BY <1>8, <1>9, <2>3
      <4> QED BY <1>7, <4>1, SameBut
    <3>2. Gone' = Gone \cup {o}
      BY <1>7, <1>8, <2>3, SameBut
    <3> QED BY <1>2, <3>1, <3>2 DEF o
  <2>4. CASE orders'[o].status \in Finalized /\ orders[o].status \in Finalized
    <3>1. orders'[o].slot = orders[o].slot
      BY <1>5, <1>6, <2>4 DEF UpdateAllowed, Assign
    <3>2. \A s \in Slots : Booked(s)' = Booked(s)
      <4>1. \A s \in Slots : o \in Booked(s)' <=> o \in Booked(s)
        BY <1>8, <2>4, <3>1
      <4> QED BY <1>7, <4>1, SameBut
    <3>3. Gone' = Gone
      <4>1. o \in Gone' <=> o \in Gone
        BY <1>8, <1>9, <2>4
      <4> QED BY <1>7, <4>1, SameBut
    <3> QED BY <1>2, <3>2, <3>3 DEF o
  <2>5. CASE orders'[o].status \in Finalized /\ orders[o].status \notin Finalized
    <3>0. PICK t \in Slots : t = orders[o].slot
      BY <1>9
    <3>1. orders'[o].slot = t
      BY <1>1, <1>6, <2>1, <2>5, <3>0 DEF SlotInv, Assign, u
    <3>2. Books(w, t)
      BY <1>1, <2>1, <2>5, <3>0 DEF Books, o, u
    <3>3. \A s \in Slots : o \notin Booked(s)
      BY <1>8, <2>5
    <3>4. o \notin Gone /\ Gone' = Gone
      <4>1. o \notin Gone /\ o \notin Gone'
        BY <1>8, <1>9, <2>2, <2>5
      <4> QED BY <1>7, <4>1, SameBut
    <3>5. o \in Booked(t)' /\ \A s \in Slots \ {t} : o \notin Booked(s)' /\ o \notin Booked(s)
      BY <1>8, <2>5, <3>0, <3>1
    <3>6. Booked(t)' = Booked(t) \cup {o}
      BY <1>7, <3>5, SameBut
    <3>7. \A s \in Slots \ {t} : Booked(s)' = Booked(s)
      BY <1>7, <3>5, SameBut
    <3> QED BY <1>2, <3>2, <3>3, <3>4, <3>6, <3>7 DEF o
  <2>6. CASE orders'[o].status \notin Finalized \cup {"cancelled"}
    <3>1. \A s \in Slots : Booked(s)' = Booked(s)
      <4>1. \A s \in Slots : o \notin Booked(s)' /\ o \notin Booked(s)
        BY <1>8, <2>2, <2>6
      <4> QED BY <1>7, <4>1, SameBut
    <3>2. Gone' = Gone
      <4>1. o \notin Gone /\ o \notin Gone'
        BY <1>8, <2>2, <2>6
      <4> QED BY <1>7, <4>1, SameBut
    <3> QED BY <1>2, <3>1, <3>2 DEF o
  <2> QED BY <2>3, <2>4, <2>5, <2>6
<1> QED BY <1>10, <1>11

-----------------------------------------------------------------------------
(* How far overlapping requests overbook a slot.                           *)

\* The requests about to book a place of the slot.
Bookers(s) == {w \in Workers : Books(w, s)}

\* With the limits staff leave alone, RoomLeft is inductive: a decision is made
\* with a place free, and a commit turns a decision into a booking.
LEMMA RoomStep ==
    ASSUME SlotInv, RoomLeft, Next, Capacities = {}, DefaultSlotCapacity \in Nat,
           IsFiniteSet(Orders), IsFiniteSet(Workers), SlotInv'
    PROVE  RoomLeft'
<1> SUFFICES ASSUME NEW s \in Slots
             PROVE  Cardinality(Booked(s)') + Cardinality(Bookers(s)')
                        <= DefaultSlotCapacity + Cardinality(Workers) - 1
  BY DEF RoomLeft, Bookers
<1>1. Cardinality(Booked(s)) + Cardinality(Bookers(s))
        <= DefaultSlotCapacity + Cardinality(Workers) - 1
  BY DEF RoomLeft, Bookers
<1>2. /\ IsFiniteSet(Booked(s)) /\ IsFiniteSet(Booked(s)')
      /\ IsFiniteSet(Bookers(s)) /\ IsFiniteSet(Bookers(s)')
      /\ Cardinality(Bookers(s)') <= Cardinality(Workers)
  <2>1. Booked(s) \subseteq Orders /\ Booked(s)' \subseteq Orders
    BY DEF Booked
  <2>2. Bookers(s) \subseteq Workers /\ Bookers(s)' \subseteq Workers
    BY DEF Bookers
  <2> QED BY <2>1, <2>2, FS_Subset
<1>3. /\ Cardinality(Booked(s)) \in Nat /\ Cardinality(Booked(s)') \in Nat
      /\ Cardinality(Bookers(s)) \in Nat /\ Cardinality(Bookers(s)') \in Nat
      /\ Cardinality(Workers) \in Nat
  BY <1>2, FS_CardinalityType
<1>4. SlotCapacity(s) = DefaultSlotCapacity
  BY DEF SlotInv, PoliteInv, TypeOK, SlotCapacity
<1>5. CASE ~ (Bookers(s)' \subseteq Bookers(s))
  <2>1. PICK w \in Workers : Books(w, s)' /\ ~ Books(w, s)
    BY <1>5 DEF Bookers
  <2>2. UNCHANGED orders /\ Cardinality(Booked(s)) < DefaultSlotCapacity
    BY <1>4, <2>1, BooksStep
  <2>3. Booked(s)' = Booked(s)
    BY <2>2 DEF Booked
  <2> QED BY <1>2, <1>3, <2>2, <2>3
<1>6. CASE Bookers(s)' \subseteq Bookers(s) /\ Booked(s)' \subseteq Booked(s)
  <2>1. /\ Cardinality(Booked(s)') <= Cardinality(Booked(s))
        /\ Cardinality(Bookers(s)') <= Cardinality(Bookers(s))
    BY <1>2, <1>6, FS_Subset
  <2> QED BY <1>1, <1>3, <2>1
<1>7. CASE Bookers(s)' \subseteq Bookers(s) /\ ~ (Booked(s)' \subseteq Booked(s))
  <2>1. PICK w \in Workers : CommitUpdate(w)
    BY <1>7, PlacesKept DEF SlotInv
  <2>2. Books(w, s) /\ Booked(s)' = Booked(s) \cup {request[w].order}
    BY <1>7, <2>1, CommitPlaces
  <2>3. ~ Books(w, s)'
    BY <2>1 DEF Books, CommitUpdate, SlotInv, PoliteInv, TypeOK, Idle
  <2>4. w \in Bookers(s) /\ Bookers(s)' \subseteq Bookers(s) \ {w}
    BY <1>7, <2>2, <2>3 DEF Bookers
  <2>5. Cardinality(Bookers(s)') <= Cardinality(Bookers(s)) - 1
    <3>1. /\ IsFiniteSet(Bookers(s) \ {w})
          /\ Cardinality(Bookers(s) \ {w}) = Cardinality(Bookers(s)) - 1
      BY <1>2, <2>4, FS_RemoveElement
    <3> QED BY <2>4, <3>1, FS_Subset
  <2>6. Cardinality(Booked(s)') <= Cardinality(Booked(s)) + 1
    <3>1. Cardinality(Booked(s) \cup {request[w].order}) <= Cardinality(Booked(s)) + 1
      <4>1. Cardinality(Booked(s) \cup {request[w].order})
              \in {Cardinality(Booked(s)), Cardinality(Booked(s)) + 1}
        BY <1>2, FS_AddElement
      <4> QED BY <1>3, <4>1
    <3> QED BY <2>2, <3>1
  <2> QED BY <1>1, <1>3, <2>5, <2>6
<1> QED BY <1>5, <1>6, <1>7

\* Without two overlapping requests on one order and with limits that staff
\* leave alone, a slot is overbooked by no more than the number of other
\* workers: a confirmation checks the limit before it commits.
THEOREM OverbookingSafe ==
    /\ Capacities = {}
    /\ IsFiniteSet(Orders)
    /\ IsFiniteSet(Workers) /\ Workers # {}
    => (PoliteSpec => []OverbookingBounded)
<1> SUFFICES ASSUME Capacities = {}, IsFiniteSet(Orders), IsFiniteSet(Workers), Workers # {}
             PROVE  PoliteSpec => []OverbookingBounded
  OBVIOUS
<1>1. Cardinality(Workers) \in Nat /\ Cardinality(Workers) >= 1
  <2>1. Cardinality(Workers) \in Nat /\ Cardinality(Workers) # 0
    BY FS_CardinalityType, FS_EmptySet
  <2> QED BY <2>1
<1>2. DefaultSlotCapacity \in Nat
  BY CapacitiesAssumption
<1>3. Init => SlotInv /\ RoomLeft
  <2> SUFFICES ASSUME Init PROVE RoomLeft
    BY SlotInvInit
  <2>1. \A s : Booked(s) = {}
    BY DEF Init, Booked, NoOrder, Finalized
  <2>2. \A s : {w \in Workers : Books(w, s)} = {}
    BY DEF Init, Books, Idle
  <2>3. Cardinality({}) = 0
    BY FS_EmptySet
  <2>4. 0 + 0 <= DefaultSlotCapacity + Cardinality(Workers) - 1
    BY <1>1, <1>2
  <2> QED BY <2>1, <2>2, <2>3, <2>4 DEF RoomLeft
<1>4. SlotInv /\ RoomLeft /\ [Next /\ OneRequestPerOrder']_vars => SlotInv' /\ RoomLeft'
  <2> SUFFICES ASSUME SlotInv, RoomLeft, [Next /\ OneRequestPerOrder']_vars
               PROVE  SlotInv' /\ RoomLeft'
    OBVIOUS
  <2>1. SlotInv'
    BY SlotInvStep
  <2>2. CASE UNCHANGED vars
    BY <2>1, <2>2 DEF vars, RoomLeft, Booked, Books
  <2>3. CASE Next
    BY <1>2, <2>1, <2>3, RoomStep
  <2> QED BY <2>1, <2>2, <2>3
<1>5. SlotInv /\ RoomLeft => OverbookingBounded
  <2> SUFFICES ASSUME SlotInv, RoomLeft, NEW s \in Slots
               PROVE  Cardinality(Booked(s)) <= SlotCapacity(s) + Cardinality(Workers) - 1
    BY DEF OverbookingBounded
  <2>1. SlotCapacity(s) = DefaultSlotCapacity
    BY DEF SlotInv, PoliteInv, TypeOK, SlotCapacity
  <2>2. IsFiniteSet(Booked(s)) /\ IsFiniteSet({w \in Workers : Books(w, s)})
    <3>1. Booked(s) \subseteq Orders /\ {w \in Workers : Books(w, s)} \subseteq Workers
      BY DEF Booked
    <3> QED BY <3>1, FS_Subset
  <2>3. /\ Cardinality(Booked(s)) \in Nat
        /\ Cardinality({w \in Workers : Books(w, s)}) \in Nat
    BY <2>2, FS_CardinalityType
  <2> QED BY <1>1, <1>2, <2>1, <2>3 DEF RoomLeft
<1> QED BY <1>3, <1>4, <1>5, PTL DEF PoliteSpec

-----------------------------------------------------------------------------
(* One request at a time, the table implements SlotBooking.                *)

\* A single worker, as an assumption about the instance.
OneWorker == \E w : Workers = {w}

LEMMA AlonePolite ==
    ASSUME OneWorker, [Next]_vars
    PROVE  [Next /\ OneRequestPerOrder']_vars
BY DEF OneWorker, OneRequestPerOrder

\* Nothing happens to a single worker's slot between its decision and the end
\* of its request.
LEMMA PlaceFreeStep ==
    ASSUME OneWorker, SlotInv, PlaceFree, Next
    PROVE  PlaceFree'
<1> SUFFICES ASSUME NEW w \in Workers, NEW s \in Slots, Books(w, s)'
             PROVE  Cardinality(Booked(s)') < SlotCapacity(s)'
  BY DEF PlaceFree
<1>1. CASE UNCHANGED <<orders, capacity>> /\ Cardinality(Booked(s)) < SlotCapacity(s)
  BY <1>1 DEF Booked, SlotCapacity
<1>2. CASE Books(w, s)
  <2>1. ~ Free(w) /\ Workers = {w} /\ Cardinality(Booked(s)) < SlotCapacity(s)
    BY <1>2 DEF Free, Idle, Books, OneWorker, PlaceFree
  <2>2. ~ CommitUpdate(w)
    BY DEF Books, CommitUpdate, SlotInv, PoliteInv, TypeOK, Idle
  <2>3. Booked(s)' = Booked(s)
    BY <2>1, <2>2, PlacesKept DEF SlotInv
  <2>4. UNCHANGED capacity
    <3>1. ASSUME Customer(w) PROVE UNCHANGED capacity
      BY <3>1 DEF Customer, CreateOrderDraft, LoadMutable, UpdateOrderDraft, SlotConflict,
                  QuoteOrder, ConfirmOrder, Decide, CancelOrder, IssueOrderPickupCode,
                  Prepare, CreateAddress, DeleteAddress
    <3>2. ~ Staff(w)
      BY <2>1 DEF Staff, TransitionOrderStatus, VerifyPickupCodeAndHandoff, Prepare,
                  UpsertSlotCapacity, DeleteSlotCapacity, ChangeDeliveryZone
    <3>3. ASSUME Clock PROVE UNCHANGED capacity
      BY <3>3 DEF Clock, CancellationCutoff, PickupCodeExpires
    <3>4. ASSUME AbortRequest(w) PROVE UNCHANGED capacity
      BY <3>4 DEF AbortRequest
    <3> QED BY <2>1, <2>2, <3>1, <3>2, <3>3, <3>4 DEF Next
  <2> QED BY <2>1, <2>3, <2>4 DEF SlotCapacity
<1> QED BY <1>1, <1>2, BooksStep

\* What a request does to the limits, if anything.
LEMMA LimitStep ==
    ASSUME SlotInv, Next
    PROVE  \/ UNCHANGED capacity
           \/ /\ \A w \in Workers : ~ CommitUpdate(w)
              /\ \E s \in Slots, n \in Capacities \cup {NoRow} :
                    capacity' = [capacity EXCEPT ![s] = n]
<1>1. ASSUME NEW w \in Workers, Customer(w) PROVE UNCHANGED capacity
  BY <1>1 DEF Customer, CreateOrderDraft, LoadMutable, UpdateOrderDraft, SlotConflict,
              QuoteOrder, ConfirmOrder, Decide, CancelOrder, IssueOrderPickupCode, Prepare,
              CreateAddress, DeleteAddress
<1>2. ASSUME NEW w \in Workers, Staff(w)
      PROVE  \/ UNCHANGED capacity
             \/ \E s \in Slots, n \in Capacities \cup {NoRow} :
                   capacity' = [capacity EXCEPT ![s] = n]
  BY <1>2 DEF Staff, TransitionOrderStatus, VerifyPickupCodeAndHandoff, Prepare,
              UpsertSlotCapacity, DeleteSlotCapacity, ChangeDeliveryZone
<1>3. ASSUME Clock PROVE UNCHANGED capacity
  BY <1>3 DEF Clock, CancellationCutoff, PickupCodeExpires
<1>4. ASSUME NEW w \in Workers, CommitUpdate(w) \/ AbortRequest(w) PROVE UNCHANGED capacity
  BY <1>4 DEF CommitUpdate, AbortRequest
<1> QED BY <1>1, <1>2, <1>3, <1>4 DEF Next

\* SlotBooking counts as the handlers do.
LEMMA SameCount == \A S : Booking!Cardinality(S) = Cardinality(S)
BY DEF Booking!Cardinality, Cardinality

\* A step of the handlers is a step of SlotBooking, or none.
LEMMA BookingStep ==
    ASSUME SlotInv, PlaceFree, Next
    PROVE  [Booking!Next]_Booking!vars
<1>1. ASSUME NEW s \in Slots, NEW n \in Capacities \cup {NoRow},
             \A w \in Workers : ~ CommitUpdate(w), capacity' = [capacity EXCEPT ![s] = n]
      PROVE  Booking!Next
  <2>1. PICK m \in Capacities \cup {DefaultSlotCapacity} :
          m = IF n = NoRow THEN DefaultSlotCapacity ELSE n
    BY NullsAssumption
  <2>2. capacity \in [Slots -> Capacities \cup {NoRow}]
    BY DEF SlotInv, PoliteInv, TypeOK
  <2>3. SlotCapacity(s)' = m /\ \A t \in Slots \ {s} : SlotCapacity(t)' = SlotCapacity(t)
    BY <1>1, <2>1, <2>2 DEF SlotCapacity
  <2>4. [t \in Slots |-> SlotCapacity(t)]' = [[t \in Slots |-> SlotCapacity(t)] EXCEPT ![s] = m]
    BY <2>3
  <2>5. (\A t \in Slots : Booked(t)' = Booked(t)) /\ Gone' = Gone
    BY <1>1, PlacesKept DEF SlotInv
  <2>6. Booking!SetLimit(s, m)
    BY <2>4, <2>5 DEF Booking!SetLimit, Gone
  <2> QED BY <2>6 DEF Booking!Next
<1>2. CASE UNCHANGED capacity /\ \A w \in Workers : ~ CommitUpdate(w)
  <2>1. (\A t \in Slots : Booked(t)' = Booked(t)) /\ Gone' = Gone
    BY <1>2, PlacesKept DEF SlotInv
  <2>2. \A t \in Slots : SlotCapacity(t)' = SlotCapacity(t)
    BY <1>2 DEF SlotCapacity
  <2> QED BY <2>1, <2>2 DEF Booking!vars, Gone
<1>3. ASSUME NEW w \in Workers, CommitUpdate(w) PROVE [Booking!Next]_Booking!vars
  <2>1. PICK o \in Orders : o = request[w].order
    BY <1>3, CommitPlaces
  <2>2. \A t \in Slots : SlotCapacity(t)' = SlotCapacity(t)
    BY <1>3 DEF CommitUpdate, SlotCapacity
  <2>3. CASE (\A s \in Slots : Booked(s)' = Booked(s)) /\ Gone' = Gone
    BY <2>2, <2>3 DEF Booking!vars, Gone
  <2>4. CASE /\ \A s \in Slots : Booked(s)' = Booked(s) \ {o}
             /\ Gone' = Gone \cup {o}
    <3>1. Booking!GiveUp(o)
      BY <2>2, <2>4 DEF Booking!GiveUp, Gone
    <3> QED BY <3>1 DEF Booking!Next
  <2>5. ASSUME NEW t \in Slots, Books(w, t), \A s \in Slots : o \notin Booked(s), o \notin Gone,
               Booked(t)' = Booked(t) \cup {o},
               \A s \in Slots \ {t} : Booked(s)' = Booked(s), Gone' = Gone
        PROVE  Booking!Next
    <3>1. Cardinality(Booked(t)) < SlotCapacity(t)
      BY <2>5 DEF PlaceFree
    <3>2. [s \in Slots |-> Booked(s)]'
            = [[s \in Slots |-> Booked(s)] EXCEPT ![t] = Booked(t) \cup {o}]
      BY <2>5
    <3>3. Gone' = Gone /\ [s \in Slots |-> SlotCapacity(s)]' = [s \in Slots |-> SlotCapacity(s)]
      BY <2>2, <2>5
    <3>4. Booking!Book(o, t)
      BY <2>5, <3>1, <3>2, <3>3, SameCount DEF Booking!Book, Gone
    <3> QED BY <3>4 DEF Booking!Next
  <2> QED BY <1>3, <2>1, <2>3, <2>4, <2>5, CommitPlaces
<1> QED BY <1>1, <1>2, <1>3, LimitStep

\* Handled one request at a time, the orders table is a SlotBooking: every
\* order that counts took a place that was free, keeps it in its slot until it
\* is cancelled, and never gets one again (confirm_order, cancel_order).
THEOREM ImplementsBooking == OneWorker => (Spec => ImplementsSlotBooking)
<1> SUFFICES ASSUME OneWorker PROVE Spec => ImplementsSlotBooking
  OBVIOUS
<1>1. Init => SlotInv /\ PlaceFree
  BY SlotInvInit DEF Init, PlaceFree, Books, Idle
<1>2. Init => Booking!Init
  <2> SUFFICES ASSUME Init PROVE Booking!Init
    OBVIOUS
  <2>1. \A s : Booked(s) = {}
    BY DEF Init, Booked, NoOrder, Finalized
  <2>2. {o \in Orders : orders[o].status = "cancelled"} = {}
    BY DEF Init, NoOrder
  <2>3. \A s \in Slots : SlotCapacity(s) = DefaultSlotCapacity
    BY DEF Init, SlotCapacity
  <2> QED BY <2>1, <2>2, <2>3 DEF Booking!Init
<1>3. SlotInv /\ PlaceFree /\ [Next]_vars => SlotInv' /\ PlaceFree'
  <2> SUFFICES ASSUME SlotInv, PlaceFree, [Next]_vars PROVE SlotInv' /\ PlaceFree'
    OBVIOUS
  <2>1. SlotInv'
    BY AlonePolite, SlotInvStep
  <2>2. CASE UNCHANGED vars
    BY <2>1, <2>2 DEF vars, PlaceFree, Booked, Books, SlotCapacity
  <2>3. CASE Next
    BY <2>1, <2>3, PlaceFreeStep
  <2> QED BY <2>2, <2>3
<1>4. SlotInv /\ PlaceFree /\ [Next]_vars => [Booking!Next]_Booking!vars
  <2> SUFFICES ASSUME SlotInv, PlaceFree, [Next]_vars PROVE [Booking!Next]_Booking!vars
    OBVIOUS
  <2>1. CASE UNCHANGED vars
    BY <2>1 DEF vars, Booking!vars, Booked, SlotCapacity
  <2>2. CASE Next
    BY <2>2, BookingStep
  <2> QED BY <2>1, <2>2
<1> QED BY <1>1, <1>2, <1>3, <1>4, PTL DEF Spec, ImplementsSlotBooking, Booking!Spec

=============================================================================
