------------------------------ MODULE Ordering ------------------------------
(***************************************************************************)
(* The orders table and the request handlers that write it:                *)
(* api/app/api/routes/ordering.py, api/app/api/routes/fulfillment.py and   *)
(* the rules of api/app/orders/engine.py.                                  *)
(*                                                                         *)
(* Handlers are synchronous, run on a thread pool and share nothing but    *)
(* the database.  Each has a session of its own: it SELECTs the order,     *)
(* decides on that copy, and at the end UPDATEs the columns whose value    *)
(* differs from the copy.  There is no row lock and no version column, and *)
(* the isolation level is READ COMMITTED, so whatever was committed        *)
(* between the SELECT and the UPDATE is neither seen nor protected.        *)
(* A handler is therefore up to three steps here: Load (SELECT and the     *)
(* checks on the copy), Decide (the checks that read other tables), and    *)
(* CommitUpdate.  With one worker the three steps of a request follow each *)
(* other and the system is serial.                                         *)
(*                                                                         *)
(* Left out: totals, fees, ETA minutes and audit rows, which no guard of   *)
(* these handlers reads, and the wording of reasons.                       *)
(*                                                                         *)
(* An operator whose comment starts with "Faulty variant" is a bug put in  *)
(* on purpose, to see that a property notices it; Spec never uses it.      *)
(***************************************************************************)
EXTENDS Integers, FiniteSets, OrderRules

CONSTANTS
    Orders,                  \* ids of the order rows that can be inserted
    Slots,                   \* aligned 15-minute slots
    Addresses,               \* ids of the address book entries
    Services,                \* the order types customers use
    Meals,                   \* how many meals the lines of an order add up to
    Capacities,              \* the capacities staff may configure
    DefaultSlotCapacity,     \* DEFAULT_SLOT_CAPACITY
    Workers,                 \* the threads that run requests
    NoAddress,               \* NULL in address_book_entry_id
    NoRow,                   \* no slot_capacities row for a slot
    Keep                     \* a column an UPDATE leaves out of its SET list

ASSUME ServicesAssumption == Services \subseteq Service

ASSUME CapacitiesAssumption ==
    /\ Capacities \subseteq Nat
    /\ DefaultSlotCapacity \in Nat

ASSUME SlotsAssumption == Slots # {} /\ Meals # {}

ASSUME NullsAssumption ==
    /\ NoAddress \notin Addresses
    /\ NoRow \notin Nat
    /\ Keep \notin Status \cup Service
    /\ Keep \notin Slots
    /\ Keep \notin Meals
    /\ Keep \notin Addresses \cup {NoAddress}
    /\ Keep \notin {"none", "set", "early", "fresh", "expired"}

VARIABLES
    orders,     \* the orders table: [Orders -> Row]
    late,       \* the orders whose confirmed_at is six hours old or older
    capacity,   \* the slot_capacities table
    book,       \* the address book entries that exist
    served,     \* the addresses whose ZIP has an active delivery zone
    request     \* what each worker is in the middle of

vars == <<orders, late, capacity, book, served, request>>

-----------------------------------------------------------------------------
(* Rows, UPDATE statements and requests.                                   *)

\* pickup_code_hash, _expires_at and _rotated_at together: none, or a code
\* issued before (early) or after (fresh) the order became ready, or a code
\* past its expiry.
CodeState == {"none", "early", "fresh", "expired"}

\* One row of orders.  stamps is the set of non-null timestamp columns.
Row == [status : Status, type : Service, slot : Slots, meals : Meals,
        address : Addresses \cup {NoAddress}, quote : {"none", "set"},
        code : CodeState, stamps : SUBSET Stamp]

\* One UPDATE of a row: a value for each column of its SET list, Keep for the
\* others, and the timestamp columns it fills.
Update == [status : Status \cup {Keep}, type : Service \cup {Keep},
           slot : Slots \cup {Keep}, meals : Meals \cup {Keep},
           address : Addresses \cup {NoAddress, Keep},
           quote : {"none", "set", Keep}, code : CodeState \cup {Keep},
           stamps : SUBSET Stamp]

\* A worker reads (it holds a copy of the row), writes (its UPDATE is
\* decided) or has no request.
Reading == [phase : {"reading"}, op : {"update", "quote", "confirm"},
            order : Orders, row : Row]
Writing == [phase : {"writing"}, order : Orders, update : Update]
Idle == [phase |-> "idle"]
Request == {Idle} \cup Reading \cup Writing

NoOrder == [status |-> "absent", type |-> "pickup", slot |-> CHOOSE s \in Slots : TRUE,
            meals |-> CHOOSE m \in Meals : TRUE, address |-> NoAddress,
            quote |-> "none", code |-> "none", stamps |-> {}]

NoUpdate == [status |-> Keep, type |-> Keep, slot |-> Keep, meals |-> Keep,
             address |-> Keep, quote |-> Keep, code |-> Keep, stamps |-> {}]

\* An assignment of the value the copy already holds changes nothing, and the
\* column stays out of the UPDATE.
IfChanged(loaded, value) == IF value = loaded THEN Keep ELSE value

Assign(column, value) == IF value = Keep THEN column ELSE value

\* The row after an UPDATE that was computed from some earlier copy of it.
Flush(row, update) ==
    [status  |-> Assign(row.status, update.status),
     type    |-> Assign(row.type, update.type),
     slot    |-> Assign(row.slot, update.slot),
     meals   |-> Assign(row.meals, update.meals),
     address |-> Assign(row.address, update.address),
     quote   |-> Assign(row.quote, update.quote),
     code    |-> Assign(row.code, update.code),
     stamps  |-> row.stamps \cup update.stamps]

-----------------------------------------------------------------------------
(* Helpers of engine.py.                                                   *)

SlotCapacity(s) == IF capacity[s] = NoRow THEN DefaultSlotCapacity ELSE capacity[s]

\* The orders that occupy a place of the slot: get_confirmed_count_for_slot
\* counts orders, whatever the number of meals in them.
Booked(s) == {o \in Orders : orders[o].status \in Finalized /\ orders[o].slot = s}

\* Faulty variant of HasCapacityForSlot: off by one.
HasCapacityAtMost(o, s) == Cardinality(Booked(s) \ {o}) <= SlotCapacity(s)

HasCapacityForSlot(o, s) == Cardinality(Booked(s) \ {o}) < SlotCapacity(s)

\* get_address_for_user finds the entry and resolve_delivery_fee finds an
\* active zone for its ZIP; a pickup order needs neither.
Deliverable(type, address) ==
    \/ type = "pickup"
    \/ type = "delivery" /\ address \in book \cap served

-----------------------------------------------------------------------------
(* The columns each handler asks the database to change, given the copy of *)
(* the row it decided on.                                                  *)

\* Faulty variant of DraftEdit: the open quote survives the edit.
DraftEditKeepsQuote(row, type, slot, meals, address) ==
    [NoUpdate EXCEPT
        !.status  = IfChanged(row.status, "draft"),
        !.type    = IfChanged(row.type, type),
        !.slot    = IfChanged(row.slot, slot),
        !.meals   = meals,
        !.address = IfChanged(row.address, IF type = "pickup" THEN NoAddress ELSE address)]

\* update_order_draft: the edited order is a draft again, whatever it was.
DraftEdit(row, type, slot, meals, address) ==
    [NoUpdate EXCEPT
        !.status  = IfChanged(row.status, "draft"),
        !.type    = IfChanged(row.type, type),
        !.slot    = IfChanged(row.slot, slot),
        !.meals   = meals,
        !.address = IfChanged(row.address, IF type = "pickup" THEN NoAddress ELSE address),
        !.quote   = IfChanged(row.quote, "none")]

\* apply_conflict_state.
ConflictState(row) == [NoUpdate EXCEPT !.status = IfChanged(row.status, "conflict")]

\* quote_order.
Quote(row) == [NoUpdate EXCEPT !.status = IfChanged(row.status, "quoted"),
                               !.quote  = "set"]

\* confirm_order.
Confirmation(row) == [NoUpdate EXCEPT !.status = IfChanged(row.status, "confirmed"),
                                      !.quote  = IfChanged(row.quote, "none"),
                                      !.stamps = {"confirmed"}]

\* cancel_order.
Cancellation(row) == [NoUpdate EXCEPT !.status = "cancelled",
                                      !.quote  = IfChanged(row.quote, "none"),
                                      !.code   = IfChanged(row.code, "none")]

\* issue_pickup_code: a new code each time, over the one before.
IssuedCode(row) == [NoUpdate EXCEPT !.code = IF row.status = "ready_for_pickup"
                                             THEN "fresh" ELSE "early"]

\* Faulty variant of Transition: a code issued early stays valid.
TransitionKeepsCode(row, target) ==
    [NoUpdate EXCEPT !.status = target, !.stamps = StampFor(target)]

\* apply_fulfillment_transition, and the reset of the code when an order
\* becomes ready for pickup.
Transition(row, target) ==
    [NoUpdate EXCEPT !.status = target,
                     !.code   = IF target = "ready_for_pickup"
                                THEN IfChanged(row.code, "none") ELSE Keep,
                     !.stamps = StampFor(target)]

\* Faulty variant of HandedOff: the code can be used again.
HandedOffKeepsCode(row) ==
    [NoUpdate EXCEPT !.status = "handed_off", !.stamps = {"handed_off"}]

\* mark_pickup_handed_off.
HandedOff(row) == [NoUpdate EXCEPT !.status = "handed_off",
                                   !.code   = IfChanged(row.code, "none"),
                                   !.stamps = {"handed_off"}]

-----------------------------------------------------------------------------
Init ==
    /\ orders = [o \in Orders |-> NoOrder]
    /\ late = {}
    /\ capacity = [s \in Slots |-> NoRow]
    /\ book = {}
    /\ served = {}
    /\ request = [w \in Workers |-> Idle]

\* A request runs on a worker that has none.
Free(w) == request[w] = Idle

\* Handlers that decide on the row alone go straight to their UPDATE.
Prepare(w, o, update) ==
    /\ Free(w)
    /\ request' = [request EXCEPT ![w] =
                     [phase |-> "writing", order |-> o, update |-> update]]
    /\ UNCHANGED <<orders, late, capacity, book, served>>

-----------------------------------------------------------------------------
(* The customer's handlers.                                                *)

\* create_order_draft: an INSERT nobody else can see before it is committed.
NewDraft(type, slot, meals, address) ==
    [NoOrder EXCEPT !.status  = "draft",
                    !.type    = type,
                    !.slot    = slot,
                    !.meals   = meals,
                    !.address = IF type = "pickup" THEN NoAddress ELSE address]

CreateOrderDraft(w, o) ==
    /\ Free(w)
    /\ orders[o].status = "absent"
    /\ \E type \in Services, slot \in Slots, meals \in Meals,
          address \in Addresses \cup {NoAddress} :
         /\ Deliverable(type, address)
         /\ orders' = [orders EXCEPT ![o] = NewDraft(type, slot, meals, address)]
    /\ UNCHANGED <<late, capacity, book, served, request>>

\* Faulty variant of LoadMutable: validate_order_mutable is not called.
LoadAny(w, o, op) ==
    /\ Free(w)
    /\ orders[o].status # "absent"
    /\ request' = [request EXCEPT ![w] =
                     [phase |-> "reading", op |-> op, order |-> o, row |-> orders[o]]]
    /\ UNCHANGED <<orders, late, capacity, book, served>>

\* update_order_draft, quote_order and confirm_order load the order and
\* validate_order_mutable.
LoadMutable(w, o, op) ==
    /\ Free(w)
    /\ orders[o].status \in Mutable
    /\ request' = [request EXCEPT ![w] =
                     [phase |-> "reading", op |-> op, order |-> o, row |-> orders[o]]]
    /\ UNCHANGED <<orders, late, capacity, book, served>>

\* What a worker that read its order asks the database to change.
Decide(w, op, update) ==
    /\ request[w].phase = "reading"
    /\ request[w].op = op
    /\ request' = [request EXCEPT ![w] = [phase |-> "writing",
                                          order |-> request[w].order,
                                          update |-> update]]
    /\ UNCHANGED <<orders, late, capacity, book, served>>

UpdateOrderDraft(w) ==
    /\ request[w].phase = "reading"
    /\ \E type \in Services, slot \in Slots, meals \in Meals,
          address \in Addresses \cup {NoAddress} :
         /\ Deliverable(type, address)
         /\ Decide(w, "update", DraftEdit(request[w].row, type, slot, meals, address))

\* _quote_or_raise_conflict on a full slot: the conflict is committed, then
\* the request answers 409.
SlotConflict(w, op) ==
    /\ request[w].phase = "reading"
    /\ ~HasCapacityForSlot(request[w].order, request[w].row.slot)
    /\ Decide(w, op, ConflictState(request[w].row))

\* A slot with room, and an order that can be delivered.
Acceptable(order, row) ==
    /\ HasCapacityForSlot(order, row.slot)
    /\ Deliverable(row.type, row.address)

QuoteOrder(w) ==
    /\ request[w].phase = "reading"
    /\ Acceptable(request[w].order, request[w].row)
    /\ Decide(w, "quote", Quote(request[w].row))

\* A draft or a conflict may be confirmed without a quote, and
\* quote_expires_at is not looked at.
ConfirmOrder(w) ==
    /\ request[w].phase = "reading"
    /\ Acceptable(request[w].order, request[w].row)
    /\ Decide(w, "confirm", Confirmation(request[w].row))

\* Cancelling a cancelled order answers without a write.
CancelOrder(w, o) ==
    /\ orders[o].status \notin NotCancellable \cup {"absent"}
    /\ o \notin late
    /\ Prepare(w, o, Cancellation(orders[o]))

IssueOrderPickupCode(w, o) ==
    /\ orders[o].type = "pickup"
    /\ orders[o].status \in PickupCodeEligible
    /\ Prepare(w, o, IssuedCode(orders[o]))

-----------------------------------------------------------------------------
(* The operators' handlers.                                                *)

TransitionOrderStatus(w, o, target) ==
    /\ target \in FulfillmentTargets(orders[o].type, orders[o].status)
    /\ Prepare(w, o, Transition(orders[o], target))

\* With the code in force; any other code leaves the order as it is.
VerifyPickupCodeAndHandoff(w, o) ==
    /\ orders[o].type = "pickup"
    /\ orders[o].status = "ready_for_pickup"
    /\ orders[o].code \in {"early", "fresh"}
    /\ Prepare(w, o, HandedOff(orders[o]))

-----------------------------------------------------------------------------
(* The end of a request.                                                   *)

\* The UPDATE meets the row as it is now.  A foreign key to an address that
\* was deleted meanwhile makes it fail instead (see AbortRequest).
CommitUpdate(w) ==
    /\ request[w].phase = "writing"
    /\ LET o == request[w].order
           update == request[w].update
       IN  /\ update.address \in book \cup {NoAddress, Keep}
           /\ orders' = [orders EXCEPT ![o] = Flush(@, update)]
           /\ late' = IF "confirmed" \in update.stamps THEN late \ {o} ELSE late
    /\ request' = [request EXCEPT ![w] = Idle]
    /\ UNCHANGED <<capacity, book, served>>

\* A 404 or 422 after the order was loaded, a database error at the commit, or
\* the end of the process: the transaction is rolled back.
AbortRequest(w) ==
    /\ ~Free(w)
    /\ request' = [request EXCEPT ![w] = Idle]
    /\ UNCHANGED <<orders, late, capacity, book, served>>

-----------------------------------------------------------------------------
(* Handlers that write one row of another table, and the clock.            *)

UpsertSlotCapacity(w, s, n) ==
    /\ Free(w)
    /\ capacity' = [capacity EXCEPT ![s] = n]
    /\ UNCHANGED <<orders, late, book, served, request>>

DeleteSlotCapacity(w, s) ==
    /\ Free(w)
    /\ capacity[s] # NoRow
    /\ capacity' = [capacity EXCEPT ![s] = NoRow]
    /\ UNCHANGED <<orders, late, book, served, request>>

CreateAddress(w, a) ==
    /\ Free(w)
    /\ a \notin book
    /\ book' = book \cup {a}
    /\ UNCHANGED <<orders, late, capacity, served, request>>

\* The foreign key of orders is ON DELETE SET NULL.
DeleteAddress(w, a) ==
    /\ Free(w)
    /\ a \in book
    /\ book' = book \ {a}
    /\ orders' = [o \in Orders |-> IF orders[o].address = a
                                   THEN [orders[o] EXCEPT !.address = NoAddress]
                                   ELSE orders[o]]
    /\ UNCHANGED <<late, capacity, served, request>>

\* A zone is created, switched, renamed or deleted, or the ZIP of the address
\* is edited: the address gains or loses its active zone.
ChangeDeliveryZone(w, a) ==
    /\ Free(w)
    /\ served' = IF a \in served THEN served \ {a} ELSE served \cup {a}
    /\ UNCHANGED <<orders, late, capacity, book, request>>

CancellationCutoff(o) ==
    /\ "confirmed" \in orders[o].stamps
    /\ o \notin late
    /\ late' = late \cup {o}
    /\ UNCHANGED <<orders, capacity, book, served, request>>

PickupCodeExpires(o) ==
    /\ orders[o].code \in {"early", "fresh"}
    /\ orders' = [orders EXCEPT ![o].code = "expired"]
    /\ UNCHANGED <<late, capacity, book, served, request>>

-----------------------------------------------------------------------------
Customer(w) ==
    \/ \E o \in Orders : CreateOrderDraft(w, o)
    \/ \E o \in Orders, op \in {"update", "quote", "confirm"} : LoadMutable(w, o, op)
    \/ UpdateOrderDraft(w)
    \/ \E op \in {"quote", "confirm"} : SlotConflict(w, op)
    \/ QuoteOrder(w)
    \/ ConfirmOrder(w)
    \/ \E o \in Orders : CancelOrder(w, o)
    \/ \E o \in Orders : IssueOrderPickupCode(w, o)
    \/ \E a \in Addresses : CreateAddress(w, a)
    \/ \E a \in Addresses : DeleteAddress(w, a)

Staff(w) ==
    \/ \E o \in Orders, target \in Status : TransitionOrderStatus(w, o, target)
    \/ \E o \in Orders : VerifyPickupCodeAndHandoff(w, o)
    \/ \E s \in Slots, n \in Capacities : UpsertSlotCapacity(w, s, n)
    \/ \E s \in Slots : DeleteSlotCapacity(w, s)
    \/ \E a \in Addresses : ChangeDeliveryZone(w, a)

Clock == \E o \in Orders : CancellationCutoff(o) \/ PickupCodeExpires(o)

Next ==
    \/ \E w \in Workers : Customer(w) \/ Staff(w) \/ CommitUpdate(w) \/ AbortRequest(w)
    \/ Clock

Spec == Init /\ [][Next]_vars

-----------------------------------------------------------------------------
(* Clients that never have two requests on one order in flight.  The code  *)
(* does not enforce this; it separates the anomalies that need two         *)
(* overlapping requests on one order from those that do not.               *)

OneRequestPerOrder ==
    \A v, w \in Workers :
        v # w /\ ~Free(v) /\ ~Free(w) => request[v].order # request[w].order

PoliteSpec == Init /\ [][Next /\ OneRequestPerOrder']_vars

-----------------------------------------------------------------------------
(* Properties.                                                             *)

\* Every column, copy and pending UPDATE holds a value of its column.
TypeOK ==
    /\ orders \in [Orders -> Row]
    /\ late \subseteq Orders
    /\ capacity \in [Slots -> Capacities \cup {NoRow}]
    /\ book \subseteq Addresses
    /\ served \subseteq Addresses
    /\ request \in [Workers -> Request]

\* However requests overlap, an order stands in a status only with every
\* timestamp of the documented path to it filled in: no lost update and no
\* stale UPDATE makes an order ready, handed off or delivered that was never
\* confirmed and prepared (apply_fulfillment_transition, confirm_order,
\* mark_pickup_handed_off).
TimelineComplete ==
    \A o \in Orders : Timeline(orders[o].status) \subseteq orders[o].stamps

\* Why TimelineComplete survives overlapping requests: timestamps are never
\* cleared, so what a handler saw before it decided is still there when it
\* commits, and the rest of the timeline comes with its own UPDATE.
PendingTimeline ==
    \A w \in Workers :
        request[w].phase = "writing" /\ request[w].update.status # Keep =>
            Timeline(request[w].update.status)
                \subseteq orders[request[w].order].stamps \cup request[w].update.stamps

\* A request is about a row that exists, and no UPDATE makes it not exist.
InFlightExists ==
    \A w \in Workers :
        /\ ~Free(w) => orders[request[w].order].status # "absent"
        /\ request[w].phase = "writing" => request[w].update.status # "absent"

TimelineInv == TypeOK /\ TimelineComplete /\ PendingTimeline /\ InFlightExists

\* Every change of a status is one the documents list for the order's type:
\* in particular nothing comes back from cancelled, handed_off or delivered.
LifecycleFollowed ==
    [][\A o \in Orders :
          orders'[o].status # orders[o].status =>
              orders'[o].status \in Lifecycle(orders[o].type, orders[o].status)]_vars

\* What the kitchen accepted is not edited under it: slot, type and lines of
\* an order stay as they were from its confirmation on (validate_order_mutable).
AcceptedOrderFrozen ==
    [][\A o \in Orders :
          orders[o].status \in Finalized =>
              /\ orders'[o].slot = orders[o].slot
              /\ orders'[o].type = orders[o].type
              /\ orders'[o].meals = orders[o].meals]_vars

\* A quote expiry date is on the row exactly while a quote is open; a slot
\* conflict may keep the date of the quote it interrupted.
QuoteMatchesStatus ==
    \A o \in Orders :
        /\ orders[o].status = "quoted" => orders[o].quote = "set"
        /\ orders[o].quote = "set" => orders[o].status \in {"quoted", "conflict"}

\* A pickup code is on the row of a pickup order that may still be handed
\* over, or of one that staff cancelled (a transition to cancelled keeps it).
CodeBelongsToOpenPickup ==
    \A o \in Orders :
        orders[o].code # "none" =>
            /\ orders[o].type = "pickup"
            /\ orders[o].status \in PickupCodeEligible \cup {"cancelled"}

\* A code issued before the order was ready never hands it over ("Force fresh
\* issuance per handoff cycle", transition_order_status).
HandoffCodeIsFresh ==
    \A o \in Orders : orders[o].status = "ready_for_pickup" => orders[o].code # "early"

\* What a row says besides its status agrees with it, whatever request came
\* last: a quote expires only while it is open, a pickup code is one that can
\* hand the order over, and none from before it was ready is valid then
\* (quote_order, issue_order_pickup_code, transition_order_status).
RowsConsistent == QuoteMatchesStatus /\ CodeBelongsToOpenPickup /\ HandoffCodeIsFresh

\* The columns of a row that agree with its status, as one predicate: the
\* three properties above and the route that fits the order's type.
RowSane(row) ==
    /\ row.status = "quoted" => row.quote = "set"
    /\ row.quote = "set" => row.status \in {"quoted", "conflict"}
    /\ row.code # "none" => /\ row.type = "pickup"
                            /\ row.status \in PickupCodeEligible \cup {"cancelled"}
    /\ row.status = "ready_for_pickup" => row.code # "early"
    /\ row.status \in {"ready_for_pickup", "handed_off"} => row.type = "pickup"
    /\ row.status \in {"ready_for_dispatch", "out_for_delivery", "delivered"} =>
           row.type = "delivery"

\* Why they hold for clients that do not overlap requests on one order: a copy
\* stays current in the columns the handlers decide on, and a decided UPDATE
\* stays one the row it will meet allows.
CopyCurrent(row, copy) ==
    /\ row.status \in Mutable
    /\ copy.status = row.status
    /\ copy.quote = row.quote

UpdateAllowed(row, update) ==
    /\ row.status # "absent"
    /\ update.status # Keep => update.status \in Lifecycle(row.type, row.status)
    /\ row.status \in Finalized =>
           update.slot = Keep /\ update.type = Keep /\ update.meals = Keep
    /\ RowSane(Flush(row, update))

PoliteInv ==
    /\ TypeOK
    /\ OneRequestPerOrder
    /\ \A o \in Orders : RowSane(orders[o])
    /\ \A w \in Workers :
        /\ request[w].phase = "reading" =>
               CopyCurrent(orders[request[w].order], request[w].row)
        /\ request[w].phase = "writing" =>
               UpdateAllowed(orders[request[w].order], request[w].update)

\* Two confirmations that both saw the last free place overbook the slot, but
\* never by more than the number of other requests in flight (one worker:
\* never), as long as no limit is lowered.
OverbookingBounded ==
    \A s \in Slots : Cardinality(Booked(s)) <= SlotCapacity(s) + Cardinality(Workers) - 1

\* A confirmation takes a place that is free when it takes it.
ConfirmRespectsCapacity ==
    [][\A o \in Orders :
          orders[o].status \notin Finalized /\ orders'[o].status \in Finalized =>
              Cardinality(Booked(orders'[o].slot)) < SlotCapacity(orders'[o].slot)]_vars

\* One request at a time, the table implements SlotBooking: a confirmation
\* takes a free place and the order keeps it until it is cancelled.
Booking == INSTANCE SlotBooking WITH
    Limits <- Capacities, DefaultLimit <- DefaultSlotCapacity,
    booked <- [s \in Slots |-> Booked(s)],
    gone   <- {o \in Orders : orders[o].status = "cancelled"},
    limit  <- [s \in Slots |-> SlotCapacity(s)]

ImplementsSlotBooking == Booking!Spec
=============================================================================
