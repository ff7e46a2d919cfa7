---------------------------- MODULE KitchenQueue ----------------------------
(***************************************************************************)
(* The estimated minutes of the orders of one store, and the handlers that *)
(* renumber them: confirm_order and cancel_order of routes/ordering.py,    *)
(* transition_order_status and verify_pickup_code_and_handoff of           *)
(* routes/fulfillment.py, all through recalculate_queue_etas_for_scope of  *)
(* orders/engine.py.                                                       *)
(*                                                                         *)
(* A handler is one transaction at READ COMMITTED: a SELECT sees what      *)
(* others have committed and what its own session has flushed; an UPDATE   *)
(* locks its row until the end and waits for a row that is locked.  The    *)
(* session flushes an order before the next SELECT (autoflush), so the     *)
(* rows are updated one by one, each with an estimate made before it is    *)
(* locked.  Two handlers lock their own order first and then all by slot,  *)
(* so they may wait for each other: the database then ends one of them.    *)
(*                                                                         *)
(* The two SELECTs of calculate_eta_minutes are one step, and so are an    *)
(* UPDATE and the SELECT or COMMIT that flushes it, since no other         *)
(* transaction can tell them apart.  Products are exact.  Left out: time   *)
(* (every slot lies ahead at a distance that does not change, and every    *)
(* row was written in the last 72 hours); quote_order, which estimates its *)
(* own order only; and what Ordering models: capacity, fees, the cut-off   *)
(* and the pickup code.                                                    *)
(***************************************************************************)
EXTENDS Integers, FiniteSets

LOCAL INSTANCE OrderRules

CONSTANTS
    Orders,     \* the orders, numbered in the order of created_at
    SlotOf,     \* slot_start of each
    TypeOf,     \* order_type of each
    Cooks       \* the threads that run the handlers

ASSUME KitchenAssumption ==
    /\ Orders \subseteq Nat /\ IsFiniteSet(Orders)
    /\ SlotOf \in [Orders -> Nat]
    /\ TypeOf \in [Orders -> Service]

VARIABLES
    orders,     \* the committed rows: status and eta_minutes
    handler,    \* what each thread is doing
    settled     \* history: the last commit was that of a handler during
                \* which no other committed

kitchenVars == <<orders, handler, settled>>

-----------------------------------------------------------------------------
NoEta == 0 - 1      \* eta_minutes is null
NoOrder == 0 - 1

\* ETA_ACTIVE_STATUSES.
EtaActive == {"confirmed", "preparing", "ready_for_pickup",
              "ready_for_dispatch", "out_for_delivery"}

\* ETA_WORKLOAD_WEIGHTS, in tenths.
Weight == [confirmed |-> 10, preparing |-> 16, ready_for_pickup |-> 4,
           ready_for_dispatch |-> 6, out_for_delivery |-> 8]

OrderRow == [status : Status, eta : Nat \cup {NoEta}]

Active(rows) == {o \in Orders : rows[o].status \in EtaActive}

\* The weights of these orders, added up status by status.
Workload(rows, S) ==
    LET share(status) == Weight[status] * Cardinality({o \in S : rows[o].status = status})
    IN share("confirmed") + share("preparing") + share("ready_for_pickup")
         + share("ready_for_dispatch") + share("out_for_delivery")

Ceiling(n) == (n + 99) \div 100

\* calculate_eta_minutes, without the distance of the slot.
Eta(rows, o) ==
    LET others  == Active(rows) \ {o}
        backlog == {p \in others : SlotOf[p] <= SlotOf[o]}
        volume  == Cardinality(others)
    IN 8 + Ceiling(27 * Workload(rows, others)) + Ceiling(22 * Workload(rows, backlog))
         + IF volume > 18 THEN 18 ELSE volume

-----------------------------------------------------------------------------
\* todo: the orders still to be estimated and written; eta: the estimate of
\* the first of them; loaded: eta_minutes as the session first saw it; wrote:
\* the rows it has updated and locked.
Resting == [step |-> "idle", order |-> NoOrder, target |-> "draft", todo |-> {},
            eta |-> NoEta, disturbed |-> FALSE, loaded |-> <<>>, wrote |-> <<>>]

\* The rows as a transaction sees them that has written some.
Over(wrote) == [p \in Orders |-> IF p \in DOMAIN wrote THEN wrote[p] ELSE orders[p]]

\* No other transaction has an uncommitted UPDATE of the row.
FreeFor(h, o) == \A g \in Cooks \ {h} : o \notin DOMAIN handler[g].wrote

\* The statuses the handlers may give an order of this type and status.
Targets(type, status) ==
    FulfillmentTargets(type, status)
    \cup {target \in {"confirmed"} : status \in Mutable}
    \cup {target \in {"cancelled"} : status \notin NotCancellable}
    \cup {target \in {"handed_off"} :
             type = "pickup" /\ status = "ready_for_pickup"}

\* The order a renumbering takes next: by slot_start, then created_at.
First(S) == CHOOSE o \in S : \A p \in S :
                \/ SlotOf[o] < SlotOf[p]
                \/ (SlotOf[o] = SlotOf[p] /\ o <= p)

-----------------------------------------------------------------------------
KitchenInit ==
    /\ orders = [o \in Orders |-> [status |-> "draft", eta |-> NoEta]]
    /\ handler = [h \in Cooks |-> Resting]
    /\ settled = TRUE

\* A handler loads its order and finds that it may give it the status.
LoadOrder(h, o, target) ==
    /\ handler[h].step = "idle"
    /\ target \in Targets(TypeOf[o], orders[o].status)
    /\ handler' = [handler EXCEPT ![h] = [Resting EXCEPT
           !.step = "flush", !.order = o, !.target = target,
           !.loaded = [p \in {o} |-> orders[p].eta]]]
    /\ UNCHANGED <<orders, settled>>

\* Faulty variant of Scope: only the slots from the order's own on.
ScopeFromOwnSlot(flushed, o) ==
    {p \in Active(Over(flushed)) : SlotOf[p] >= SlotOf[o]}

\* The active orders the handler of order o selects once its status is flushed.
Scope(flushed, o) == Active(Over(flushed))

\* UPDATE of the status, which waits for the row, and SELECT of the active
\* orders.  The order the session already has keeps its loaded values.
FlushStatus(h) ==
    LET work == handler[h]
        o == work.order
        flushed == [p \in {o} |-> [orders[p] EXCEPT !.status = work.target]]
        found == Scope(flushed, o)
    IN
    /\ work.step = "flush"
    /\ FreeFor(h, o)
    /\ handler' = [handler EXCEPT
           ![h].step = IF found = {} THEN "commit" ELSE "estimate",
           ![h].wrote = flushed,
           ![h].todo = found,
           ![h].loaded = [p \in found \cup {o} |->
                             IF p = o THEN work.loaded[o] ELSE orders[p].eta]]
    /\ UNCHANGED <<orders, settled>>

\* calculate_eta_minutes for the first order, without a lock on it.
Estimate(h) ==
    LET work == handler[h] IN
    /\ work.step = "estimate"
    /\ handler' = [handler EXCEPT
           ![h].step = "update",
           ![h].eta = Eta(Over(work.wrote), First(work.todo))]
    /\ UNCHANGED <<orders, settled>>

\* The handler's rows with the UPDATE of the first order: eta_minutes is
\* written only if it differs from what the session loaded, whatever the row
\* holds by now.
WrittenRows(h) ==
    LET work == handler[h]
        o == First(work.todo)
        row == [Over(work.wrote)[o] EXCEPT
                    !.eta = IF work.eta = work.loaded[o] THEN @ ELSE work.eta]
    IN [p \in DOMAIN work.wrote \cup {o} |-> IF p = o THEN row ELSE work.wrote[p]]

\* UPDATE of one order, which waits for its row, and calculate_eta_minutes
\* for the next, whose first SELECT flushed it.
UpdateEta(h) ==
    LET o == First(handler[h].todo)
        rest == handler[h].todo \ {o}
    IN
    /\ handler[h].step = "update"
    /\ FreeFor(h, o)
    /\ rest # {}
    /\ handler' = [handler EXCEPT
           ![h].wrote = WrittenRows(h),
           ![h].todo = rest,
           ![h].eta = Eta(Over(WrittenRows(h)), First(rest))]
    /\ UNCHANGED <<orders, settled>>

\* The commit, with the UPDATE of the last order if there is one.
CommitHandler(h) ==
    LET work == handler[h] IN
    /\ \/ /\ work.step = "commit"
          /\ orders' = Over(work.wrote)
       \/ /\ work.step = "update"
          /\ work.todo = {First(work.todo)}
          /\ FreeFor(h, First(work.todo))
          /\ orders' = Over(WrittenRows(h))
    /\ settled' = ~ work.disturbed
    /\ handler' = [g \in Cooks |->
                     IF g = h THEN Resting
                     ELSE IF handler[g].step = "idle" THEN handler[g]
                     ELSE [handler[g] EXCEPT !.disturbed = TRUE]]

\* The process fails, or the database ends the transaction to break a cycle
\* of waiting: nothing is kept, and nobody tries again.
AbortHandler(h) ==
    /\ handler[h].step # "idle"
    /\ handler' = [handler EXCEPT ![h] = Resting]
    /\ UNCHANGED <<orders, settled>>

KitchenNext ==
    \/ \E h \in Cooks, o \in Orders, target \in Status : LoadOrder(h, o, target)
    \/ \E h \in Cooks : FlushStatus(h)
    \/ \E h \in Cooks : Estimate(h)
    \/ \E h \in Cooks : UpdateEta(h)
    \/ \E h \in Cooks : CommitHandler(h)
    \/ \E h \in Cooks : AbortHandler(h)

KitchenSpec == KitchenInit /\ [][KitchenNext]_kitchenVars

-----------------------------------------------------------------------------
\* The rows and the transactions have their types, and no row is locked twice.
KitchenTypeOK ==
    /\ orders \in [Orders -> OrderRow]
    /\ settled \in BOOLEAN
    /\ \A h \in Cooks : /\ handler[h].todo \subseteq Orders
                        /\ DOMAIN handler[h].wrote \subseteq Orders
                        /\ \A o \in DOMAIN handler[h].wrote : FreeFor(h, o)

\* design.md:48 says that the estimates are recalculated from the queue on
\* confirm, cancel and fulfilment transitions.  After any of them during which
\* no other committed, every active order has the estimate that its queue
\* gives, whatever overlapping handlers had left before and whatever others
\* are in the middle of (recalculate_queue_etas_for_scope, over rows that are
\* estimated unlocked and written only where they changed).
EtaFollowsQueue ==
    settled => \A o \in Active(orders) : orders[o].eta = Eta(orders, o)
=============================================================================
