---------------------------- MODULE KitchenProofs ----------------------------
(***************************************************************************)
(* What KitchenQueue promises for any number of orders, slots and handlers *)
(* of one store.                                                           *)
(***************************************************************************)
EXTENDS KitchenQueue, FiniteSetTheorems, WellFoundedInduction, TLAPS

LOCAL INSTANCE OrderRules

Minutes == Nat \cup {NoEta}

\* The values of a handler, and what it knows at each step.
Working(work) ==
    /\ DOMAIN work = DOMAIN Resting
    /\ work.step \in {"idle", "flush", "estimate", "update", "commit"}
    /\ work.target \in Status
    /\ work.todo \subseteq Orders
    /\ work.disturbed \in BOOLEAN
    /\ DOMAIN work.wrote \subseteq Orders
    /\ \A o \in DOMAIN work.wrote : work.wrote[o] \in OrderRow
    /\ work.step # "idle" => work.order \in Orders
    /\ work.step = "flush" => work.wrote = << >>
    /\ work.step \in {"estimate", "update"} => work.todo # {}
    /\ work.step = "commit" => work.todo = {}
    /\ work.step = "update" => work.eta \in Nat

LocksApart == \A h \in Cooks : \A o \in DOMAIN handler[h].wrote : FreeFor(h, o)

WorkInv ==
    /\ orders \in [Orders -> OrderRow]
    /\ settled \in BOOLEAN
    /\ DOMAIN handler = Cooks
    /\ \A h \in Cooks : Working(handler[h])
    /\ LocksApart

\* The rows as the transaction of a handler sees them.
View(work) == Over(work.wrote)

\* What a handler that nobody disturbed has achieved: the active orders it is
\* through with have the estimate its view gives, and it knows the estimates
\* that the others still have.
Renumbering(work) ==
    /\ work.loaded[work.order] = orders[work.order].eta
    /\ work.order \in DOMAIN work.loaded
    /\ work.step # "flush" =>
         /\ work.todo \subseteq Active(View(work))
         /\ \A o \in work.todo : work.loaded[o] = View(work)[o].eta
         /\ \A o \in Active(View(work)) \ work.todo : View(work)[o].eta = Eta(View(work), o)
    /\ work.step = "update" => work.eta = Eta(View(work), First(work.todo))

RenumberingInv ==
    /\ EtaFollowsQueue
    /\ \A h \in Cooks :
         handler[h].step # "idle" /\ ~ handler[h].disturbed => Renumbering(handler[h])

-----------------------------------------------------------------------------
LEMMA RestingTyped == Working(Resting)
  <1>1. DOMAIN << >> = {}
    OBVIOUS
  <1> QED
    BY <1>1 DEF Resting, Working, Status

LEMMA InitWork == KitchenInit => WorkInv
  <1> SUFFICES ASSUME KitchenInit PROVE WorkInv
    OBVIOUS
  <1>1. \A h \in Cooks : DOMAIN handler[h].wrote = {}
    BY DEF KitchenInit, Resting
  <1>2. orders \in [Orders -> OrderRow]
    BY DEF KitchenInit, OrderRow, Status
  <1> QED
    BY <1>1, <1>2, RestingTyped DEF KitchenInit, WorkInv, LocksApart

-----------------------------------------------------------------------------
(* Estimates, and the order of a renumbering.                              *)

LEMMA SomeOf ==
    ASSUME NEW S \in SUBSET Orders
    PROVE  IsFiniteSet(S) /\ Cardinality(S) \in Nat
  BY KitchenAssumption, FS_Subset, FS_CardinalityType

LEMMA WorkloadNat ==
    ASSUME NEW rows, NEW S \in SUBSET Orders
    PROVE  Workload(rows, S) \in Nat
  <1>1. \A status : Cardinality({o \in S : rows[o].status = status}) \in Nat
    BY SomeOf
  <1>2. /\ Weight["confirmed"] \in Nat /\ Weight["preparing"] \in Nat
        /\ Weight["ready_for_pickup"] \in Nat /\ Weight["ready_for_dispatch"] \in Nat
        /\ Weight["out_for_delivery"] \in Nat
    BY DEF Weight
  <1>3. \A m, n \in Nat : m * n \in Nat /\ m + n \in Nat
    OBVIOUS
  <1> QED
    BY <1>1, <1>2, <1>3 DEF Workload

LEMMA EtaNat ==
    ASSUME NEW rows, NEW o
    PROVE  Eta(rows, o) \in Nat
  <1> DEFINE others  == Active(rows) \ {o}
             backlog == {p \in others : SlotOf[p] <= SlotOf[o]}
  <1>1. others \in SUBSET Orders /\ backlog \in SUBSET Orders
    BY DEF Active
  <1>2. Workload(rows, others) \in Nat /\ Workload(rows, backlog) \in Nat
    BY <1>1, WorkloadNat
  <1>3. Cardinality(others) \in Nat
    BY <1>1, SomeOf
  <1>4. \A n \in Nat : Ceiling(27 * n) \in Nat /\ Ceiling(22 * n) \in Nat
    BY DEF Ceiling
  <1>5. PICK x \in Nat : x = Ceiling(27 * Workload(rows, others))
    BY <1>2, <1>4
  <1>6. PICK y \in Nat : y = Ceiling(22 * Workload(rows, backlog))
    BY <1>2, <1>4
  <1>7. PICK v \in Nat : v = Cardinality(others)
    BY <1>3
  <1>8. Eta(rows, o) = 8 + x + y + IF v > 18 THEN 18 ELSE v
    BY <1>5, <1>6, <1>7 DEF Eta
  <1> QED
    BY <1>8

\* Estimates depend on the statuses of the rows only.
LEMMA EtaOfStatuses ==
    ASSUME NEW rows, NEW others, \A p \in Orders : others[p].status = rows[p].status
    PROVE  Active(others) = Active(rows) /\ \A o : Eta(others, o) = Eta(rows, o)
  <1>1. Active(others) = Active(rows)
    BY DEF Active
  <1>2. ASSUME NEW S \in SUBSET Orders
        PROVE  Workload(others, S) = Workload(rows, S)
    <2>1. \A status : {o \in S : others[o].status = status} = {o \in S : rows[o].status = status}
      OBVIOUS
    <2> QED
      BY <2>1 DEF Workload
  <1>3. ASSUME NEW o
        PROVE  Eta(others, o) = Eta(rows, o)
    <2> DEFINE rest    == Active(rows) \ {o}
               backlog == {p \in rest : SlotOf[p] <= SlotOf[o]}
    <2>1. rest \in SUBSET Orders /\ backlog \in SUBSET Orders
      BY DEF Active
    <2>2. /\ Workload(others, rest) = Workload(rows, rest)
          /\ Workload(others, backlog) = Workload(rows, backlog)
      BY <1>2, <2>1
    <2> QED
      BY <1>1, <2>2 DEF Eta
  <1> QED
    BY <1>1, <1>3

LEMMA LeastOf ==
    ASSUME NEW N \in SUBSET Nat, N # {}
    PROVE  \E least \in N : \A n \in N : least <= n
  <1>1. IsWellFoundedOn(OpToRel(<, Nat), Nat)
    BY NatLessThanWellFounded
  <1>2. PICK least \in N : \A n \in Nat : <<n, least>> \in OpToRel(<, Nat) => n \notin N
    BY <1>1, WFMin
  <1>3. \A n \in N : ~ (n < least)
    BY <1>2 DEF OpToRel
  <1>4. \A n \in N : least \in Nat /\ n \in Nat
    OBVIOUS
  <1> QED
    BY <1>3, <1>4

\* The queue has a first order: the oldest of those with the earliest slot.
LEMMA FirstIn ==
    ASSUME NEW S \in SUBSET Orders, S # {}
    PROVE  First(S) \in S
  <1> DEFINE slots == {SlotOf[o] : o \in S}
  <1>1. slots \in SUBSET Nat /\ slots # {}
    BY KitchenAssumption
  <1>2. PICK slot \in slots : \A n \in slots : slot <= n
    BY <1>1, LeastOf
  <1> DEFINE T == {o \in S : SlotOf[o] = slot}
  <1>3. T \in SUBSET Nat /\ T # {}
    BY KitchenAssumption
  <1>4. PICK first \in T : \A o \in T : first <= o
    BY <1>3, LeastOf
  <1>5. ASSUME NEW p \in S
        PROVE  \/ SlotOf[first] < SlotOf[p]
               \/ (SlotOf[first] = SlotOf[p] /\ first <= p)
    <2>1. SlotOf[p] \in Nat /\ SlotOf[first] = slot /\ slot \in Nat /\ slot <= SlotOf[p]
      BY <1>2, KitchenAssumption
    <2>2. SlotOf[p] = slot => first <= p
      BY <1>4
    <2> QED
      BY <2>1, <2>2
  <1>6. first \in S
    OBVIOUS
  <1> QED
    BY <1>5, <1>6 DEF First

-----------------------------------------------------------------------------
(* What each step does to its handler.                                     *)

\* The handler of h becomes k, the others stay as they are.
Moves(h, k) ==
    /\ DOMAIN handler' = Cooks
    /\ handler'[h] = k
    /\ \A g \in Cooks \ {h} : handler'[g] = handler[g]

\* The rows stay as they are too.
Within(h, k) == Moves(h, k) /\ UNCHANGED <<orders, settled>>

\* What k has of j still.
Carries(j, k) ==
    /\ DOMAIN k = DOMAIN j
    /\ k.order = j.order /\ k.target = j.target /\ k.disturbed = j.disturbed

Flushed(j) == [p \in {j.order} |-> [orders[p] EXCEPT !.status = j.target]]

FoundEtas(j, found) ==
    [p \in found \cup {j.order} |->
        IF p = j.order THEN j.loaded[j.order] ELSE orders[p].eta]

\* A handler that has loaded its order.
Begins(k, o, target) ==
    /\ DOMAIN k = DOMAIN Resting
    /\ k.step = "flush" /\ k.order = o /\ k.target = target /\ k.todo = {}
    /\ k.disturbed = FALSE /\ k.wrote = << >>
    /\ k.loaded = [p \in {o} |-> orders[p].eta]

LEMMA LoadMoves ==
    ASSUME WorkInv, NEW h \in Cooks, NEW o \in Orders, NEW target \in Status,
           LoadOrder(h, o, target)
    PROVE  \E k : Within(h, k) /\ Begins(k, o, target)
  <1>1. PICK k : k = [Resting EXCEPT !.step = "flush", !.order = o, !.target = target,
                                     !.loaded = [p \in {o} |-> orders[p].eta]]
    OBVIOUS
  <1>2. handler' = [handler EXCEPT ![h] = k] /\ UNCHANGED <<orders, settled>>
    BY <1>1, Zenon DEF LoadOrder
  <1>3. Within(h, k)
    BY <1>2 DEF WorkInv, Within, Moves
  <1>4. Begins(k, o, target)
    BY <1>1 DEF Resting, Begins
  <1> QED
    BY <1>3, <1>4

LEMMA FlushMoves ==
    ASSUME WorkInv, NEW h \in Cooks, NEW j, j = handler[h], FlushStatus(h)
    PROVE  /\ j.step = "flush" /\ FreeFor(h, j.order)
           /\ \E k : /\ Within(h, k) /\ Carries(j, k)
                     /\ k.wrote = Flushed(j) /\ k.todo = Active(View(k))
                     /\ k.step = IF k.todo = {} THEN "commit" ELSE "estimate"
                     /\ k.loaded = FoundEtas(j, k.todo)
  <1>1. PICK found : found = Active(Over(Flushed(j)))
    OBVIOUS
  <1>2. PICK k : k = [j EXCEPT
           !.step = IF found = {} THEN "commit" ELSE "estimate",
           !.wrote = Flushed(j),
           !.todo = found,
           !.loaded = FoundEtas(j, found)]
    OBVIOUS
  <1>3. DOMAIN j = DOMAIN Resting
    BY DEF WorkInv, Working
  <1>4. /\ j.step = "flush" /\ FreeFor(h, j.order) /\ UNCHANGED <<orders, settled>>
        /\ handler' = [handler EXCEPT
              ![h].step = IF found = {} THEN "commit" ELSE "estimate",
              ![h].wrote = Flushed(j),
              ![h].todo = found,
              ![h].loaded = FoundEtas(j, found)]
    BY <1>1, Zenon DEF FlushStatus, Flushed, FoundEtas, Scope
  <1>5. Moves(h, k)
    BY <1>2, <1>3, <1>4 DEF WorkInv, Moves, Resting
  <1>6. /\ Carries(j, k) /\ k.wrote = Flushed(j) /\ k.todo = found
        /\ k.step = IF found = {} THEN "commit" ELSE "estimate"
        /\ k.loaded = FoundEtas(j, found)
    BY <1>2, <1>3 DEF Carries, Resting
  <1>7. found = Active(View(k))
    BY <1>1, <1>6 DEF View
  <1> QED
    BY <1>4, <1>5, <1>6, <1>7 DEF Within

LEMMA EstimateMoves ==
    ASSUME WorkInv, NEW h \in Cooks, NEW j, j = handler[h], Estimate(h)
    PROVE  /\ j.step = "estimate"
           /\ \E k : /\ Within(h, k) /\ Carries(j, k)
                     /\ k.step = "update" /\ k.eta = Eta(View(j), First(j.todo))
                     /\ k.wrote = j.wrote /\ k.todo = j.todo /\ k.loaded = j.loaded
  <1>1. PICK eta : eta = Eta(Over(j.wrote), First(j.todo))
    OBVIOUS
  <1>2. PICK k : k = [j EXCEPT !.step = "update", !.eta = eta]
    OBVIOUS
  <1>3. DOMAIN j = DOMAIN Resting
    BY DEF WorkInv, Working
  <1>4. /\ j.step = "estimate" /\ UNCHANGED <<orders, settled>>
        /\ handler' = [handler EXCEPT ![h].step = "update", ![h].eta = eta]
    BY <1>1, Zenon DEF Estimate
  <1>5. Moves(h, k)
    BY <1>2, <1>3, <1>4 DEF WorkInv, Moves, Resting
  <1>6. /\ Carries(j, k) /\ k.step = "update" /\ k.eta = eta
        /\ k.wrote = j.wrote /\ k.todo = j.todo /\ k.loaded = j.loaded
    BY <1>2, <1>3 DEF Carries, Resting
  <1>7. k.eta = Eta(View(j), First(j.todo))
    BY <1>1, <1>6 DEF View
  <1> QED
    BY <1>4, <1>5, <1>6, <1>7 DEF Within

LEMMA UpdateMoves ==
    ASSUME WorkInv, NEW h \in Cooks, NEW j, j = handler[h], NEW o, o = First(j.todo),
           UpdateEta(h)
    PROVE  /\ j.step = "update" /\ FreeFor(h, o) /\ j.todo \ {o} # {}
           /\ \E k : /\ Within(h, k) /\ Carries(j, k)
                     /\ k.step = "update" /\ k.wrote = WrittenRows(h)
                     /\ k.todo = j.todo \ {o} /\ k.loaded = j.loaded
                     /\ k.eta = Eta(View(k), First(k.todo))
  <1>1. PICK eta, rows : /\ rows = WrittenRows(h)
                         /\ eta = Eta(Over(rows), First(j.todo \ {o}))
    OBVIOUS
  <1>2. PICK k : k = [j EXCEPT !.wrote = rows, !.todo = j.todo \ {o}, !.eta = eta]
    OBVIOUS
  <1>3. DOMAIN j = DOMAIN Resting
    BY DEF WorkInv, Working
  <1>4. /\ j.step = "update" /\ FreeFor(h, o) /\ j.todo \ {o} # {}
        /\ UNCHANGED <<orders, settled>>
        /\ handler' = [handler EXCEPT ![h].wrote = rows, ![h].todo = j.todo \ {o},
                                      ![h].eta = eta]
    BY <1>1, Zenon DEF UpdateEta
  <1>5. Moves(h, k)
    BY <1>2, <1>3, <1>4 DEF WorkInv, Moves, Resting
  <1>6. /\ Carries(j, k) /\ k.wrote = rows /\ k.todo = j.todo \ {o} /\ k.eta = eta
        /\ k.step = "update" /\ k.loaded = j.loaded
    BY <1>2, <1>3, <1>4 DEF Carries, Resting
  <1>7. eta = Eta(View(k), First(k.todo))
    BY <1>1, <1>6 DEF View
  <1> QED
    BY <1>1, <1>4, <1>5, <1>6, <1>7 DEF Within

-----------------------------------------------------------------------------
(* Rows, transactions and locks.                                           *)

\* A transaction sees its own rows, and those of the table elsewhere.
LEMMA ViewRows ==
    ASSUME WorkInv, NEW j, Working(j)
    PROVE  /\ View(j) \in [Orders -> OrderRow]
           /\ \A p \in Orders :
                View(j)[p] = IF p \in DOMAIN j.wrote THEN j.wrote[p] ELSE orders[p]
  <1>1. DOMAIN View(j) = Orders
    BY DEF View, Over, WorkInv, Working
  <1>2. \A p \in Orders :
          View(j)[p] = IF p \in DOMAIN j.wrote THEN j.wrote[p] ELSE orders[p]
    BY DEF View, Over, WorkInv, Working
  <1>3. View(j) = [p \in Orders |-> View(j)[p]]
    BY <1>1 DEF View, Over
  <1> QED
    BY <1>2, <1>3 DEF WorkInv, Working

\* The rows of j with that of o, of which only the estimate may differ.
WrittenTo(j, o, rows) ==
    /\ o \in j.todo /\ o \in Orders
    /\ DOMAIN rows = DOMAIN j.wrote \cup {o}
    /\ \A p \in DOMAIN rows : rows[p] \in OrderRow
    /\ \A p \in Orders : p # o => Over(rows)[p] = View(j)[p]
    /\ \A p \in Orders : Over(rows)[p].status = View(j)[p].status
    /\ Over(rows)[o].eta = IF j.eta = j.loaded[o] THEN View(j)[o].eta ELSE j.eta
    /\ Over(rows) \in [Orders -> OrderRow]

\* The UPDATE of an estimate writes the row of the first order alone, and of it
\* the estimate alone.
LEMMA WrittenIs ==
    ASSUME WorkInv, NEW h \in Cooks, NEW j, j = handler[h], j.step = "update",
           NEW o, o = First(j.todo), NEW rows, rows = WrittenRows(h)
    PROVE  WrittenTo(j, o, rows)
  <1>1. Working(j) /\ o \in j.todo /\ o \in Orders /\ j.eta \in Nat
    BY FirstIn DEF WorkInv, Working
  <1>2. PICK new : new = [View(j)[o] EXCEPT
                             !.eta = IF j.eta = j.loaded[o] THEN @ ELSE j.eta]
    OBVIOUS
  <1>3. rows = [p \in DOMAIN j.wrote \cup {o} |-> IF p = o THEN new ELSE j.wrote[p]]
    BY <1>2, Zenon DEF WrittenRows, View
  <1>4. View(j)[o] \in OrderRow
    BY <1>1, ViewRows
  <1>5. /\ new \in OrderRow /\ new.status = View(j)[o].status
        /\ new.eta = IF j.eta = j.loaded[o] THEN View(j)[o].eta ELSE j.eta
    BY <1>1, <1>2, <1>4 DEF OrderRow
  <1>6. /\ DOMAIN rows = DOMAIN j.wrote \cup {o} /\ rows[o] = new
        /\ \A p \in DOMAIN j.wrote : p # o => rows[p] = j.wrote[p]
    BY <1>3
  <1>7. /\ DOMAIN rows \subseteq Orders
        /\ \A p \in DOMAIN rows : rows[p] \in OrderRow
    BY <1>1, <1>5, <1>6 DEF Working
  <1>8. PICK view : view = Over(rows)
    OBVIOUS
  <1>9. /\ DOMAIN view = Orders
        /\ \A p \in Orders : view[p] = IF p \in DOMAIN rows THEN rows[p] ELSE orders[p]
        /\ view = [p \in Orders |-> view[p]]
    BY <1>7, <1>8 DEF Over, WorkInv
  <1>10. \A p \in Orders : p # o => view[p] = View(j)[p]
    BY <1>1, <1>6, <1>9, ViewRows
  <1>11. view[o] = new
    BY <1>1, <1>6, <1>9
  <1>12. view \in [Orders -> OrderRow]
    BY <1>7, <1>9 DEF WorkInv
  <1> QED
    BY <1>1, <1>5, <1>6, <1>7, <1>8, <1>10, <1>11, <1>12 DEF WrittenTo

\* A handler that moves on keeps its locks, and takes only what is free.
LEMMA WorkMoves ==
    ASSUME WorkInv, NEW h \in Cooks, NEW k, Within(h, k), Working(k),
           \A o \in DOMAIN k.wrote : o \in DOMAIN handler[h].wrote \/ FreeFor(h, o)
    PROVE  WorkInv'
  <1>1. ASSUME NEW g \in Cooks, NEW f \in Cooks \ {g}, NEW o \in DOMAIN handler'[g].wrote
        PROVE  o \notin DOMAIN handler'[f].wrote
    <2>1. \A o2 \in DOMAIN k.wrote, e \in Cooks \ {h} : o2 \notin DOMAIN handler[e].wrote
      BY DEF WorkInv, LocksApart, FreeFor
    <2> QED
      BY <1>1, <2>1 DEF WorkInv, LocksApart, FreeFor, Within, Moves
  <1>2. \A g \in Cooks : Working(handler[g])'
    BY DEF WorkInv, Within, Moves, Working
  <1> QED
    BY <1>1, <1>2 DEF WorkInv, LocksApart, FreeFor, Within, Moves

\* What a commit does: the view becomes the table, and the others are disturbed.
LEMMA CommitMoves ==
    ASSUME WorkInv, NEW h \in Cooks, NEW j, j = handler[h], CommitHandler(h)
    PROVE  /\ settled' = ~ j.disturbed
           /\ DOMAIN handler' = Cooks /\ handler'[h] = Resting
           /\ \A g \in Cooks \ {h} :
                handler'[g] = IF handler[g].step = "idle" THEN handler[g]
                              ELSE [handler[g] EXCEPT !.disturbed = TRUE]
           /\ \/ j.step = "commit" /\ orders' = View(j)
              \/ /\ j.step = "update" /\ j.todo = {First(j.todo)}
                 /\ orders' = Over(WrittenRows(h))
  BY DEF CommitHandler, View

LEMMA WorkStep == WorkInv /\ [KitchenNext]_kitchenVars => WorkInv'
  <1> SUFFICES ASSUME WorkInv, [KitchenNext]_kitchenVars PROVE WorkInv'
    OBVIOUS
  <1>1. ASSUME NEW h \in Cooks, NEW o \in Orders, NEW target \in Status,
               LoadOrder(h, o, target)
        PROVE  WorkInv'
    <2>1. PICK k : Within(h, k) /\ Begins(k, o, target)
      BY <1>1, LoadMoves
    <2>2. DOMAIN k.wrote = {}
      BY <2>1 DEF Begins
    <2>3. Working(k)
      BY <2>1, <2>2 DEF Working, Begins
    <2> QED
      BY <2>1, <2>2, <2>3, WorkMoves
  <1>2. ASSUME NEW h \in Cooks, FlushStatus(h)
        PROVE  WorkInv'
    <2>1. PICK j : j = handler[h]
      OBVIOUS
    <2>2. PICK k : /\ j.step = "flush" /\ FreeFor(h, j.order)
                   /\ Within(h, k) /\ Carries(j, k)
                   /\ k.wrote = Flushed(j) /\ k.todo = Active(View(k))
                   /\ k.step = IF k.todo = {} THEN "commit" ELSE "estimate"
      BY <1>2, <2>1, FlushMoves
    <2>3. Working(j) /\ j.order \in Orders
      BY <2>1, <2>2 DEF WorkInv, Working
    <2>4. DOMAIN k.wrote = {j.order} /\ k.wrote[j.order] \in OrderRow
      BY <2>2, <2>3 DEF Flushed, WorkInv, Working, OrderRow
    <2>5. Working(k)
      BY <2>2, <2>3, <2>4 DEF Working, Carries, Active
    <2> QED
      BY <2>2, <2>4, <2>5, WorkMoves
  <1>3. ASSUME NEW h \in Cooks, Estimate(h)
        PROVE  WorkInv'
    <2>1. PICK j : j = handler[h]
      OBVIOUS
    <2>2. PICK k : /\ j.step = "estimate" /\ Within(h, k) /\ Carries(j, k)
                   /\ k.step = "update" /\ k.eta = Eta(View(j), First(j.todo))
                   /\ k.wrote = j.wrote /\ k.todo = j.todo /\ k.loaded = j.loaded
      BY <1>3, <2>1, EstimateMoves
    <2>3. Working(k)
      BY <2>1, <2>2, EtaNat DEF WorkInv, Working, Carries
    <2> QED
      BY <2>1, <2>2, <2>3, WorkMoves
  <1>4. ASSUME NEW h \in Cooks, UpdateEta(h)
        PROVE  WorkInv'
    <2>1. PICK j : j = handler[h]
      OBVIOUS
    <2>2. PICK o : o = First(j.todo)
      OBVIOUS
    <2>3. PICK k : /\ j.step = "update" /\ FreeFor(h, o) /\ j.todo \ {o} # {}
                   /\ Within(h, k) /\ Carries(j, k)
                   /\ k.step = "update" /\ k.wrote = WrittenRows(h)
                   /\ k.todo = j.todo \ {o} /\ k.loaded = j.loaded
                   /\ k.eta = Eta(View(k), First(k.todo))
      BY <1>4, <2>1, <2>2, UpdateMoves
    <2>4. /\ o \in Orders /\ DOMAIN k.wrote = DOMAIN j.wrote \cup {o}
          /\ \A p \in DOMAIN k.wrote : k.wrote[p] \in OrderRow
      BY <2>1, <2>2, <2>3, WrittenIs DEF WrittenTo
    <2>5. Working(k)
      BY <2>1, <2>3, <2>4, EtaNat DEF WorkInv, Working, Carries
    <2> QED
      BY <2>1, <2>3, <2>4, <2>5, WorkMoves
  <1>5. ASSUME NEW h \in Cooks, CommitHandler(h)
        PROVE  WorkInv'
    <2>1. PICK j : j = handler[h]
      OBVIOUS
    <2>2. Working(j) /\ j.disturbed \in BOOLEAN
      BY <2>1 DEF WorkInv, Working
    <2>3. /\ settled' = ~ j.disturbed
          /\ DOMAIN handler' = Cooks /\ handler'[h] = Resting
          /\ \A g \in Cooks \ {h} :
               handler'[g] = IF handler[g].step = "idle" THEN handler[g]
                             ELSE [handler[g] EXCEPT !.disturbed = TRUE]
          /\ \/ orders' = View(j)
             \/ j.step = "update" /\ orders' = Over(WrittenRows(h))
      BY <1>5, <2>1, CommitMoves
    <2>4. orders' \in [Orders -> OrderRow]
      <3>1. View(j) \in [Orders -> OrderRow]
        BY <2>2, ViewRows
      <3>2. j.step = "update" => Over(WrittenRows(h)) \in [Orders -> OrderRow]
        BY <2>1, WrittenIs DEF WrittenTo
      <3> QED
        BY <2>3, <3>1, <3>2
    <2>5. ASSUME NEW g \in Cooks
          PROVE  /\ Working(handler'[g])
                 /\ DOMAIN handler'[g].wrote \subseteq DOMAIN handler[g].wrote
      <3>1. CASE g = h
        <4>1. DOMAIN Resting.wrote = {}
          BY DEF Resting
        <4> QED
          BY <2>3, <3>1, <4>1, RestingTyped
      <3>2. CASE g # h
        <4>1. PICK i : i = handler[g]
          OBVIOUS
        <4>2. Working(i)
          BY <4>1 DEF WorkInv
        <4>3. PICK k : k = [i EXCEPT !.disturbed = TRUE]
          OBVIOUS
        <4>4. Working(k) /\ k.wrote = i.wrote
          BY <4>2, <4>3 DEF Working, Resting
        <4> QED
          BY <2>3, <3>2, <4>1, <4>2, <4>3, <4>4
      <3> QED
        BY <3>1, <3>2
    <2>6. LocksApart'
      BY <2>3, <2>5 DEF WorkInv, LocksApart, FreeFor
    <2> QED
      BY <2>2, <2>3, <2>4, <2>5, <2>6 DEF WorkInv, Working
  <1>6. ASSUME NEW h \in Cooks, AbortHandler(h)
        PROVE  WorkInv'
    <2>1. Within(h, Resting)
      BY <1>6 DEF AbortHandler, Within, Moves, WorkInv
    <2>2. DOMAIN Resting.wrote = {}
      BY DEF Resting
    <2> QED
      BY <2>1, <2>2, RestingTyped, WorkMoves
  <1>7. CASE UNCHANGED kitchenVars
    BY <1>7 DEF kitchenVars, WorkInv, LocksApart, FreeFor, Working
  <1> QED
    BY <1>1, <1>2, <1>3, <1>4, <1>5, <1>6, <1>7 DEF KitchenNext

-----------------------------------------------------------------------------
(* Estimates.                                                              *)

\* While nothing is committed, only the handler that moves has to be looked at.
LEMMA RenumberingMoves ==
    ASSUME WorkInv, RenumberingInv, NEW h \in Cooks, NEW k, Within(h, k),
           k.step # "idle" /\ ~ k.disturbed => Renumbering(k)
    PROVE  RenumberingInv'
  <1>1. EtaFollowsQueue'
    BY DEF RenumberingInv, EtaFollowsQueue, Within
  <1>2. ASSUME NEW i, Renumbering(i)
        PROVE  Renumbering(i)'
    BY <1>2 DEF Renumbering, View, Over, Within
  <1>3. ASSUME NEW g \in Cooks, handler'[g].step # "idle", ~ handler'[g].disturbed
        PROVE  Renumbering(handler[g])'
    <2>1. PICK i : i = handler'[g]
      OBVIOUS
    <2>2. Renumbering(i)
      BY <1>3, <2>1 DEF RenumberingInv, Within, Moves
    <2>3. Renumbering(i)'
      BY <1>2, <2>2
    <2> QED
      BY <2>1, <2>3 DEF Renumbering
  <1> QED
    BY <1>1, <1>3 DEF RenumberingInv

\* Once its status is flushed, every active order is still to do, and the
\* handler has the estimate that the table holds.
LEMMA FlushRenumbers ==
    ASSUME WorkInv, NEW h \in Cooks, NEW j, j = handler[h], NEW k, Working(k),
           j.step = "flush", Carries(j, k), Renumbering(j),
           k.wrote = Flushed(j), k.todo = Active(View(k)), k.step # "update",
           k.loaded = FoundEtas(j, k.todo)
    PROVE  Renumbering(k)
  <1>1. k.order = j.order /\ j.order \in Orders /\ j.loaded[j.order] = orders[j.order].eta
    BY DEF WorkInv, Working, Carries, Renumbering
  <1>2. /\ DOMAIN k.loaded = k.todo \cup {j.order}
        /\ \A p \in k.todo \cup {j.order} : k.loaded[p] = orders[p].eta
    BY <1>1 DEF FoundEtas
  <1>3. DOMAIN k.wrote = {j.order} /\ k.wrote[j.order].eta = orders[j.order].eta
    BY <1>1 DEF Flushed, WorkInv, OrderRow
  <1>4. \A p \in Orders : View(k)[p].eta = orders[p].eta
    BY <1>3, ViewRows
  <1>5. k.todo \subseteq Orders
    BY DEF Working
  <1> QED
    BY <1>1, <1>2, <1>4, <1>5 DEF Renumbering

\* The UPDATE of an estimate gives its order the estimate of the view, which
\* has the same statuses before and after.
LEMMA UpdateRenumbers ==
    ASSUME WorkInv, NEW h \in Cooks, NEW j, j = handler[h], j.step = "update",
           Renumbering(j), NEW o, o = First(j.todo),
           NEW view, view = Over(WrittenRows(h))
    PROVE  /\ Active(view) = Active(View(j))
           /\ \A p \in j.todo \ {o} : view[p].eta = View(j)[p].eta
           /\ \A p \in Active(view) \ (j.todo \ {o}) : view[p].eta = Eta(view, p)
  <1>1. PICK rows : rows = WrittenRows(h)
    OBVIOUS
  <1>a. view = Over(rows) /\ WrittenTo(j, o, rows)
    BY <1>1, WrittenIs
  <1>2. /\ o \in j.todo /\ o \in Orders
        /\ \A p \in Orders : p # o => view[p] = View(j)[p]
        /\ \A p \in Orders : view[p].status = View(j)[p].status
        /\ view[o].eta = IF j.eta = j.loaded[o] THEN View(j)[o].eta ELSE j.eta
    BY <1>a DEF WrittenTo
  <1>3. Active(view) = Active(View(j)) /\ \A p : Eta(view, p) = Eta(View(j), p)
    BY <1>2, EtaOfStatuses
  <1>4. view[o].eta = Eta(view, o)
    <2>1. j.eta = Eta(View(j), o) /\ j.loaded[o] = View(j)[o].eta
      BY <1>2 DEF Renumbering
    <2> QED
      BY <1>2, <1>3, <2>1
  <1>5. j.todo \subseteq Orders /\ Active(view) \subseteq Orders
    BY DEF WorkInv, Working, Active
  <1>6. ASSUME NEW p \in Active(view) \ (j.todo \ {o})
        PROVE  view[p].eta = Eta(view, p)
    <2>1. CASE p = o
      BY <1>4, <2>1
    <2>2. CASE p # o
      <3>1. View(j)[p].eta = Eta(View(j), p)
        BY <1>3, <1>6, <2>2 DEF Renumbering
      <3> QED
        BY <1>2, <1>3, <1>5, <2>2, <3>1
    <2> QED
      BY <2>1, <2>2
  <1> QED
    BY <1>2, <1>3, <1>5, <1>6

\* A handler nobody disturbed commits a table whose estimates are right.
LEMMA CommitRenumbers ==
    ASSUME WorkInv, RenumberingInv, NEW h \in Cooks, CommitHandler(h)
    PROVE  RenumberingInv'
  <1>1. PICK j : j = handler[h]
    OBVIOUS
  <1>2. /\ settled' = ~ j.disturbed
        /\ handler'[h] = Resting
        /\ \A g \in Cooks \ {h} :
             handler'[g] = IF handler[g].step = "idle" THEN handler[g]
                           ELSE [handler[g] EXCEPT !.disturbed = TRUE]
        /\ \/ j.step = "commit" /\ orders' = View(j)
           \/ /\ j.step = "update" /\ j.todo = {First(j.todo)}
              /\ orders' = Over(WrittenRows(h))
    BY <1>1, CommitMoves
  <1>3. PICK view : view = orders'
    OBVIOUS
  <1>4. ASSUME settled'
        PROVE  \A o \in Active(view) : view[o].eta = Eta(view, o)
    <2>1. Working(j) /\ j.step # "idle" /\ ~ j.disturbed /\ Renumbering(j)
      BY <1>1, <1>2, <1>4 DEF WorkInv, RenumberingInv
    <2>2. CASE j.step = "commit" /\ view = View(j)
      BY <2>1, <2>2 DEF Working, Renumbering
    <2>3. CASE j.step = "update" /\ j.todo = {First(j.todo)} /\ view = Over(WrittenRows(h))
      <3>1. PICK o : o = First(j.todo)
        OBVIOUS
      <3>2. \A p \in Active(view) \ (j.todo \ {o}) : view[p].eta = Eta(view, p)
        BY <1>1, <2>1, <2>3, <3>1, UpdateRenumbers
      <3> QED
        BY <2>3, <3>1, <3>2
    <2> QED
      BY <1>2, <1>3, <2>2, <2>3
  <1>5. EtaFollowsQueue'
    BY <1>3, <1>4 DEF EtaFollowsQueue, Active, Eta
  <1>6. ASSUME NEW g \in Cooks
        PROVE  handler'[g].step = "idle" \/ handler'[g].disturbed
    <2>1. CASE g = h
      BY <1>2, <2>1 DEF Resting
    <2>2. CASE g # h
      <3>1. PICK i : i = handler[g]
        OBVIOUS
      <3>2. DOMAIN i = DOMAIN Resting
        BY <3>1 DEF WorkInv, Working
      <3>3. [i EXCEPT !.disturbed = TRUE].disturbed
        BY <3>2 DEF Resting
      <3> QED
        BY <1>2, <2>2, <3>1, <3>3
    <2> QED
      BY <2>1, <2>2
  <1> QED
    BY <1>5, <1>6 DEF RenumberingInv

LEMMA RenumberingStep ==
    WorkInv /\ WorkInv' /\ RenumberingInv /\ [KitchenNext]_kitchenVars => RenumberingInv'
  <1> SUFFICES ASSUME WorkInv, WorkInv', RenumberingInv, [KitchenNext]_kitchenVars
               PROVE  RenumberingInv'
    OBVIOUS
  <1>0. ASSUME NEW h \in Cooks, NEW k, Within(h, k)
        PROVE  Working(k)
    BY <1>0 DEF WorkInv, Within, Moves, Working
  <1>1. ASSUME NEW h \in Cooks, NEW o \in Orders, NEW target \in Status,
               LoadOrder(h, o, target)
        PROVE  RenumberingInv'
    <2>1. PICK k : Within(h, k) /\ Begins(k, o, target)
      BY <1>1, LoadMoves
    <2>2. Renumbering(k)
      BY <2>1 DEF Begins, Renumbering
    <2> QED
      BY <2>1, <2>2, RenumberingMoves
  <1>2. ASSUME NEW h \in Cooks, FlushStatus(h)
        PROVE  RenumberingInv'
    <2>1. PICK j : j = handler[h]
      OBVIOUS
    <2>2. PICK k : /\ j.step = "flush" /\ FreeFor(h, j.order)
                   /\ Within(h, k) /\ Carries(j, k)
                   /\ k.wrote = Flushed(j) /\ k.todo = Active(View(k))
                   /\ k.step = IF k.todo = {} THEN "commit" ELSE "estimate"
                   /\ k.loaded = FoundEtas(j, k.todo)
      BY <1>2, <2>1, FlushMoves
    <2>3. ~ k.disturbed => Renumbering(j)
      BY <2>1, <2>2 DEF RenumberingInv, Carries
    <2>4. k.step # "update"
      BY <2>2
    <2>5. ~ k.disturbed => Renumbering(k)
      BY <1>0, <2>1, <2>2, <2>3, <2>4, FlushRenumbers
    <2> QED
      BY <2>2, <2>5, RenumberingMoves
  <1>3. ASSUME NEW h \in Cooks, Estimate(h)
        PROVE  RenumberingInv'
    <2>1. PICK j : j = handler[h]
      OBVIOUS
    <2>2. PICK k : /\ j.step = "estimate" /\ Within(h, k) /\ Carries(j, k)
                   /\ k.step = "update" /\ k.eta = Eta(View(j), First(j.todo))
                   /\ k.wrote = j.wrote /\ k.todo = j.todo /\ k.loaded = j.loaded
      BY <1>3, <2>1, EstimateMoves
    <2>3. ~ k.disturbed => Renumbering(j)
      BY <2>1, <2>2 DEF RenumberingInv, Carries
    <2>4. View(k) = View(j)
      BY <2>2 DEF View
    <2>5. ~ k.disturbed => Renumbering(k)
      BY <2>2, <2>3, <2>4 DEF Renumbering, Carries
    <2> QED
      BY <2>2, <2>5, RenumberingMoves
  <1>4. ASSUME NEW h \in Cooks, UpdateEta(h)
        PROVE  RenumberingInv'
    <2>1. PICK j : j = handler[h]
      OBVIOUS
    <2>2. PICK o : o = First(j.todo)
      OBVIOUS
    <2>3. PICK k : /\ j.step = "update" /\ FreeFor(h, o) /\ j.todo \ {o} # {}
                   /\ Within(h, k) /\ Carries(j, k)
                   /\ k.step = "update" /\ k.wrote = WrittenRows(h)
                   /\ k.todo = j.todo \ {o} /\ k.loaded = j.loaded
                   /\ k.eta = Eta(View(k), First(k.todo))
      BY <1>4, <2>1, <2>2, UpdateMoves
    <2>4. SUFFICES ASSUME ~ k.disturbed PROVE Renumbering(k)
      BY <2>3, RenumberingMoves
    <2>5. Renumbering(j)
      BY <2>1, <2>3, <2>4 DEF RenumberingInv, Carries
    <2>6. View(k) = Over(WrittenRows(h))
      BY <2>3 DEF View
    <2>7. /\ Active(View(k)) = Active(View(j))
          /\ \A p \in j.todo \ {o} : View(k)[p].eta = View(j)[p].eta
          /\ \A p \in Active(View(k)) \ (j.todo \ {o}) : View(k)[p].eta = Eta(View(k), p)
      BY <2>1, <2>2, <2>3, <2>5, <2>6, UpdateRenumbers
    <2> QED
      BY <2>3, <2>5, <2>7 DEF Renumbering, Carries
  <1>5. ASSUME NEW h \in Cooks, CommitHandler(h)
        PROVE  RenumberingInv'
    BY <1>5, CommitRenumbers
  <1>6. ASSUME NEW h \in Cooks, AbortHandler(h)
        PROVE  RenumberingInv'
    <2>1. Within(h, Resting)
      BY <1>6 DEF AbortHandler, Within, Moves, WorkInv
    <2> QED
      BY <2>1, RenumberingMoves DEF Resting
  <1>7. CASE UNCHANGED kitchenVars
    BY <1>7 DEF kitchenVars, RenumberingInv, EtaFollowsQueue, Renumbering, View, Over
  <1> QED
    BY <1>1, <1>2, <1>3, <1>4, <1>5, <1>6, <1>7 DEF KitchenNext

LEMMA InitRenumbering == KitchenInit => RenumberingInv
  <1> SUFFICES ASSUME KitchenInit PROVE RenumberingInv
    OBVIOUS
  <1>1. Active(orders) = {}
    BY DEF KitchenInit, Active, EtaActive
  <1>2. \A h \in Cooks : handler[h].step = "idle"
    BY DEF KitchenInit, Resting
  <1> QED
    BY <1>1, <1>2 DEF RenumberingInv, EtaFollowsQueue

LEMMA KitchenInvariant == KitchenSpec => [](WorkInv /\ RenumberingInv)
  BY InitWork, WorkStep, InitRenumbering, RenumberingStep, PTL DEF KitchenSpec

\* Whatever handlers overlap, no order has uncommitted UPDATEs of two, and rows
\* keep statuses and estimates of their kind (READ COMMITTED with row locks).
THEOREM KitchenTypes == KitchenSpec => []KitchenTypeOK
  <1>1. WorkInv => KitchenTypeOK
    BY DEF WorkInv, KitchenTypeOK, LocksApart, Working
  <1> QED
    BY <1>1, KitchenInvariant, PTL

\* After a handler during which no other committed, every active order has the
\* estimate of its queue, for any number of orders, slots and handlers
\* (recalculate_queue_etas_for_scope).
THEOREM EtasSafe == KitchenSpec => []EtaFollowsQueue
  <1>1. RenumberingInv => EtaFollowsQueue
    BY DEF RenumberingInv
  <1> QED
    BY <1>1, KitchenInvariant, PTL

\* The guard of a handler allows statuses of the orders table only.
LEMMA LoadIsStep ==
    ASSUME NEW h \in Cooks, NEW o \in Orders, NEW target, LoadOrder(h, o, target)
    PROVE  KitchenNext
  <1>1. target \in Targets(TypeOf[o], orders[o].status)
    BY DEF LoadOrder
  <1>2. target \in Status
    BY <1>1 DEF Targets, FulfillmentTargets, Status
  <1> QED
    BY <1>2 DEF KitchenNext
=============================================================================
