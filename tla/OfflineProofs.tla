---------------------------- MODULE OfflineProofs ---------------------------
(***************************************************************************)
(* Theorems about OfflineQueue, for any number of orders, addresses, forms,*)
(* writes, rows, sessions, pages and drains.  The first three hold however *)
(* many pages drain the queue; the others for one page and one drain       *)
(* (OneDrain) and any forms, the last of them if every answer arrives.     *)
(***************************************************************************)
EXTENDS OfflineQueue, SequenceTheorems, WellFoundedInduction, TLAPS

ItemStatus == {"local_queued", "syncing", "failed_retrying", "conflict"}

\* Writes are numbered apart.
Distinct(items) == \A i, j \in items : i.write = j.write => i = j

\* An item about something that exists: a write that was made, of an entity
\* with a local id or a row.
Known(i) ==
    /\ i.write <= writes
    /\ i.id \in Locals \cup 1..Len(rows)
    /\ i.action = "address.create" => i.id \in Addresses

\* Two records of one write are about the same entity.
SameWrite(i, j) == i.write = j.write => i.action = j.action /\ i.id = j.id

\* The moments at which these items were enqueued have a last.
Placed(items) == \E k \in Nat : \A i \in items : i.place <= k

QueueKnown ==
    /\ queue \subseteq Item /\ Distinct(queue) /\ Placed(queue)
    /\ \A i \in queue : Known(i)

\* What a drain has in hand: writes as the queue knew them, and an id that is
\* the item's own or a row.  It owes the answer only to what was applied.
DrainKnown(drain) ==
    /\ drain \in Drain
    /\ Distinct(drain.todo)
    /\ \A i \in drain.todo : Known(i) /\ \A j \in queue : SameWrite(i, j)
    /\ drain.phase \in {"waiting", "applied", "created"} =>
         /\ drain.todo # {}
         /\ drain.target \in {First(drain.todo).id} \cup 1..Len(rows)
    /\ drain.phase = "created" =>
         drain.target \in 1..Len(rows) /\ First(drain.todo).id \in Locals
    /\ drain.phase \in {"applied", "created"} => applied[First(drain.todo).write] > 0

LoopKnown ==
    /\ loop \in [Pages -> [Loops -> Drain]]
    /\ \A p \in Pages, d \in Loops : DrainKnown(loop[p][d])

\* A form that is being sent or encrypted is about something that exists.
FormOk(h) ==
    /\ h \in Form /\ h.write <= writes
    /\ h.phase = "idle" => h = NoForm
    /\ h.phase # "idle" =>
         /\ h.id \in Locals \cup 1..Len(rows)
         /\ h.action = "address.create" => h.id \in Addresses
         /\ h.target \in {0, h.id} \cup 1..Len(rows)
         /\ h.write = 0 <=> h.action = "order.quote"
    /\ h.phase = "sealing" => h.action \in Sensitive

\* The write of a form is in no queue, in no drain and in no other form.
FormsApart ==
    \A p \in Pages, f \in Forms : form[p][f].write # 0 =>
        /\ \A i \in queue : i.write # form[p][f].write
        /\ \A q \in Pages, d \in Loops : \A i \in loop[q][d].todo :
                i.write # form[p][f].write
        /\ \A q \in Pages, g \in Forms :
                form[q][g].write = form[p][f].write => q = p /\ g = f

FormKnown ==
    /\ form \in [Pages -> [Forms -> Form]]
    /\ \A p \in Pages, f \in Forms : FormOk(form[p][f])
    /\ FormsApart

\* Local ids stand for rows there are.
MapKnown(map) == map \in IdMap /\ \A l \in Locals : map[l] <= Len(rows)

\* A page lists what exists.
PageKnown(view) == MapKnown(view.map) /\ view.ids \subseteq Locals \cup 1..Len(rows)

Mapped ==
    /\ MapKnown(stored)
    /\ page \in [Pages -> Page]
    /\ \A p \in Pages : PageKnown(page[p])

ServerKnown ==
    /\ rows \in Seq(RowOf) /\ Len(rows) <= MaxRows
    /\ applied \in [1..MaxWrites -> 0..2]

SessionKnown ==
    /\ online \in BOOLEAN
    /\ key \in [no : 1..MaxKeys, live : BOOLEAN]
    /\ ~ key.live => key.no < MaxKeys

CountsKnown == writes \in 0..MaxWrites /\ recalled \subseteq 1..MaxWrites

\* What holds however many pages and drains there are.
QueueInv ==
    /\ QueueKnown
    /\ LoopKnown
    /\ FormKnown
    /\ Mapped
    /\ ServerKnown
    /\ SessionKnown
    /\ CountsKnown

LEMMA QueueInvTypes == QueueInv => TypeOK
BY DEF QueueInv, QueueKnown, LoopKnown, FormKnown, Mapped, MapKnown, ServerKnown,
       SessionKnown, CountsKnown, TypeOK, Distinct

-----------------------------------------------------------------------------
(* Operators of the model.                                                 *)

LEMMA LeastOf ==
    ASSUME NEW N \in SUBSET Nat, N # {}
    PROVE  \E least \in N : \A n \in N : least <= n
  <1>1. PICK least \in N : \A n \in Nat : <<n, least>> \in OpToRel(<, Nat) => n \notin N
    BY NatLessThanWellFounded, WFMin
  <1>2. \A n \in N : ~ (n < least)
    BY <1>1 DEF OpToRel
  <1>3. \A n \in N : least \in Nat /\ n \in Nat
    OBVIOUS
  <1> QED
    BY <1>2, <1>3

\* A set of numbers with an upper bound has a greatest.
LEMMA GreatestOf ==
    ASSUME NEW N \in SUBSET Nat, N # {}, NEW k \in Nat, \A n \in N : n <= k
    PROVE  \E most \in N : \A n \in N : n <= most
  <1> DEFINE bounds == {b \in Nat : \A n \in N : n <= b}
  <1>1. bounds \in SUBSET Nat /\ bounds # {}
    OBVIOUS
  <1>2. PICK b \in bounds : \A c \in bounds : b <= c
    BY <1>1, LeastOf
  <1>3. b \in Nat /\ \A n \in N : n <= b
    OBVIOUS
  <1>4. b \in N
    <2> SUFFICES ASSUME b \notin N PROVE FALSE
      OBVIOUS
    <2>1. \A n \in N : n <= b - 1
      BY <1>3
    <2>2. PICK n \in N : n <= b - 1
      BY <2>1
    <2>3. b - 1 \in Nat
      BY <1>3, <2>2
    <2>4. b - 1 \in bounds
      BY <2>1, <2>3
    <2> QED
      BY <1>2, <1>3, <2>4
  <1> QED
    BY <1>3, <1>4

\* What waits has an earliest item.
LEMMA FirstIn ==
    ASSUME NEW items \in SUBSET Item, items # {}
    PROVE  First(items) \in items
  <1> DEFINE places == {i.place : i \in items}
  <1>1. places \in SUBSET Nat /\ places # {}
    BY DEF Item
  <1>2. PICK n \in places : \A m \in places : n <= m
    BY <1>1, LeastOf
  <1>3. PICK i \in items : i.place = n
    OBVIOUS
  <1>4. \A j \in items : i.place <= j.place
    BY <1>2, <1>3
  <1> QED
    BY <1>4 DEF First

\* There is a place behind all that wait.
LEMMA BehindAll ==
    ASSUME NEW items \in SUBSET Item, Placed(items)
    PROVE  Behind(items) \in Nat
  <1> DEFINE places == {i.place : i \in items}
  <1>1. CASE items = {}
    BY <1>1 DEF Behind
  <1>2. CASE items # {}
    <2>1. PICK k \in Nat : \A n \in places : n <= k
      BY DEF Placed
    <2>2. places \in SUBSET Nat /\ places # {}
      BY <1>2 DEF Item
    <2>3. \E most \in places : \A n \in places : n <= most
      BY <2>1, <2>2, GreatestOf
    <2>4. (CHOOSE m \in places : \A l \in places : l <= m) \in Nat
      BY <2>2, <2>3
    <2>5. Behind(items) = 1 + CHOOSE m \in places : \A l \in places : l <= m
      BY <1>2 DEF Behind
    <2> QED
      BY <2>4, <2>5
  <1> QED
    BY <1>1, <1>2

\* A local id is no row.
LEMMA LocalNoRow ==
    ASSUME NEW id \in Locals PROVE id \notin Nat /\ id \notin 1..Len(rows)
BY LocalIdsAssumption DEF Locals

\* An id the map knows is taken for its row.
LEMMA ResolveTo ==
    ASSUME ServerKnown, NEW map, MapKnown(map), NEW id \in Locals \cup 1..Len(rows)
    PROVE  Resolve(map, id) \in {id} \cup 1..Len(rows)
  <1>1. CASE id \in Locals /\ map[id] # 0
    <2>1. map[id] \in 0..MaxRows /\ map[id] <= Len(rows)
      BY <1>1 DEF MapKnown, IdMap
    <2>2. Len(rows) \in Nat
      BY DEF ServerKnown
    <2>3. map[id] \in 1..Len(rows)
      BY <1>1, <2>1, <2>2, BoundsAssumption
    <2> QED
      BY <1>1, <2>3 DEF Resolve
  <1>2. CASE ~ (id \in Locals /\ map[id] # 0)
    BY <1>2 DEF Resolve
  <1> QED
    BY <1>1, <1>2

-----------------------------------------------------------------------------
(* The server.                                                             *)

\* What the server applies creates at most one row and leaves the kinds of the
\* others as they were.
LEMMA Applies ==
    ASSUME ServerKnown, NEW action \in Action \cup {"order.quote"},
           NEW target \in {0} \cup Locals \cup 1..Len(rows), NEW n \in 0..MaxWrites,
           ServerApplies(action, target, n), n = 0 <=> action = "order.quote"
    PROVE  /\ ServerKnown'
           /\ Len(rows') = IF Creates(action, target) THEN Len(rows) + 1 ELSE Len(rows)
           /\ Creates(action, target) => rows'[Len(rows')].kind = Made(action)
           /\ ~ Creates(action, target) => target \in 1..Len(rows)
           /\ \A r \in 1..Len(rows) : rows'[r].kind = rows[r].kind
           /\ n # 0 => applied'[n] > 0
           /\ \A m \in (1..MaxWrites) \ {n} : applied'[m] = applied[m]
  <1>1. rows \in Seq(RowOf) /\ Len(rows) \in Nat /\ DOMAIN rows = 1..Len(rows)
    BY DEF ServerKnown
  <1>2. rows' = Served(action, target, n) /\ Accepts(action, target)
    BY DEF ServerApplies
  <1>3. /\ applied' \in [1..MaxWrites -> 0..2]
        /\ n # 0 => applied'[n] > 0
        /\ \A m \in (1..MaxWrites) \ {n} : applied'[m] = applied[m]
    BY BoundsAssumption DEF ServerApplies, ServerKnown
  <1>4. CASE Creates(action, target)
    <2> DEFINE row == [kind |-> Made(action), content |-> n, status |-> "open"]
    <2>1. row \in RowOf
      <3>1. n \in 1..MaxWrites
        BY <1>4 DEF Creates
      <3> QED
        BY <3>1 DEF RowOf, Made
    <2>2. rows' = Append(rows, row)
      BY <1>2, <1>4 DEF Served
    <2> HIDE DEF row
    <2>3. /\ rows' \in Seq(RowOf) /\ Len(rows') = Len(rows) + 1
          /\ rows'[Len(rows) + 1] = row
          /\ \A r \in 1..Len(rows) : rows'[r] = rows[r]
      BY <1>1, <2>1, <2>2, AppendProperties
    <2>4. Len(rows) < MaxRows
      BY <1>2, <1>4 DEF Accepts
    <2>5. Len(rows') <= MaxRows
      BY <1>1, <2>3, <2>4, BoundsAssumption
    <2>6. row.kind = Made(action)
      BY DEF row
    <2> QED
      BY <1>3, <1>4, <2>3, <2>5, <2>6 DEF ServerKnown
  <1>5. CASE ~ Creates(action, target)
    <2>1. target \in 1..Len(rows)
      BY <1>1, <1>2, <1>5 DEF Accepts
    <2>2. rows[target] \in RowOf
      BY <1>1, <2>1, ElementOfSeq
    <2>3. PICK row : row = Touched(action, rows[target], n)
      OBVIOUS
    <2>4. row \in RowOf /\ row.kind = rows[target].kind
      <3>1. CASE action = "order.quote"
        BY <2>2, <2>3, <3>1 DEF Touched, RowOf
      <3>2. CASE action # "order.quote"
        <4>1. n \in 1..MaxWrites
          BY <3>2
        <4> QED
          BY <2>2, <2>3, <3>2, <4>1 DEF Touched, RowOf
      <3> QED
        BY <3>1, <3>2
    <2>5. rows' = [rows EXCEPT ![target] = row]
      BY <1>2, <1>5, <2>3 DEF Served
    <2>6. /\ rows' \in Seq(RowOf) /\ Len(rows') = Len(rows)
          /\ \A r \in 1..Len(rows) : rows'[r] = IF r = target THEN row ELSE rows[r]
      BY <1>1, <2>1, <2>4, <2>5, ExceptSeq
    <2> QED
      BY <1>3, <1>5, <2>1, <2>4, <2>6 DEF ServerKnown
  <1> QED
    BY <1>4, <1>5

-----------------------------------------------------------------------------
(* What a step may do to the queue.                                        *)

Larger ==
    /\ writes' \in writes..MaxWrites
    /\ Len(rows') \in Nat /\ Len(rows) <= Len(rows')
    /\ \A r \in 1..Len(rows) : rows'[r].kind = rows[r].kind
    /\ \A n \in 1..MaxWrites : applied[n] > 0 => applied'[n] > 0

\* Every item left is one there was, perhaps marked, or a new write, or one that
\* a form had and is done with.
Moved ==
    \A j \in queue' :
        \/ \E i \in queue : i.write = j.write /\ SameWrite(i, j)
        \/ j.write > writes
        \/ \E p \in Pages, f \in Forms :
             form[p][f].write = j.write /\ form'[p][f].write = 0

\* What was known stays known, for larger tables.
LEMMA KnownStays ==
    ASSUME QueueInv, Larger, NEW i \in Item, Known(i)
    PROVE  Known(i)'
  <1>1. i.write \in Nat /\ writes \in Nat /\ writes' \in Nat /\ writes <= writes'
    BY BoundsAssumption DEF QueueInv, CountsKnown, Larger, Item
  <1>2. i.write <= writes'
    BY <1>1 DEF Known
  <1>3. i.id \in Locals \cup 1..Len(rows')
    BY DEF Known, QueueInv, ServerKnown, Larger
  <1> QED
    BY <1>2, <1>3 DEF Known

LEMMA QueueShrinks ==
    ASSUME QueueInv, Larger, queue' \subseteq queue
    PROVE  QueueKnown' /\ Moved
  <1>1. queue' \subseteq Item /\ Distinct(queue)' /\ Placed(queue)' /\ Moved
    BY DEF QueueInv, QueueKnown, Distinct, Placed, Moved, SameWrite
  <1>2. \A i \in queue' : Known(i)'
    BY KnownStays DEF QueueInv, QueueKnown
  <1> QED
    BY <1>1, <1>2 DEF QueueKnown

\* A mark changes neither what an item is about nor how many there are.
LEMMA QueueMarked ==
    ASSUME QueueInv, Larger, NEW n, NEW status \in ItemStatus, queue' = Marked(n, status)
    PROVE  /\ QueueKnown' /\ Moved
           /\ \A i \in queue : \E j \in queue' :
                  j.write = i.write /\ j.action = i.action /\ j.id = i.id
           /\ \A j \in queue' : \E i \in queue :
                  /\ j.write = i.write /\ j.action = i.action /\ j.id = i.id
                  /\ IF i.write = n THEN j.status = status ELSE j = i
  <1> DEFINE mark(i) == IF i.write = n THEN [i EXCEPT !.status = status] ELSE i
  <1>1. \A i \in Item :
           /\ mark(i) \in Item /\ mark(i).write = i.write /\ mark(i).action = i.action
           /\ mark(i).id = i.id /\ mark(i).place = i.place
           /\ IF i.write = n THEN mark(i).status = status ELSE mark(i) = i
    BY DEF Item, ItemStatus
  <1>2. /\ queue' = {mark(i) : i \in queue} /\ queue \subseteq Item /\ Distinct(queue)
        /\ Placed(queue)
    BY DEF Marked, QueueInv, QueueKnown
  <1> HIDE DEF mark
  <1>3. queue' \subseteq Item /\ Distinct(queue') /\ Placed(queue')
    BY <1>1, <1>2 DEF Distinct, Placed
  <1>4. Moved
    BY <1>1, <1>2 DEF Moved, SameWrite
  <1>5. \A i \in queue' : Known(i)'
    <2> SUFFICES ASSUME NEW i \in queue PROVE Known(mark(i))'
      BY <1>2
    <2>1. Known(mark(i))
      BY <1>1, <1>2 DEF Known, QueueInv, QueueKnown
    <2> QED
      BY <1>1, <1>2, <2>1, KnownStays
  <1>6. QueueKnown'
    BY <1>3, <1>5 DEF QueueKnown, Distinct, Placed
  <1> QED
    BY <1>1, <1>2, <1>4, <1>6

\* An item is put behind what is kept of the queue.
LEMMA QueueGrows ==
    ASSUME QueueInv, Larger, NEW kept, kept \subseteq queue, NEW action \in Action,
           NEW id \in Locals \cup 1..Len(rows), action = "address.create" => id \in Addresses,
           NEW no \in 0..MaxKeys, NEW n \in 1..MaxWrites, n <= writes',
           \A i \in queue : i.write # n,
           \/ n > writes
           \/ \E p \in Pages, f \in Forms : form[p][f].write = n /\ form'[p][f].write = 0,
           queue' = kept \cup {NewItem(n, action, id, no, kept)}
    PROVE  QueueKnown' /\ Moved
  <1>0. PICK new : new = NewItem(n, action, id, no, kept)
    OBVIOUS
  <1>1. /\ \A i \in queue : i \in Item /\ Known(i)
        /\ Distinct(queue) /\ Placed(kept) /\ kept \in SUBSET Item
    BY DEF QueueInv, QueueKnown, Placed
  <1>2. id \in Ids
    BY BoundsAssumption DEF Ids, QueueInv, ServerKnown
  <1>3. Behind(kept) \in Nat
    BY <1>1, BehindAll
  <1>4. new \in Item /\ new.write = n /\ new.action = action /\ new.id = id
    BY <1>0, <1>2, <1>3 DEF NewItem, Item
  <1>5. queue' = kept \cup {new}
    BY <1>0
  <1>6. queue' \subseteq Item /\ Distinct(queue')
    BY <1>1, <1>4, <1>5 DEF Distinct
  <1>7. Placed(queue')
    <2>1. PICK k \in Nat : \A i \in kept : i.place <= k
      BY <1>1 DEF Placed
    <2>2. new.place \in Nat
      BY <1>4 DEF Item
    <2>3. k + new.place \in Nat /\ \A i \in kept \cup {new} : i.place <= k + new.place
      BY <1>1, <2>1, <2>2 DEF Item
    <2> QED
      BY <1>5, <2>3 DEF Placed
  <1>8. Moved
    <2> SUFFICES ASSUME NEW j \in queue'
                 PROVE  \/ \E i \in queue : i.write = j.write /\ SameWrite(i, j)
                        \/ j.write > writes
                        \/ \E p \in Pages, f \in Forms :
                             form[p][f].write = j.write /\ form'[p][f].write = 0
      BY DEF Moved
    <2>1. CASE j \in queue
      BY <2>1 DEF SameWrite
    <2>2. CASE j = new
      BY <1>4, <2>2
    <2> QED
      BY <1>5, <2>1, <2>2
  <1>9. Known(new)'
    <2>1. id \in Locals \cup 1..Len(rows')
      BY DEF Larger, QueueInv, ServerKnown
    <2> QED
      BY <1>4, <2>1 DEF Known
  <1>10. \A i \in queue' : Known(i)'
    BY <1>1, <1>5, <1>9, KnownStays
  <1> QED
    BY <1>6, <1>7, <1>8, <1>10 DEF QueueKnown, Distinct, Placed

-----------------------------------------------------------------------------
(* What a step may do to a drain.                                          *)

\* A drain another step does not touch still knows what it has in hand.
LEMMA DrainStays ==
    ASSUME QueueInv, Larger, Moved, QueueKnown', NEW p \in Pages, NEW d \in Loops,
           NEW drain, DrainKnown(drain), drain.todo \subseteq loop[p][d].todo
    PROVE  DrainKnown(drain)'
  <1>1. drain \in Drain /\ Distinct(drain.todo) /\ drain.todo \subseteq Item
    BY DEF DrainKnown, Drain
  <1>2. \A i \in drain.todo : Known(i)'
    BY <1>1, KnownStays DEF DrainKnown
  <1>3. ASSUME NEW i \in drain.todo, NEW j \in queue' PROVE SameWrite(i, j)
    <2>0. j \in Item /\ j.write \in 1..MaxWrites
      BY DEF QueueKnown, Item
    <2>1. Known(i) /\ i.write \in Nat /\ writes \in Nat
      BY <1>1 DEF DrainKnown, Item, QueueInv, CountsKnown
    <2>2. CASE j.write > writes
      BY <2>0, <2>1, <2>2, BoundsAssumption DEF Known, SameWrite
    <2>3. CASE \E k \in queue : k.write = j.write /\ SameWrite(k, j)
      BY <2>3 DEF DrainKnown, SameWrite
    <2>4. CASE \E q \in Pages, f \in Forms :
                  form[q][f].write = j.write /\ form'[q][f].write = 0
      <3>1. i.write # j.write
        BY <2>0, <2>4 DEF QueueInv, FormKnown, FormsApart
      <3> QED
        BY <3>1 DEF SameWrite
    <2> QED
      BY <2>2, <2>3, <2>4 DEF Moved
  <1>4. 1..Len(rows) \subseteq 1..Len(rows')
    BY DEF QueueInv, ServerKnown, Larger
  <1>5. drain.phase \in {"applied", "created"} => applied'[First(drain.todo).write] > 0
    <2> SUFFICES ASSUME drain.phase \in {"applied", "created"}
                 PROVE  applied'[First(drain.todo).write] > 0
      OBVIOUS
    <2>1. drain.todo # {} /\ applied[First(drain.todo).write] > 0
      BY DEF DrainKnown
    <2>2. First(drain.todo).write \in 1..MaxWrites
      BY <1>1, <2>1, FirstIn DEF Item
    <2> QED
      BY <2>1, <2>2 DEF Larger
  <1> QED
    BY <1>1, <1>2, <1>3, <1>4, <1>5 DEF DrainKnown

LEMMA NoDrainKnown == DrainKnown(NoDrain)
  <1>1. NoDrain \in Drain
    BY DEF NoDrain, Drain
  <1> QED
    BY <1>1 DEF DrainKnown, Distinct, NoDrain

\* A snapshot of the queue is known.
LEMMA DrainOfKnown ==
    ASSUME QueueKnown, NEW load \in BOOLEAN
    PROVE  DrainKnown(DrainOf(queue, load)) /\ DrainOf(queue, load) # NoDrain
  <1>1. DrainOf(queue, load) \in Drain
    BY DEF DrainOf, Drain, QueueKnown
  <1>2. DrainOf(queue, load).todo \subseteq queue
        /\ DrainOf(queue, load).phase = "running"
    BY DEF DrainOf
  <1> QED
    BY <1>1, <1>2 DEF DrainKnown, QueueKnown, Distinct, SameWrite, NoDrain

\* The drains after a step: each is as it was or has what it knows, and takes
\* up only what is in the queue.
LoopMoved ==
    /\ loop' \in [Pages -> [Loops -> Drain]]
    /\ \A p \in Pages, d \in Loops :
          /\ loop'[p][d] = loop[p][d] \/ DrainKnown(loop[p][d])'
          /\ loop'[p][d].todo \subseteq queue' \cup loop[p][d].todo

LEMMA LoopKept ==
    ASSUME QueueInv, Larger, Moved, QueueKnown', LoopMoved
    PROVE  LoopKnown'
  <1> SUFFICES ASSUME NEW p \in Pages, NEW d \in Loops PROVE DrainKnown(loop[p][d])'
    BY DEF LoopMoved, LoopKnown
  <1>1. CASE loop'[p][d] = loop[p][d]
    <2>1. PICK drain : drain = loop[p][d]
      OBVIOUS
    <2>2. DrainKnown(drain)
      BY <2>1 DEF QueueInv, LoopKnown
    <2>3. DrainKnown(drain)'
      BY <2>1, <2>2, DrainStays
    <2>4. loop'[p][d] = drain
      BY <1>1, <2>1
    <2> QED
      BY <2>3, <2>4 DEF DrainKnown
  <1> QED
    BY <1>1 DEF LoopMoved

LEMMA LoopUnmoved == ASSUME QueueInv, UNCHANGED loop PROVE LoopMoved
BY DEF QueueInv, LoopKnown, LoopMoved

LEMMA LoopSet ==
    ASSUME QueueInv, NEW p \in Pages, NEW d \in Loops, NEW next \in Drain,
           loop' = [loop EXCEPT ![p][d] = next], DrainKnown(next)',
           next.todo \subseteq queue' \cup loop[p][d].todo
    PROVE  LoopMoved /\ loop'[p][d] = next
  <1>1. loop \in [Pages -> [Loops -> Drain]]
    BY DEF QueueInv, LoopKnown
  <1>2. loop' \in [Pages -> [Loops -> Drain]] /\ loop'[p][d] = next
    BY <1>1
  <1>3. ASSUME NEW q \in Pages, NEW e \in Loops
        PROVE  /\ loop'[q][e] = loop[q][e] \/ DrainKnown(loop[q][e])'
               /\ loop'[q][e].todo \subseteq queue' \cup loop[q][e].todo
    <2>1. CASE q = p /\ e = d
      BY <1>2, <2>1 DEF DrainKnown
    <2>2. CASE ~ (q = p /\ e = d)
      BY <1>1, <2>2
    <2> QED
      BY <2>1, <2>2
  <1> QED
    BY <1>2, <1>3 DEF LoopMoved

\* What a drain that has something to do has in hand.
LEMMA CurrentKnown ==
    ASSUME QueueInv, NEW p \in Pages, NEW d \in Loops, loop[p][d].todo # {}
    PROVE  /\ Current(p, d) \in loop[p][d].todo /\ Current(p, d) \in Item
           /\ Known(Current(p, d))
           /\ \A j \in queue : SameWrite(Current(p, d), j)
           /\ Target(p, d) \in {Current(p, d).id} \cup 1..Len(rows)
  <1>1. DrainKnown(loop[p][d]) /\ loop[p][d].todo \in SUBSET Item
    BY DEF QueueInv, LoopKnown, DrainKnown, Drain
  <1>2. Current(p, d) \in loop[p][d].todo
    BY <1>1, FirstIn DEF Current
  <1>3. Known(Current(p, d)) /\ \A j \in queue : SameWrite(Current(p, d), j)
    BY <1>1, <1>2 DEF DrainKnown
  <1>4. Target(p, d) \in {Current(p, d).id} \cup 1..Len(rows)
    BY <1>3, ResolveTo DEF Target, QueueInv, Mapped, PageKnown, Known
  <1> QED
    BY <1>1, <1>2, <1>3, <1>4

\* The drain goes on with what is left.
LEMMA LoopAdvanced ==
    ASSUME QueueInv, Larger, Moved, QueueKnown', NEW p \in Pages, NEW d \in Loops,
           loop[p][d].todo # {}, Advance(p, d)
    PROVE  /\ LoopMoved
           /\ loop'[p][d].todo = loop[p][d].todo \ {Current(p, d)}
           /\ loop'[p][d].phase = "running" /\ loop'[p][d].load = loop[p][d].load
  <1>1. PICK drain : drain = loop[p][d]
    OBVIOUS
  <1>2. PICK current : current = Current(p, d)
    OBVIOUS
  <1> DEFINE rest == drain.todo \ {current}
  <1>3. PICK next : next = [drain EXCEPT !.phase = "running", !.target = 0, !.todo = rest]
    OBVIOUS
  <1>4. DrainKnown(drain) /\ drain \in Drain
    BY <1>1 DEF QueueInv, LoopKnown, DrainKnown
  <1>5. next \in Drain /\ next.todo = drain.todo \ {current} /\ next.phase = "running"
        /\ next.load = drain.load
    BY <1>3, <1>4 DEF Drain
  <1>6. DrainKnown(next)
    BY <1>4, <1>5 DEF DrainKnown, Distinct
  <1>7. DrainKnown(next)'
    BY <1>1, <1>5, <1>6, DrainStays
  <1>8. loop' = [loop EXCEPT ![p][d] = next]
    BY <1>1, <1>2, <1>3 DEF Advance
  <1>9. LoopMoved /\ loop'[p][d] = next
    BY <1>1, <1>5, <1>7, <1>8, LoopSet
  <1> QED
    BY <1>1, <1>2, <1>5, <1>9

-----------------------------------------------------------------------------
(* What a step may do to the forms.                                        *)

LEMMA NoFormOk == ASSUME QueueInv, Larger PROVE FormOk(NoForm) /\ FormOk(NoForm)'
  <1>1. NoForm \in Form
    BY BoundsAssumption DEF NoForm, Form
  <1>2. 0 <= writes /\ 0 <= writes'
    BY BoundsAssumption DEF QueueInv, CountsKnown, Larger
  <1> QED
    BY <1>1, <1>2 DEF FormOk, NoForm

LEMMA FormOkStays ==
    ASSUME QueueInv, Larger, NEW h, FormOk(h)
    PROVE  FormOk(h)'
  <1>1. h \in Form /\ h.write <= writes'
    <2>1. h.write \in Nat /\ writes \in Nat /\ writes' \in Nat /\ writes <= writes'
      BY BoundsAssumption DEF FormOk, Form, QueueInv, CountsKnown, Larger
    <2> QED
      BY <2>1 DEF FormOk
  <1>2. 1..Len(rows) \subseteq 1..Len(rows')
    BY DEF QueueInv, ServerKnown, Larger
  <1> QED
    BY <1>1, <1>2 DEF FormOk

\* The forms after a step: each is as it was or is fine, with the write it had,
\* none, or one that is new and nobody else's.
FormMoved ==
    /\ form' \in [Pages -> [Forms -> Form]]
    /\ \A p \in Pages, f \in Forms :
         /\ form'[p][f] = form[p][f] \/ FormOk(form[p][f])'
         /\ \/ form'[p][f].write \in {0, form[p][f].write}
            \/ /\ form'[p][f].write > writes
               /\ \A i \in queue' : i.write # form'[p][f].write
               /\ \A q \in Pages, g \in Forms :
                    form'[q][g].write = form'[p][f].write => q = p /\ g = f

LEMMA FormsKept ==
    ASSUME QueueInv, Larger, Moved, QueueKnown', LoopMoved, FormMoved
    PROVE  FormKnown'
  <1>0. /\ form \in [Pages -> [Forms -> Form]] /\ form' \in [Pages -> [Forms -> Form]]
        /\ writes \in Nat /\ MaxWrites \in Nat
    BY BoundsAssumption DEF QueueInv, FormKnown, FormMoved, CountsKnown
  <1>1. ASSUME NEW p \in Pages, NEW f \in Forms PROVE FormOk(form[p][f])'
    <2>1. CASE form'[p][f] = form[p][f]
      <3>1. PICK h : h = form[p][f]
        OBVIOUS
      <3>2. FormOk(h)'
        BY <3>1, FormOkStays DEF QueueInv, FormKnown
      <3>3. form'[p][f] = h
        BY <2>1, <3>1
      <3> QED
        BY <3>2, <3>3 DEF FormOk
    <2> QED
      BY <2>1 DEF FormMoved
  <1>2. ASSUME NEW p \in Pages, NEW f \in Forms, form'[p][f].write # 0
        PROVE  /\ \A i \in queue' : i.write # form'[p][f].write
               /\ \A q \in Pages, d \in Loops : \A i \in loop'[q][d].todo :
                      i.write # form'[p][f].write
               /\ \A q \in Pages, g \in Forms :
                      form'[q][g].write = form'[p][f].write => q = p /\ g = f
    <2>1. PICK n : n = form'[p][f].write
      OBVIOUS
    <2>2. n \in Nat /\ n # 0
      BY <1>0, <1>2, <2>1 DEF Form
    <2>3. \A q \in Pages, g \in Forms : form[q][g].write \in Nat /\ form[q][g].write <= writes
      BY <1>0, BoundsAssumption DEF QueueInv, FormKnown, FormOk, Form
    <2>4. \A q \in Pages, d \in Loops : \A i \in loop[q][d].todo :
              i.write \in Nat /\ i.write <= writes
      BY BoundsAssumption DEF QueueInv, LoopKnown, DrainKnown, Drain, Item, Known
    <2>5. \A i \in queue' : i.write \in Nat
      BY BoundsAssumption DEF QueueKnown, Item
    <2>6. CASE n = form[p][f].write
      <3>1. /\ \A i \in queue : i.write # n
            /\ \A q \in Pages, d \in Loops : \A i \in loop[q][d].todo : i.write # n
            /\ \A q \in Pages, g \in Forms : form[q][g].write = n => q = p /\ g = f
        BY <2>2, <2>6 DEF QueueInv, FormKnown, FormsApart
      <3>2. \A i \in queue' : i.write # n
        <4> SUFFICES ASSUME NEW i \in queue', i.write = n PROVE FALSE
          OBVIOUS
        <4>1. ~ (i.write > writes)
          BY <1>0, <2>2, <2>3, <2>6
        <4>2. PICK q \in Pages, g \in Forms :
                 form[q][g].write = i.write /\ form'[q][g].write = 0
          BY <3>1, <4>1 DEF Moved
        <4> QED
          BY <2>1, <2>2, <3>1, <4>2
      <3>3. \A q \in Pages, d \in Loops : \A i \in loop'[q][d].todo : i.write # n
        BY <3>1, <3>2 DEF LoopMoved
      <3>4. ASSUME NEW q \in Pages, NEW g \in Forms, form'[q][g].write = n
            PROVE  q = p /\ g = f
        <4>1. ~ (n > writes)
          BY <1>0, <2>2, <2>3, <2>6
        <4>2. form[q][g].write = n
          BY <2>2, <3>4, <4>1 DEF FormMoved
        <4> QED
          BY <3>1, <4>2
      <3> QED
        BY <2>1, <3>2, <3>3, <3>4
    <2>7. CASE n # form[p][f].write
      <3>1. /\ n > writes /\ \A i \in queue' : i.write # n
            /\ \A q \in Pages, g \in Forms : form'[q][g].write = n => q = p /\ g = f
        BY <2>1, <2>2, <2>7 DEF FormMoved
      <3>2. \A q \in Pages, d \in Loops : \A i \in loop'[q][d].todo : i.write # n
        BY <1>0, <2>2, <2>4, <3>1 DEF LoopMoved
      <3> QED
        BY <2>1, <3>1, <3>2
    <2> QED
      BY <2>6, <2>7
  <1> QED
    BY <1>0, <1>1, <1>2 DEF FormKnown, FormsApart

LEMMA FormUnmoved == ASSUME QueueInv, UNCHANGED form PROVE FormMoved
BY DEF QueueInv, FormKnown, FormMoved

LEMMA FormSet ==
    ASSUME QueueInv, NEW p \in Pages, NEW f \in Forms, NEW next, FormOk(next)',
           form' = [form EXCEPT ![p][f] = next],
           \/ next.write \in {0, form[p][f].write}
           \/ next.write > writes /\ \A i \in queue' : i.write # next.write
    PROVE  FormMoved /\ form'[p][f] = next
  <1>1. form \in [Pages -> [Forms -> Form]] /\ next \in Form
    BY DEF QueueInv, FormKnown, FormOk
  <1>2. form' \in [Pages -> [Forms -> Form]] /\ form'[p][f] = next
    BY <1>1
  <1>3. \A q \in Pages, g \in Forms : ~ (q = p /\ g = f) => form'[q][g] = form[q][g]
    BY <1>1
  <1>4. ASSUME NEW q \in Pages, NEW g \in Forms
        PROVE  /\ form'[q][g] = form[q][g] \/ FormOk(form[q][g])'
               /\ \/ form'[q][g].write \in {0, form[q][g].write}
                  \/ /\ form'[q][g].write > writes
                     /\ \A i \in queue' : i.write # form'[q][g].write
                     /\ \A r \in Pages, h \in Forms :
                          form'[r][h].write = form'[q][g].write => r = q /\ h = g
    <2>1. CASE q = p /\ g = f
      <3>1. FormOk(form[q][g])'
        BY <1>2, <2>1 DEF FormOk
      <3>2. next.write > writes =>
               \A r \in Pages, h \in Forms : form'[r][h].write = next.write => r = p /\ h = f
        <4>1. \A r \in Pages, h \in Forms : form[r][h].write \in Nat /\ form[r][h].write <= writes
          BY BoundsAssumption DEF QueueInv, FormKnown, FormOk, Form
        <4>2. writes \in Nat /\ next.write \in Nat
          BY <1>1, BoundsAssumption DEF QueueInv, CountsKnown, Form
        <4> QED
          BY <1>3, <4>1, <4>2
      <3> QED
        BY <1>2, <2>1, <3>1, <3>2
    <2>2. CASE ~ (q = p /\ g = f)
      BY <1>3, <2>2
    <2> QED
      BY <2>1, <2>2
  <1> QED
    BY <1>2, <1>4 DEF FormMoved

-----------------------------------------------------------------------------
(* What a step may do to the pages.                                        *)

LEMMA MapStays ==
    ASSUME QueueInv, Larger, NEW map, MapKnown(map)
    PROVE  MapKnown(map)'
BY DEF MapKnown, IdMap, QueueInv, ServerKnown, Larger

LEMMA ViewStays ==
    ASSUME QueueInv, Larger, NEW view, PageKnown(view)
    PROVE  PageKnown(view)'
  <1>1. MapKnown(view.map)'
    <2>1. PICK map : map = view.map
      OBVIOUS
    <2> QED
      BY <2>1, MapStays DEF PageKnown
  <1>2. 1..Len(rows) \subseteq 1..Len(rows')
    BY DEF QueueInv, ServerKnown, Larger
  <1> QED
    BY <1>1, <1>2 DEF PageKnown

LEMMA PagesKept ==
    ASSUME QueueInv, Larger, UNCHANGED <<stored, page>>
    PROVE  Mapped'
  <1>1. PICK s, v : s = stored /\ v = page
    OBVIOUS
  <1>2. MapKnown(s) /\ \A p \in Pages : PageKnown(v[p])
    BY <1>1 DEF QueueInv, Mapped
  <1>3. MapKnown(s)' /\ \A p \in Pages : PageKnown(v[p])'
    BY <1>2, MapStays, ViewStays
  <1>4. stored' = s /\ page' = v /\ v \in [Pages -> Page]
    BY <1>1 DEF QueueInv, Mapped
  <1> QED
    BY <1>3, <1>4 DEF Mapped, MapKnown, PageKnown

\* One page shows something else.
LEMMA PageShows ==
    ASSUME QueueInv, Larger, UNCHANGED stored, NEW p \in Pages, NEW view \in Page,
           PageKnown(view), page' = [page EXCEPT ![p] = view]
    PROVE  Mapped' /\ page'[p] = view
  <1>1. PICK s, v : s = stored /\ v = page
    OBVIOUS
  <1>2. MapKnown(s) /\ \A q \in Pages : PageKnown(v[q])
    BY <1>1 DEF QueueInv, Mapped
  <1>3. MapKnown(s)' /\ PageKnown(view)' /\ \A q \in Pages : PageKnown(v[q])'
    BY <1>2, MapStays, ViewStays
  <1>4. stored' = s /\ page' = [v EXCEPT ![p] = view] /\ v \in [Pages -> Page]
    BY <1>1 DEF QueueInv, Mapped
  <1>5. page' \in [Pages -> Page] /\ page'[p] = view
        /\ \A q \in Pages \ {p} : page'[q] = v[q]
    BY <1>4
  <1> QED
    BY <1>3, <1>4, <1>5 DEF Mapped, MapKnown, PageKnown

\* refreshData changes what a page lists, and nothing else of it.
LEMMA RefreshedPage ==
    ASSUME QueueInv, NEW p \in Pages, NEW items, NEW view \in Refreshed(p, rows, items)
    PROVE  /\ view \in Page /\ PageKnown(view)
           /\ view.map = page[p].map /\ view.open = page[p].open
           /\ view.saving = page[p].saving
  <1>1. page[p] \in Page /\ PageKnown(page[p])
    BY DEF QueueInv, Mapped
  <1>2. DOMAIN rows = 1..Len(rows) /\ 1..Len(rows) \subseteq 1..MaxRows
    BY BoundsAssumption DEF QueueInv, ServerKnown
  <1>3. Listed(p, rows, items) \subseteq 1..Len(rows) /\ QuotedOf(rows) \subseteq 1..MaxRows
    BY <1>2 DEF Listed, QuotedOf
  <1> DEFINE all == [page[p] EXCEPT !.ids = Listed(p, rows, items), !.quoted = QuotedOf(rows)]
             none == [page[p] EXCEPT !.ids = {}, !.quoted = {}]
  <1>4. view \in {all, none, page[p]}
    BY DEF Refreshed
  <1>5. \A ids \in SUBSET (1..Len(rows)), quoted \in SUBSET (1..MaxRows) :
          LET shown == [page[p] EXCEPT !.ids = ids, !.quoted = quoted]
          IN  /\ shown \in Page /\ PageKnown(shown)
              /\ shown.map = page[p].map /\ shown.open = page[p].open
              /\ shown.saving = page[p].saving
    BY <1>1, <1>2 DEF Page, PageKnown, Ids
  <1>6. CASE view = all
    BY <1>3, <1>5, <1>6
  <1>7. CASE view = none
    BY <1>5, <1>7
  <1> QED
    BY <1>1, <1>4, <1>6, <1>7

-----------------------------------------------------------------------------
(* Every step keeps QueueInv.                                              *)

\* What a step leaves and how it got there.
Stepped == QueueInv' /\ Larger /\ Moved /\ LoopMoved /\ FormMoved

\* It is enough to see to the parts.
LEMMA PartsKept ==
    ASSUME QueueInv, Larger, Moved, QueueKnown', LoopMoved, FormMoved, Mapped', ServerKnown',
           SessionKnown', CountsKnown'
    PROVE  Stepped
BY LoopKept, FormsKept DEF QueueInv, Stepped

LEMMA Unchanged ==
    ASSUME QueueInv
    PROVE  /\ UNCHANGED <<writes, rows, applied>> => Larger
           /\ UNCHANGED <<rows, applied>> => ServerKnown'
           /\ UNCHANGED <<online, key>> => SessionKnown'
           /\ UNCHANGED <<writes, recalled>> => CountsKnown'
  <1>1. UNCHANGED <<writes, rows, applied>> => Larger
    BY BoundsAssumption DEF Larger, QueueInv, CountsKnown, ServerKnown
  <1>2. UNCHANGED <<rows, applied>> => ServerKnown'
    BY DEF QueueInv, ServerKnown
  <1>3. UNCHANGED <<online, key>> => SessionKnown'
    BY DEF QueueInv, SessionKnown
  <1>4. UNCHANGED <<writes, recalled>> => CountsKnown'
    BY DEF QueueInv, CountsKnown
  <1> QED
    BY <1>1, <1>2, <1>3, <1>4

\* A new write that nothing knows yet.
LEMMA NextWrite ==
    ASSUME QueueInv, writes < MaxWrites, writes' = writes + 1, UNCHANGED <<rows, applied>>
    PROVE  /\ Larger /\ writes + 1 \in 1..MaxWrites /\ writes + 1 > writes
           /\ \A i \in queue : i.write # writes + 1
  <1>1. writes \in 0..MaxWrites /\ MaxWrites \in Nat
    BY BoundsAssumption DEF QueueInv, CountsKnown
  <1>2. \A i \in queue : i.write \in Nat /\ i.write <= writes
    BY <1>1 DEF QueueInv, QueueKnown, Known, Item
  <1> QED
    BY <1>1, <1>2 DEF Larger, QueueInv, ServerKnown

-----------------------------------------------------------------------------
(* The forms.                                                              *)

\* Controls are enabled again and the form is done with.
LEMMA FormEnds ==
    ASSUME QueueInv, Larger, UNCHANGED stored, NEW p \in Pages, NEW f \in Forms,
           NEW view \in Page, PageKnown(view), EndForm(p, f, view)
    PROVE  Mapped' /\ FormMoved /\ form'[p][f] = NoForm
           /\ page'[p] = [view EXCEPT !.saving = FALSE]
  <1>1. PICK shown : shown = [view EXCEPT !.saving = FALSE]
    OBVIOUS
  <1>2. shown \in Page /\ PageKnown(shown)
    BY <1>1 DEF Page, PageKnown
  <1>3. page' = [page EXCEPT ![p] = shown] /\ form' = [form EXCEPT ![p][f] = NoForm]
    BY <1>1 DEF EndForm
  <1>4. FormMoved /\ form'[p][f] = NoForm
    <2>1. NoForm.write = 0
      BY DEF NoForm
    <2> QED
      BY <1>3, <2>1, NoFormOk, FormSet
  <1> QED
    BY <1>1, <1>2, <1>3, <1>4, PageShows

\* What was made shows.
LEMMA ShowingKnown ==
    ASSUME QueueInv, NEW view \in Page, PageKnown(view), NEW action,
           NEW id \in Locals \cup 1..Len(rows)
    PROVE  /\ Showing(view, action, id) \in Page /\ PageKnown(Showing(view, action, id))
           /\ Showing(view, action, id).map = view.map
           /\ Showing(view, action, id).open = view.open
  <1>1. PICK ids : ids = ListedLocally(view.ids, action, id)
    OBVIOUS
  <1>2. 1..Len(rows) \subseteq 1..MaxRows
    BY BoundsAssumption DEF QueueInv, ServerKnown
  <1>3. ids \subseteq Locals \cup 1..Len(rows)
    BY <1>1 DEF ListedLocally, PageKnown
  <1>4. Showing(view, action, id) = [view EXCEPT !.ids = ids]
    BY <1>1 DEF Showing
  <1> QED
    BY <1>2, <1>3, <1>4 DEF Page, PageKnown, Ids

\* What is to be sent is known.
LEMMA ToBeSentWrites ==
    ASSUME QueueInv, NEW items, items \subseteq queue
    PROVE  ToBeSent(items) \subseteq 1..MaxWrites
BY DEF ToBeSent, QueueInv, QueueKnown, Item

LEMMA QueuedForKnown ==
    ASSUME QueueInv, NEW view \in Page, PageKnown(view), NEW action,
           NEW id \in Locals \cup 1..Len(rows), NEW o \in QueuedFor(view, action, id)
    PROVE  o \in Locals \cup 1..Len(rows) /\ (action # "order.confirm" => o = id)
BY DEF QueuedFor, PageKnown

\* A write that is queued, encrypted first, or not queued after all.
LEMMA EnqueueKnown ==
    ASSUME QueueInv, Larger, UNCHANGED <<stored, loop>>, NEW p \in Pages, NEW f \in Forms,
           NEW view \in Page, PageKnown(view),
           NEW action \in Action \cup {"order.quote"}, NEW id \in Locals \cup 1..Len(rows),
           action = "address.create" => id \in Addresses,
           NEW n \in 0..MaxWrites, n = 0 <=> action = "order.quote", n <= writes',
           \A i \in queue : i.write # n,
           n > writes \/ n = form[p][f].write,
           Enqueue(p, f, view, n, action, id)
    PROVE  QueueKnown' /\ Moved /\ LoopMoved /\ FormMoved /\ Mapped'
           /\ recalled' \in SUBSET (1..MaxWrites)
  <1>1. LoopMoved
    BY LoopUnmoved
  <1>2. recalled \in SUBSET (1..MaxWrites)
    BY DEF QueueInv, CountsKnown
  <1>3. \A o : ToBeSent(Superseded(action, o)) \subseteq 1..MaxWrites
               /\ queue \ Superseded(action, o) \subseteq queue
    BY ToBeSentWrites DEF Superseded
  <1>4. ASSUME NEW o \in QueuedFor(view, action, id), action # "order.quote",
               EnqueuePlain(p, f, view, n, action, o)
        PROVE  QueueKnown' /\ Moved /\ FormMoved /\ Mapped'
               /\ recalled' \in SUBSET (1..MaxWrites)
    <2>1. o \in Locals \cup 1..Len(rows) /\ (action = "address.create" => o \in Addresses)
      BY QueuedForKnown
    <2>2. PICK kept : kept = queue \ Superseded(action, o)
      OBVIOUS
    <2>3. /\ queue' = kept \cup {NewItem(n, action, o, 0, kept)}
          /\ recalled' = recalled \cup ToBeSent(Superseded(action, o))
          /\ EndForm(p, f, Showing(view, action, o))
      BY <1>4, <2>2 DEF EnqueuePlain
    <2>4. FormMoved /\ Mapped' /\ form'[p][f] = NoForm
      BY <2>1, <2>3, ShowingKnown, FormEnds
    <2>5. n \in 1..MaxWrites /\ action \in Action /\ 0 \in 0..MaxKeys
      BY <1>4, BoundsAssumption
    <2>6. n > writes \/ \E q \in Pages, g \in Forms :
                           form[q][g].write = n /\ form'[q][g].write = 0
      BY <2>4 DEF NoForm
    <2>7. QueueKnown' /\ Moved
      BY <2>1, <2>2, <2>3, <2>5, <2>6, QueueGrows
    <2> QED
      BY <1>2, <1>3, <2>3, <2>4, <2>7
  <1>5. ASSUME NEW o \in QueuedFor(view, action, id),
               SealFails(p, f, view, action, o)
        PROVE  QueueKnown' /\ Moved /\ FormMoved /\ Mapped'
               /\ recalled' \in SUBSET (1..MaxWrites)
    <2>1. /\ queue' = queue \ Superseded(action, o)
          /\ recalled' = recalled \cup ToBeSent(Superseded(action, o))
          /\ EndForm(p, f, view)
      BY <1>5 DEF SealFails, PutAside
    <2>2. QueueKnown' /\ Moved
      BY <1>3, <2>1, QueueShrinks
    <2> QED
      BY <1>2, <1>3, <2>1, <2>2, FormEnds
  <1>6. ASSUME NEW o \in QueuedFor(view, action, id), BeginSealing(p, f, view, n, action, o)
        PROVE  QueueKnown' /\ Moved /\ FormMoved /\ Mapped'
               /\ recalled' \in SUBSET (1..MaxWrites)
    <2>1. PICK next : next = [NoForm EXCEPT !.phase = "sealing", !.write = n,
                                            !.action = action, !.id = o, !.key = key.no]
      OBVIOUS
    <2>2. /\ queue' = queue \ Superseded(action, o) /\ action \in Sensitive
          /\ recalled' = recalled \cup ToBeSent(Superseded(action, o))
          /\ form' = [form EXCEPT ![p][f] = next]
          /\ page' = [page EXCEPT ![p] = view]
      BY <1>6, <2>1 DEF BeginSealing, PutAside
    <2>3. QueueKnown' /\ Moved
      BY <1>3, <2>2, QueueShrinks
    <2>4. o \in Locals \cup 1..Len(rows) /\ (action = "address.create" => o \in Addresses)
      BY <2>2, QueuedForKnown DEF Sensitive
    <2>5. key.no \in 0..MaxKeys /\ 0 \in Ids \cup {0} /\ o \in Ids
      BY <2>4, BoundsAssumption DEF QueueInv, SessionKnown, Ids, ServerKnown
    <2>6. /\ next.phase = "sealing" /\ next.write = n /\ next.action = action /\ next.id = o
          /\ next.target = 0 /\ next \in Form
      BY <2>1, <2>5 DEF NoForm, Form
    <2>7. o \in Locals \cup 1..Len(rows')
      BY <2>4 DEF Larger, QueueInv, ServerKnown
    <2>8. FormOk(next)'
      BY <2>2, <2>4, <2>6, <2>7 DEF FormOk
    <2>9. \A i \in queue' : i.write # n
      BY <2>2
    <2>10. FormMoved
      BY <2>2, <2>6, <2>8, <2>9, FormSet
    <2> QED
      BY <1>2, <1>3, <2>2, <2>3, <2>10, PageShows
  <1>7. CASE EndForm(p, f, view) /\ UNCHANGED <<queue, recalled>>
    <2>1. QueueKnown' /\ Moved
      BY <1>7, QueueShrinks
    <2> QED
      BY <1>1, <1>2, <1>7, <2>1, FormEnds
  <1> QED
    BY <1>1, <1>4, <1>5, <1>6, <1>7 DEF Enqueue

LEMMA SavingKnown ==
    ASSUME QueueInv, NEW p \in Pages
    PROVE  Saving(p) \in Page /\ PageKnown(Saving(p)) /\ Saving(p).map = page[p].map
           /\ Saving(p).open = page[p].open /\ Saving(p).ids = page[p].ids
BY DEF Saving, QueueInv, Mapped, Page, PageKnown

\* What a form writes is about something there is.
LEMMA WriteKnown ==
    ASSUME QueueInv, NEW p \in Pages, NEW action \in Action,
           NEW id \in Locals \cup 1..Len(rows), CanWrite(p, action, id)
    PROVE  /\ writes < MaxWrites
           /\ action = "address.create" => id \in Addresses
BY DEF CanWrite

LEMMA WriteOfflineKnown ==
    ASSUME QueueInv, NEW p \in Pages, NEW f \in Forms, NEW action \in Action,
           NEW id \in Locals \cup 1..Len(rows), WriteOffline(p, f, action, id)
    PROVE  Stepped
  <1>1. /\ UNCHANGED <<online, key, stored, loop, rows, applied>>
        /\ CanWrite(p, action, id) /\ writes' = writes + 1
        /\ Enqueue(p, f, Saving(p), writes + 1, action, id)
    BY DEF WriteOffline
  <1>2. writes < MaxWrites /\ (action = "address.create" => id \in Addresses)
    BY <1>1, WriteKnown
  <1>3. PICK n : n = writes + 1
    OBVIOUS
  <1>4. /\ Larger /\ n \in 1..MaxWrites /\ n > writes /\ n <= writes'
        /\ \A i \in queue : i.write # n
    BY <1>1, <1>2, <1>3, NextWrite
  <1>5. n \in 0..MaxWrites /\ (n = 0 <=> action = "order.quote")
        /\ action \in Action \cup {"order.quote"}
    BY <1>4 DEF Action
  <1>6. QueueKnown' /\ Moved /\ LoopMoved /\ FormMoved /\ Mapped'
        /\ recalled' \in SUBSET (1..MaxWrites)
    BY <1>1, <1>2, <1>3, <1>4, <1>5, SavingKnown, EnqueueKnown
  <1>7. CountsKnown'
    BY <1>1, <1>3, <1>4, <1>6, BoundsAssumption DEF CountsKnown
  <1> QED
    BY <1>1, <1>4, <1>6, <1>7, Unchanged, PartsKept

\* A request that is posted.
LEMMA PostKnown ==
    ASSUME QueueInv, Larger, NEW p \in Pages, NEW f \in Forms, NEW n \in 0..MaxWrites,
           NEW action \in Action \cup {"order.quote"}, NEW id \in Locals \cup 1..Len(rows),
           action = "address.create" => id \in Addresses,
           n = 0 <=> action = "order.quote", n <= writes', n = 0 \/ n > writes,
           Post(p, f, n, action, id), \A i \in queue : i.write # n, CountsKnown'
    PROVE  Stepped
  <1>1. PICK target : target = Posted(p, id)
    OBVIOUS
  <1>2. target \in {0, id} \cup 1..Len(rows)
    <2>1. Resolve(page[p].map, id) \in {id} \cup 1..Len(rows)
      BY ResolveTo DEF QueueInv, Mapped, PageKnown
    <2> QED
      BY <1>1, <2>1 DEF Posted
  <1>3. PICK next : next = [NoForm EXCEPT !.phase = "posting", !.write = n, !.action = action,
                                          !.id = id, !.target = target]
    OBVIOUS
  <1>4. /\ form' = [form EXCEPT ![p][f] = next]
        /\ page' = [page EXCEPT ![p] = Saving(p)]
        /\ UNCHANGED <<online, key, queue, stored, loop, rows, applied, recalled>>
    BY <1>1, <1>3 DEF Post
  <1>5. id \in Ids /\ target \in Ids \cup {0} /\ 0 \in 0..MaxKeys
    BY <1>2, BoundsAssumption DEF Ids, QueueInv, ServerKnown
  <1>6. /\ next \in Form /\ next.phase = "posting" /\ next.write = n /\ next.action = action
        /\ next.id = id /\ next.target = target
    BY <1>3, <1>5 DEF NoForm, Form
  <1>7. FormOk(next)'
    BY <1>2, <1>4, <1>6 DEF FormOk
  <1>8. FormMoved
    BY <1>4, <1>6, <1>7, FormSet
  <1>9. QueueKnown' /\ Moved /\ LoopMoved /\ Mapped'
    BY <1>4, QueueShrinks, LoopUnmoved, SavingKnown, PageShows
  <1> QED
    BY <1>4, <1>8, <1>9, Unchanged, PartsKept

LEMMA WriteOnlineKnown ==
    ASSUME QueueInv, NEW p \in Pages, NEW f \in Forms, NEW action \in Action,
           NEW id \in Locals \cup 1..Len(rows), WriteOnline(p, f, action, id)
    PROVE  Stepped
  <1>1. /\ UNCHANGED <<rows, applied, recalled>> /\ writes' = writes + 1
        /\ CanWrite(p, action, id) /\ Post(p, f, writes + 1, action, id)
    BY DEF WriteOnline, Post
  <1>2. PICK n : n = writes + 1
    OBVIOUS
  <1>3. /\ Larger /\ n \in 1..MaxWrites /\ n > writes /\ n <= writes'
        /\ \A i \in queue : i.write # n
    BY <1>1, <1>2, WriteKnown, NextWrite
  <1>4. n \in 0..MaxWrites /\ (n = 0 <=> action = "order.quote")
        /\ action \in Action \cup {"order.quote"}
    BY <1>3 DEF Action
  <1>5. CountsKnown'
    BY <1>1, <1>2, <1>3, BoundsAssumption DEF QueueInv, CountsKnown
  <1> QED
    BY <1>1, <1>2, <1>3, <1>4, <1>5, WriteKnown, PostKnown

LEMMA QuoteKnown ==
    ASSUME QueueInv, NEW p \in Pages, NEW f \in Forms, NEW id \in page[p].ids, Quote(p, f, id)
    PROVE  Stepped
  <1>1. /\ UNCHANGED <<rows, applied, recalled, writes>>
        /\ Post(p, f, 0, "order.quote", id)
    BY DEF Quote, Post
  <1>2. id \in Locals \cup 1..Len(rows)
    BY DEF QueueInv, Mapped, PageKnown
  <1>3. \A i \in queue : i.write # 0
    BY BoundsAssumption DEF QueueInv, QueueKnown, Item
  <1>4. 0 \in 0..MaxWrites /\ 0 <= writes' /\ Larger /\ CountsKnown'
    BY <1>1, Unchanged, BoundsAssumption DEF QueueInv, CountsKnown
  <1> QED
    BY <1>1, <1>2, <1>3, <1>4, PostKnown

\* What a busy form is about.
LEMMA FormAbout ==
    ASSUME QueueInv, NEW p \in Pages, NEW f \in Forms, form[p][f].phase # "idle"
    PROVE  /\ FormOk(form[p][f]) /\ form[p][f] \in Form
           /\ form[p][f].action \in Action \cup {"order.quote"}
           /\ form[p][f].id \in Locals \cup 1..Len(rows)
           /\ form[p][f].action = "address.create" => form[p][f].id \in Addresses
           /\ form[p][f].write \in 0..MaxWrites
           /\ form[p][f].write = 0 <=> form[p][f].action = "order.quote"
           /\ form[p][f].write <= writes
           /\ \A i \in queue : i.write # form[p][f].write
  <1>1. FormOk(form[p][f]) /\ form[p][f] \in Form
    BY DEF QueueInv, FormKnown, FormOk
  <1>2. \A i \in queue : i.write # form[p][f].write
    <2>1. CASE form[p][f].write = 0
      BY <2>1, BoundsAssumption DEF QueueInv, QueueKnown, Item
    <2>2. CASE form[p][f].write # 0
      BY <2>2 DEF QueueInv, FormKnown, FormsApart
    <2> QED
      BY <2>1, <2>2
  <1> QED
    BY <1>1, <1>2 DEF FormOk, Form

\* What the server does about the request of a form.
LEMMA FormServed ==
    ASSUME QueueInv, NEW p \in Pages, NEW f \in Forms, FormApplied(p, f)
    PROVE  /\ ServerKnown' /\ Larger
           /\ form[p][f].write # 0 => applied'[form[p][f].write] > 0
           /\ \A m \in (1..MaxWrites) \ {form[p][f].write} : applied'[m] = applied[m]
  <1>1. PICK action, target, n : /\ action = form[p][f].action
                                 /\ target = form[p][f].target /\ n = form[p][f].write
    OBVIOUS
  <1>2. /\ ServerApplies(action, target, n) /\ form[p][f].phase = "posting"
        /\ UNCHANGED writes
    BY <1>1 DEF FormApplied
  <1>3. ServerKnown /\ Len(rows) \in Nat
    BY DEF QueueInv, ServerKnown
  <1>4. /\ action \in Action \cup {"order.quote"} /\ n \in 0..MaxWrites
        /\ n = 0 <=> action = "order.quote"
        /\ target \in {0} \cup Locals \cup 1..Len(rows)
    BY <1>1, <1>2, FormAbout DEF FormOk
  <1>5. /\ ServerKnown' /\ Len(rows') \in {Len(rows), Len(rows) + 1}
        /\ \A r \in 1..Len(rows) : rows'[r].kind = rows[r].kind
        /\ n # 0 => applied'[n] > 0
        /\ \A m \in (1..MaxWrites) \ {n} : applied'[m] = applied[m]
    BY <1>2, <1>3, <1>4, Applies
  <1>6. Len(rows') \in Nat /\ Len(rows) <= Len(rows')
    BY <1>3, <1>5
  <1>7. writes' \in writes..MaxWrites
    BY <1>2, BoundsAssumption DEF QueueInv, CountsKnown
  <1>8. \A m \in 1..MaxWrites : applied[m] > 0 => applied'[m] > 0
    BY <1>5
  <1> QED
    BY <1>1, <1>5, <1>6, <1>7, <1>8 DEF Larger

LEMMA FormAppliedKnown ==
    ASSUME QueueInv, NEW p \in Pages, NEW f \in Forms, FormApplied(p, f)
    PROVE  Stepped
  <1>1. /\ UNCHANGED <<online, key, queue, stored, page, loop, writes, recalled>>
        /\ form[p][f].phase = "posting"
    BY DEF FormApplied
  <1>2. ServerKnown' /\ Larger
    BY FormServed
  <1>3. PICK h : h = form[p][f]
    OBVIOUS
  <1>4. PICK next : next = [h EXCEPT !.phase = "applied"]
    OBVIOUS
  <1>5. FormOk(h) /\ h \in Form
    BY <1>1, <1>3, FormAbout
  <1>6. FormOk(next) /\ next.write = h.write
    BY <1>1, <1>3, <1>4, <1>5 DEF FormOk, Form
  <1>7. FormOk(next)'
    BY <1>2, <1>6, FormOkStays
  <1>8. form' = [form EXCEPT ![p][f] = next]
    BY <1>3, <1>4 DEF FormApplied
  <1>9. FormMoved
    BY <1>3, <1>6, <1>7, <1>8, FormSet
  <1> QED
    BY <1>1, <1>2, <1>9, QueueShrinks, LoopUnmoved, PagesKept, Unchanged, PartsKept

LEMMA FormEndsKnown ==
    ASSUME QueueInv, NEW p \in Pages, NEW f \in Forms, FormAnswered(p, f) \/ FormRefused(p, f)
    PROVE  Stepped
  <1>1. UNCHANGED <<online, key, queue, stored, loop, writes, rows, applied, recalled>>
    BY DEF FormAnswered, FormRefused
  <1>2. PICK view \in Page : PageKnown(view) /\ EndForm(p, f, view)
    <2>1. CASE FormAnswered(p, f)
      BY <2>1, RefreshedPage DEF FormAnswered
    <2>2. CASE FormRefused(p, f)
      BY <2>2 DEF FormRefused, QueueInv, Mapped
    <2> QED
      BY <2>1, <2>2
  <1>3. Larger
    BY <1>1, Unchanged
  <1>4. FormMoved /\ Mapped'
    BY <1>1, <1>2, <1>3, FormEnds
  <1> QED
    BY <1>1, <1>3, <1>4, QueueShrinks, LoopUnmoved, Unchanged, PartsKept

LEMMA FormInterruptedKnown ==
    ASSUME QueueInv, NEW p \in Pages, NEW f \in Forms, FormInterrupted(p, f)
    PROVE  Stepped
  <1>1. PICK action, id, n : action = form[p][f].action /\ id = form[p][f].id
                             /\ n = form[p][f].write
    OBVIOUS
  <1>2. /\ UNCHANGED <<online, key, stored, loop, writes, rows, applied>>
        /\ form[p][f].phase # "idle" /\ Enqueue(p, f, page[p], n, action, id)
    BY <1>1 DEF FormInterrupted
  <1>3. Larger
    BY <1>2, Unchanged
  <1>4. /\ action \in Action \cup {"order.quote"} /\ n \in 0..MaxWrites
        /\ id \in Locals \cup 1..Len(rows) /\ (action = "address.create" => id \in Addresses)
        /\ (n = 0 <=> action = "order.quote") /\ n <= writes'
        /\ (\A i \in queue : i.write # n) /\ (n > writes \/ n = form[p][f].write)
    BY <1>1, <1>2, FormAbout
  <1>5. page[p] \in Page /\ PageKnown(page[p])
    BY DEF QueueInv, Mapped
  <1>6. QueueKnown' /\ Moved /\ LoopMoved /\ FormMoved /\ Mapped'
        /\ recalled' \in SUBSET (1..MaxWrites)
    BY <1>2, <1>3, <1>4, <1>5, EnqueueKnown
  <1>7. CountsKnown'
    BY <1>2, <1>6 DEF QueueInv, CountsKnown
  <1> QED
    BY <1>2, <1>3, <1>6, <1>7, Unchanged, PartsKept

LEMMA StoreKnown ==
    ASSUME QueueInv, NEW p \in Pages, NEW f \in Forms, Store(p, f)
    PROVE  Stepped
  <1>1. PICK h : h = form[p][f]
    OBVIOUS
  <1>2. /\ UNCHANGED <<online, key, stored, loop, writes, rows, applied, recalled>>
        /\ h.phase = "sealing"
        /\ queue' = queue \cup {NewItem(h.write, h.action, h.id, h.key, queue)}
        /\ EndForm(p, f, Showing(page[p], h.action, h.id))
    BY <1>1 DEF Store
  <1>3. Larger
    BY <1>2, Unchanged
  <1>4. page[p] \in Page /\ PageKnown(page[p])
    BY DEF QueueInv, Mapped
  <1>5. /\ h.id \in Locals \cup 1..Len(rows)
        /\ (h.action = "address.create" => h.id \in Addresses)
        /\ h.action \in Action /\ h.write \in 1..MaxWrites /\ h.key \in 0..MaxKeys
        /\ h.write <= writes' /\ \A i \in queue : i.write # h.write
    <2>1. FormOk(h) /\ h \in Form /\ h.write \in 0..MaxWrites
          /\ \A i \in queue : i.write # h.write
      BY <1>1, <1>2, FormAbout
    <2>2. h.action \in Sensitive /\ h.action # "order.quote"
      BY <1>2, <2>1 DEF FormOk, Sensitive
    <2>3. h.write # 0
      BY <1>2, <2>1, <2>2 DEF FormOk
    <2> QED
      BY <1>2, <2>1, <2>2, <2>3, BoundsAssumption DEF FormOk, Form, Sensitive, Action
  <1>6. FormMoved /\ Mapped' /\ form'[p][f] = NoForm
    BY <1>2, <1>3, <1>4, <1>5, ShowingKnown, FormEnds
  <1>7. QueueKnown' /\ Moved
    <2>1. \E q \in Pages, g \in Forms : form[q][g].write = h.write /\ form'[q][g].write = 0
      BY <1>1, <1>6 DEF NoForm
    <2> QED
      BY <1>2, <1>3, <1>5, <2>1, QueueGrows
  <1> QED
    BY <1>2, <1>3, <1>6, <1>7, LoopUnmoved, Unchanged, PartsKept

-----------------------------------------------------------------------------
(* The queue, the drains and the pages.                                    *)

\* Marking an item of the queue.
LEMMA MarkKnown ==
    ASSUME QueueInv, UNCHANGED <<writes, rows, applied>>, NEW n, NEW status \in ItemStatus,
           queue' = Marked(n, status)
    PROVE  QueueKnown' /\ Moved /\ Larger
BY QueueMarked, Unchanged

\* DrainOf reads the queue of the moment.
LEMMA NewDrain ==
    ASSUME QueueInv, NEW items, QueueKnown', items = queue', NEW load \in BOOLEAN
    PROVE  /\ DrainOf(items, load) \in Drain
           /\ DrainKnown(DrainOf(items, load))'
           /\ DrainOf(items, load).todo \subseteq queue'
  <1>1. items \subseteq Item
    BY DEF QueueKnown
  <1>2. DrainOf(items, load) \in Drain
    BY <1>1 DEF DrainOf, Drain
  <1>3. DrainOf(items, load).todo \subseteq items
        /\ DrainOf(items, load).phase = "running"
    BY DEF DrainOf
  <1> QED
    BY <1>2, <1>3 DEF DrainKnown, QueueKnown, Distinct, SameWrite

LEMMA RetryKnown ==
    ASSUME QueueInv, NEW p \in Pages, NEW d \in Loops, NEW i \in queue, Retry(p, d, i)
    PROVE  Stepped
  <1>1. /\ UNCHANGED <<online, key, stored, form, writes, rows, applied, recalled>>
        /\ queue' = Marked(i.write, "local_queued")
    BY DEF Retry
  <1>2. QueueKnown' /\ Moved /\ Larger
    BY <1>1, MarkKnown DEF ItemStatus
  <1>3. LoopMoved /\ Mapped'
    <2>1. CASE online
      <3>1. PICK items : items = queue'
        OBVIOUS
      <3>2. loop' = [loop EXCEPT ![p][d] = DrainOf(items, FALSE)]
        BY <2>1, <3>1 DEF Retry
      <3>3. LoopMoved
        BY <1>2, <3>1, <3>2, NewDrain, LoopSet
      <3>4. PICK view : view = [page[p] EXCEPT !.saving = TRUE]
        OBVIOUS
      <3>5. view \in Page /\ PageKnown(view)
        BY <3>4 DEF QueueInv, Mapped, Page, PageKnown
      <3>6. page' = [page EXCEPT ![p] = view]
        BY <2>1, <3>4 DEF Retry
      <3>7. Mapped'
        BY <1>1, <1>2, <3>5, <3>6, PageShows
      <3> QED
        BY <3>3, <3>7
    <2>2. CASE ~ online
      BY <1>1, <1>2, <2>2, LoopUnmoved, PagesKept DEF Retry
    <2> QED
      BY <2>1, <2>2
  <1> QED
    BY <1>1, <1>2, <1>3, FormUnmoved, Unchanged, PartsKept

LEMMA DiscardKnown ==
    ASSUME QueueInv, NEW p \in Pages, NEW i \in queue, Discard(p, i)
    PROVE  Stepped
  <1>1. /\ UNCHANGED <<online, key, stored, page, loop, form, writes, rows, applied>>
        /\ queue' \subseteq queue /\ recalled' = recalled \cup ToBeSent({i})
    BY DEF Discard, Without
  <1>2. ToBeSent({i}) \subseteq 1..MaxWrites
    BY ToBeSentWrites
  <1>3. Larger
    BY <1>1, Unchanged
  <1>4. QueueKnown' /\ Moved /\ Mapped' /\ LoopMoved
    BY <1>1, <1>3, QueueShrinks, PagesKept, LoopUnmoved
  <1>5. CountsKnown'
    BY <1>1, <1>2 DEF QueueInv, CountsKnown
  <1> QED
    BY <1>1, <1>3, <1>4, <1>5, FormUnmoved, Unchanged, PartsKept

\* A drain that leaves its current item, marked or not.
LEMMA AdvanceKnown ==
    ASSUME QueueInv, NEW p \in Pages, NEW d \in Loops, loop[p][d].todo # {},
           Advance(p, d), QueueKnown', Moved, Larger, ServerKnown', SessionKnown',
           UNCHANGED <<form, writes, recalled>>, Mapped'
    PROVE  Stepped
BY LoopAdvanced, FormUnmoved, Unchanged, PartsKept

LEMMA LeaveKnown ==
    ASSUME QueueInv, NEW p \in Pages, NEW d \in Loops,
           Undecryptable(p, d) \/ AwaitCreate(p, d) \/ DropLocalDelete(p, d)
    PROVE  Stepped
  <1>1. /\ UNCHANGED <<online, key, stored, page, form, writes, rows, applied, recalled>>
        /\ Advance(p, d) /\ loop[p][d].todo # {}
        /\ \/ queue' = Marked(Current(p, d).write, "failed_retrying")
           \/ queue' = Without(Current(p, d).write)
    BY DEF Undecryptable, AwaitCreate, DropLocalDelete, AtItem
  <1>2. Larger
    BY <1>1, Unchanged
  <1>3. QueueKnown' /\ Moved
    BY <1>1, <1>2, MarkKnown, QueueShrinks DEF ItemStatus, Without
  <1> QED
    BY <1>1, <1>2, <1>3, AdvanceKnown, Unchanged, PagesKept

LEMMA SendKnown ==
    ASSUME QueueInv, NEW p \in Pages, NEW d \in Loops, Send(p, d)
    PROVE  Stepped
  <1>1. /\ UNCHANGED <<online, key, stored, page, form, writes, rows, applied, recalled>>
        /\ loop[p][d].todo # {}
        /\ queue' = Marked(Current(p, d).write, "syncing")
    BY DEF Send, AtItem
  <1>2. QueueKnown' /\ Moved /\ Larger
    BY <1>1, MarkKnown DEF ItemStatus
  <1>3. PICK drain : drain = loop[p][d]
    OBVIOUS
  <1>4. PICK target : target = Target(p, d)
    OBVIOUS
  <1>5. PICK next : next = [drain EXCEPT !.phase = "waiting", !.target = target]
    OBVIOUS
  <1>6. DrainKnown(drain) /\ drain \in Drain /\ drain.todo # {}
    BY <1>1, <1>3 DEF QueueInv, LoopKnown, DrainKnown
  <1>7. target \in {First(drain.todo).id} \cup 1..Len(rows) /\ target \in Ids
    <2>1. target \in {First(drain.todo).id} \cup 1..Len(rows)
      BY <1>1, <1>3, <1>4, CurrentKnown DEF Current
    <2>2. First(drain.todo).id \in Ids
      BY <1>6, FirstIn DEF Drain, Item
    <2>3. 1..Len(rows) \subseteq Ids
      BY BoundsAssumption DEF Ids, QueueInv, ServerKnown
    <2> QED
      BY <2>1, <2>2, <2>3
  <1>8. /\ next \in Drain /\ next.todo = drain.todo /\ next.phase = "waiting"
        /\ next.target = target
    BY <1>5, <1>6, <1>7 DEF Drain
  <1>9. DrainKnown(next)
    BY <1>6, <1>7, <1>8 DEF DrainKnown
  <1>10. DrainKnown(next)'
    BY <1>2, <1>3, <1>8, <1>9, DrainStays
  <1>11. loop' = [loop EXCEPT ![p][d] = next]
    BY <1>3, <1>4, <1>5 DEF Send
  <1>12. LoopMoved
    BY <1>3, <1>8, <1>10, <1>11, LoopSet
  <1> QED
    BY <1>1, <1>2, <1>12, Unchanged, PagesKept, FormUnmoved, PartsKept

\* The request of a drain is one the server can have got.
LEMMA SentKnown ==
    ASSUME QueueInv, NEW p \in Pages, NEW d \in Loops,
           loop[p][d].phase \in {"waiting", "applied", "created"}
    PROVE  /\ loop[p][d].todo # {}
           /\ loop[p][d].target \in {Current(p, d).id} \cup 1..Len(rows)
           /\ Current(p, d).write \in 1..MaxWrites /\ Current(p, d).action \in Action
           /\ Current(p, d).id \in Locals \cup 1..Len(rows)
           /\ Current(p, d).action = "address.create" => Current(p, d).id \in Addresses
           /\ AnswerDue(p, d) => applied[Current(p, d).write] > 0
           /\ loop[p][d].phase = "created" =>
                loop[p][d].target \in 1..Len(rows) /\ Current(p, d).id \in Locals
  <1>1. DrainKnown(loop[p][d])
    BY DEF QueueInv, LoopKnown
  <1>2. /\ loop[p][d].todo # {}
        /\ loop[p][d].target \in {Current(p, d).id} \cup 1..Len(rows)
        /\ AnswerDue(p, d) => applied[Current(p, d).write] > 0
        /\ loop[p][d].phase = "created" =>
             loop[p][d].target \in 1..Len(rows) /\ Current(p, d).id \in Locals
    BY <1>1 DEF DrainKnown, Current, AnswerDue
  <1>3. Current(p, d) \in Item /\ Known(Current(p, d))
    BY <1>2, CurrentKnown
  <1> QED
    BY <1>2, <1>3 DEF Item, Known

\* What the server does about the request of a drain.
LEMMA DrainServed ==
    ASSUME QueueInv, NEW p \in Pages, NEW d \in Loops, Applied(p, d)
    PROVE  /\ ServerKnown' /\ Larger
           /\ applied'[Current(p, d).write] > 0
           /\ \A m \in (1..MaxWrites) \ {Current(p, d).write} : applied'[m] = applied[m]
           /\ Creates(Current(p, d).action, loop[p][d].target) =>
                /\ Len(rows') = Len(rows) + 1 /\ Current(p, d).id \in Locals
                /\ rows'[Len(rows')].kind = Kind(Current(p, d).id)
  <1>1. PICK action, target, n : /\ action = Current(p, d).action
                                 /\ target = loop[p][d].target /\ n = Current(p, d).write
    OBVIOUS
  <1>2. /\ ServerApplies(action, target, n) /\ loop[p][d].phase = "waiting"
        /\ UNCHANGED writes
    BY <1>1 DEF Applied
  <1>3. ServerKnown /\ Len(rows) \in Nat
    BY DEF QueueInv, ServerKnown
  <1>4. /\ action \in Action /\ n \in 1..MaxWrites
        /\ target \in {Current(p, d).id} \cup 1..Len(rows)
        /\ Current(p, d).id \in Locals \cup 1..Len(rows)
        /\ (action = "address.create" => Current(p, d).id \in Addresses)
    BY <1>1, <1>2, SentKnown
  <1>5. /\ n # 0 /\ action \in Action \cup {"order.quote"} /\ n \in 0..MaxWrites
        /\ (n = 0 <=> action = "order.quote")
        /\ target \in {0} \cup Locals \cup 1..Len(rows)
    BY <1>4, BoundsAssumption DEF Action
  <1>6. /\ ServerKnown'
        /\ Len(rows') = IF Creates(action, target) THEN Len(rows) + 1 ELSE Len(rows)
        /\ Creates(action, target) => rows'[Len(rows')].kind = Made(action)
        /\ \A r \in 1..Len(rows) : rows'[r].kind = rows[r].kind
        /\ applied'[n] > 0
        /\ \A m \in (1..MaxWrites) \ {n} : applied'[m] = applied[m]
    BY <1>2, <1>3, <1>5, Applies
  <1>7. Creates(action, target) =>
            Current(p, d).id \in Locals /\ Kind(Current(p, d).id) = Made(action)
    <2>1. CASE action = "address.create"
      BY <1>4, <2>1, LocalIdsAssumption DEF Locals, Kind, Made
    <2>2. CASE action = "order.draft.save" /\ target \in Orders
      <3>1. Current(p, d).id = target
        BY <1>4, <2>2, LocalNoRow DEF Locals
      <3> QED
        BY <2>2, <3>1 DEF Locals, Kind, Made
    <2> QED
      BY <2>1, <2>2 DEF Creates
  <1>8. Len(rows') \in Nat /\ Len(rows) <= Len(rows')
    BY <1>3, <1>6
  <1>9. writes' \in writes..MaxWrites
    BY <1>2, BoundsAssumption DEF QueueInv, CountsKnown
  <1>10. \A m \in 1..MaxWrites : applied[m] > 0 => applied'[m] > 0
    BY <1>6
  <1> QED
    BY <1>1, <1>6, <1>7, <1>8, <1>9, <1>10 DEF Larger

LEMMA AppliedKnown ==
    ASSUME QueueInv, NEW p \in Pages, NEW d \in Loops, Applied(p, d)
    PROVE  Stepped /\ loop'[p][d].todo = loop[p][d].todo /\ AnswerDue(p, d)'
  <1>1. /\ UNCHANGED <<online, key, queue, stored, page, form, writes, recalled>>
        /\ loop[p][d].phase = "waiting"
    BY DEF Applied
  <1>2. ServerKnown' /\ Larger /\ applied'[Current(p, d).write] > 0
    BY DrainServed
  <1>3. QueueKnown' /\ Moved
    BY <1>1, <1>2, QueueShrinks
  <1>4. PICK drain : drain = loop[p][d]
    OBVIOUS
  <1>5. DrainKnown(drain) /\ drain \in Drain /\ drain.phase = "waiting" /\ drain.todo # {}
    BY <1>1, <1>4, SentKnown DEF QueueInv, LoopKnown, DrainKnown
  <1>6. DrainKnown(drain)'
    BY <1>2, <1>3, <1>4, <1>5, DrainStays
  <1>7. First(drain.todo) = Current(p, d)
    BY <1>4 DEF Current
  <1>8. CASE Creates(Current(p, d).action, loop[p][d].target)
    <2>1. PICK r : r = Len(rows')
      OBVIOUS
    <2>2. PICK next : next = [drain EXCEPT !.phase = "created", !.target = r]
      OBVIOUS
    <2>3. r \in 1..Len(rows') /\ r \in Ids /\ Current(p, d).id \in Locals
      <3>1. Len(rows) \in Nat /\ Len(rows') = Len(rows) + 1 /\ Len(rows') <= MaxRows
            /\ Current(p, d).id \in Locals
        BY <1>2, <1>8, DrainServed DEF QueueInv, ServerKnown
      <3> QED
        BY <2>1, <3>1, BoundsAssumption DEF Ids
    <2>4. next \in Drain /\ next.phase = "created" /\ next.target = r /\ next.todo = drain.todo
      BY <1>5, <2>2, <2>3 DEF Drain
    <2>5. DrainKnown(next)'
      BY <1>2, <1>5, <1>6, <1>7, <2>1, <2>3, <2>4 DEF DrainKnown
    <2>6. loop' = [loop EXCEPT ![p][d] = next]
      BY <1>4, <1>8, <2>1, <2>2 DEF Applied
    <2>7. LoopMoved /\ loop'[p][d] = next
      BY <1>4, <2>4, <2>5, <2>6, LoopSet
    <2>8. loop'[p][d].todo = loop[p][d].todo /\ AnswerDue(p, d)'
      BY <1>4, <2>4, <2>7 DEF AnswerDue
    <2> QED
      BY <1>1, <1>2, <1>3, <2>7, <2>8, PagesKept, FormUnmoved, Unchanged, PartsKept
  <1>9. CASE ~ Creates(Current(p, d).action, loop[p][d].target)
    <2>1. PICK next : next = [drain EXCEPT !.phase = "applied"]
      OBVIOUS
    <2>2. /\ next \in Drain /\ next.phase = "applied" /\ next.target = drain.target
          /\ next.todo = drain.todo
      BY <1>5, <2>1 DEF Drain
    <2>3. DrainKnown(next)'
      BY <1>2, <1>5, <1>6, <1>7, <2>2 DEF DrainKnown
    <2>4. loop' = [loop EXCEPT ![p][d] = next]
      BY <1>4, <1>9, <2>1 DEF Applied
    <2>5. LoopMoved /\ loop'[p][d] = next
      BY <1>4, <2>2, <2>3, <2>4, LoopSet
    <2>6. loop'[p][d].todo = loop[p][d].todo /\ AnswerDue(p, d)'
      BY <1>4, <2>2, <2>5 DEF AnswerDue
    <2> QED
      BY <1>1, <1>2, <1>3, <2>5, <2>6, PagesKept, FormUnmoved, Unchanged, PartsKept
  <1> QED
    BY <1>8, <1>9

\* The page and local storage after an answer.
LEMMA AnswerMaps ==
    ASSUME QueueInv, NEW p \in Pages, NEW d \in Loops, Committed(p, d)
    PROVE  /\ page' \in [Pages -> Page] /\ stored' \in IdMap
           /\ \A q \in Pages \ {p} : page'[q] = page[q]
           /\ page'[p] = [page[p] EXCEPT !.map = page'[p].map]
           /\ page'[p].ids = page[p].ids /\ page'[p].open = page[p].open
           /\ page'[p].map \in IdMap /\ page'[p].map = MapAfter(p, d)
           /\ loop[p][d].phase = "created" =>
                /\ stored' = page'[p].map
                /\ page'[p].map[Current(p, d).id] = loop[p][d].target
                /\ \A l \in Locals \ {Current(p, d).id} : page'[p].map[l] = page[p].map[l]
           /\ loop[p][d].phase # "created" =>
                stored' = stored /\ page'[p].map = page[p].map
  <1>1. /\ page' = [page EXCEPT ![p].map = MapAfter(p, d)] /\ stored' = StoredAfter(p, d)
        /\ loop[p][d].phase \in {"waiting", "applied", "created"}
    BY DEF Committed, AnswerDue
  <1>2. page \in [Pages -> Page] /\ stored \in IdMap
    BY DEF QueueInv, Mapped, MapKnown
  <1>3. PICK id, r, old : id = Current(p, d).id /\ r = loop[p][d].target /\ old = page[p].map
    OBVIOUS
  <1>4. old \in IdMap
    BY <1>2, <1>3 DEF Page
  <1>5. PICK map : map = MapAfter(p, d)
    OBVIOUS
  <1>6. CASE loop[p][d].phase = "created"
    <2>1. id \in Locals /\ r \in 0..MaxRows
      <3>1. id \in Locals /\ r \in 1..Len(rows)
        BY <1>1, <1>3, <1>6, SentKnown
      <3> QED
        BY <3>1, BoundsAssumption DEF QueueInv, ServerKnown
    <2>2. map = [old EXCEPT ![id] = r] /\ stored' = map
      BY <1>1, <1>3, <1>5, <1>6 DEF MapAfter, StoredAfter
    <2>3. map \in IdMap /\ map[id] = r /\ \A l \in Locals \ {id} : map[l] = old[l]
      BY <1>4, <2>1, <2>2 DEF IdMap
    <2>4. page' \in [Pages -> Page] /\ page'[p] = [page[p] EXCEPT !.map = map]
      BY <1>1, <1>2, <1>5, <2>3 DEF Page
    <2>5. page'[p].map = map /\ page'[p].ids = page[p].ids /\ page'[p].open = page[p].open
      BY <1>2, <2>4 DEF Page
    <2>6. \A q \in Pages \ {p} : page'[q] = page[q]
      BY <1>1, <1>2
    <2> QED
      BY <1>3, <1>5, <1>6, <2>2, <2>3, <2>4, <2>5, <2>6
  <1>7. CASE loop[p][d].phase # "created"
    <2>1. map = old /\ stored' = stored
      BY <1>1, <1>3, <1>5, <1>7 DEF MapAfter, StoredAfter
    <2>2. page' \in [Pages -> Page] /\ page'[p] = [page[p] EXCEPT !.map = map]
      BY <1>1, <1>2, <1>4, <1>5, <2>1 DEF Page
    <2>3. page'[p].map = map /\ page'[p].ids = page[p].ids /\ page'[p].open = page[p].open
      BY <1>2, <2>2 DEF Page
    <2>4. \A q \in Pages \ {p} : page'[q] = page[q]
      BY <1>1, <1>2
    <2> QED
      BY <1>2, <1>3, <1>4, <1>5, <1>7, <2>1, <2>2, <2>3, <2>4
  <1> QED
    BY <1>6, <1>7

LEMMA CommittedKnown ==
    ASSUME QueueInv, NEW p \in Pages, NEW d \in Loops, Committed(p, d)
    PROVE  Stepped
  <1>1. /\ UNCHANGED <<online, key, form, writes, rows, applied, recalled>>
        /\ queue' = Without(Current(p, d).write) /\ Advance(p, d)
        /\ loop[p][d].phase \in {"waiting", "applied", "created"}
    BY DEF Committed, Settled, AnswerDue
  <1>2. loop[p][d].todo # {}
    BY <1>1, SentKnown
  <1>3. Larger
    BY <1>1, Unchanged
  <1>4. QueueKnown' /\ Moved
    BY <1>1, <1>3, QueueShrinks DEF Without
  <1>5. Mapped'
    <2>1. MapKnown(stored) /\ \A q \in Pages : PageKnown(page[q])
      BY DEF QueueInv, Mapped
    <2>2. MapKnown(page'[p].map) /\ MapKnown(stored')
      <3>1. CASE loop[p][d].phase = "created"
        <4>1. loop[p][d].target \in 1..Len(rows)
          BY <1>1, <3>1, SentKnown
        <4>2. ASSUME NEW l \in Locals PROVE page'[p].map[l] <= Len(rows)
          <5>1. CASE l = Current(p, d).id
            <6>1. page'[p].map[l] = loop[p][d].target
              BY <3>1, <5>1, AnswerMaps
            <6> QED
              BY <4>1, <6>1 DEF QueueInv, ServerKnown
          <5>2. CASE l # Current(p, d).id
            <6>1. page'[p].map[l] = page[p].map[l]
              BY <3>1, <5>2, AnswerMaps
            <6> QED
              BY <2>1, <6>1 DEF PageKnown, MapKnown
          <5> QED
            BY <5>1, <5>2
        <4> QED
          BY <3>1, <4>2, AnswerMaps DEF MapKnown
      <3>2. CASE loop[p][d].phase # "created"
        BY <2>1, <3>2, AnswerMaps DEF PageKnown
      <3> QED
        BY <3>1, <3>2
    <2>3. \A q \in Pages : PageKnown(page'[q])
      BY <2>1, <2>2, AnswerMaps DEF PageKnown
    <2> QED
      BY <1>1, <2>2, <2>3, AnswerMaps DEF Mapped, PageKnown, MapKnown
  <1> QED
    BY <1>1, <1>2, <1>3, <1>4, <1>5, AdvanceKnown, Unchanged

LEMMA UnansweredKnown ==
    ASSUME QueueInv, NEW p \in Pages, NEW d \in Loops, Refused(p, d) \/ Interrupted(p, d)
    PROVE  Stepped
  <1>1. /\ UNCHANGED <<online, key, stored, page, form, writes, rows, applied, recalled>>
        /\ \E status \in ItemStatus : queue' = Marked(Current(p, d).write, status)
        /\ Advance(p, d) /\ loop[p][d].phase \in {"waiting", "applied", "created"}
    BY DEF Refused, Interrupted, AnswerDue, ItemStatus
  <1>2. QueueKnown' /\ Moved /\ Larger
    BY <1>1, MarkKnown
  <1> QED
    BY <1>1, <1>2, SentKnown, AdvanceKnown, Unchanged, PagesKept

LEMMA FinishKnown ==
    ASSUME QueueInv, NEW p \in Pages, NEW d \in Loops, Finish(p, d)
    PROVE  Stepped
  <1>1. /\ UNCHANGED <<online, key, queue, stored, form, writes, rows, applied, recalled>>
        /\ loop' = [loop EXCEPT ![p][d] = NoDrain]
    BY DEF Finish
  <1>2. Larger
    BY <1>1, Unchanged
  <1>3. QueueKnown' /\ Moved
    BY <1>1, <1>2, QueueShrinks
  <1>4. NoDrain \in Drain /\ DrainKnown(NoDrain)' /\ NoDrain.todo = {}
    BY NoDrainKnown DEF DrainKnown, Distinct, NoDrain
  <1>5. LoopMoved
    BY <1>1, <1>4, LoopSet
  <1>6. Mapped'
    <2>1. PICK view \in Refreshed(p, rows, queue) :
             page' = [page EXCEPT ![p] =
                        [view EXCEPT !.saving = view.saving /\ loop[p][d].load]]
      BY DEF Finish
    <2>3. view \in Page /\ PageKnown(view)
      BY RefreshedPage
    <2>4. PICK shown : shown = [view EXCEPT !.saving = view.saving /\ loop[p][d].load]
      OBVIOUS
    <2>5. loop[p][d].load \in BOOLEAN
      BY DEF QueueInv, LoopKnown, Drain
    <2>6. shown \in Page /\ PageKnown(shown)
      BY <2>3, <2>4, <2>5 DEF Page, PageKnown
    <2> QED
      BY <1>1, <1>2, <2>1, <2>4, <2>6, PageShows
  <1> QED
    BY <1>1, <1>2, <1>3, <1>5, <1>6, FormUnmoved, Unchanged, PartsKept

LEMMA OpenPageKnown ==
    ASSUME QueueInv, NEW p \in Pages, OpenPage(p)
    PROVE  Stepped
  <1>1. UNCHANGED <<online, key, queue, stored, form, writes, rows, applied, recalled>>
    BY DEF OpenPage
  <1>2. Larger
    BY <1>1, Unchanged
  <1>3. QueueKnown' /\ Moved
    BY <1>1, <1>2, QueueShrinks
  <1>4. LoopMoved
    <2>1. CASE online
      <3>1. PICK d \in Loops : loop' = [loop EXCEPT ![p][d] = DrainOf(queue, TRUE)]
        BY <2>1 DEF OpenPage
      <3>2. PICK items : items = queue
        OBVIOUS
      <3>3. loop' = [loop EXCEPT ![p][d] = DrainOf(items, TRUE)] /\ items = queue'
        BY <1>1, <3>1, <3>2
      <3> QED
        BY <1>3, <3>3, NewDrain, LoopSet
    <2>2. CASE ~ online
      BY <2>2, LoopUnmoved DEF OpenPage
    <2> QED
      BY <2>1, <2>2
  <1>5. Mapped'
    <2>1. PICK view : view = [NoPage EXCEPT !.open = TRUE, !.map = stored]
      OBVIOUS
    <2>2. MapKnown(stored)
      BY DEF QueueInv, Mapped
    <2>3. view \in Page /\ PageKnown(view)
      BY <2>1, <2>2, BoundsAssumption DEF NoPage, Page, PageKnown, MapKnown, IdMap
    <2>4. page' = [page EXCEPT ![p] = view]
      BY <2>1 DEF OpenPage, LoadedMap
    <2> QED
      BY <1>1, <1>2, <2>3, <2>4, PageShows
  <1> QED
    BY <1>1, <1>2, <1>3, <1>4, <1>5, FormUnmoved, Unchanged, PartsKept

LEMMA ClosePageKnown ==
    ASSUME QueueInv, NEW p \in Pages, ClosePage(p)
    PROVE  Stepped
  <1>1. /\ UNCHANGED <<online, key, queue, stored, writes, rows, applied, recalled>>
        /\ page' = [page EXCEPT ![p] = NoPage]
        /\ loop' = [loop EXCEPT ![p] = [d \in Loops |-> NoDrain]]
        /\ form' = [form EXCEPT ![p] = [f \in Forms |-> NoForm]]
    BY DEF ClosePage
  <1>2. Larger
    BY <1>1, Unchanged
  <1>3. QueueKnown' /\ Moved
    BY <1>1, <1>2, QueueShrinks
  <1>4. LoopMoved
    <2>1. NoDrain \in Drain /\ DrainKnown(NoDrain)' /\ NoDrain.todo = {}
      BY NoDrainKnown DEF DrainKnown, Distinct, NoDrain
    <2>2. loop \in [Pages -> [Loops -> Drain]]
      BY DEF QueueInv, LoopKnown
    <2>3. /\ loop' \in [Pages -> [Loops -> Drain]]
          /\ \A q \in Pages, d \in Loops :
                loop'[q][d] = IF q = p THEN NoDrain ELSE loop[q][d]
      BY <1>1, <2>1, <2>2
    <2>4. ASSUME NEW q \in Pages, NEW d \in Loops
          PROVE  /\ loop'[q][d] = loop[q][d] \/ DrainKnown(loop[q][d])'
                 /\ loop'[q][d].todo \subseteq queue' \cup loop[q][d].todo
      <3>1. CASE q = p
        BY <2>1, <2>3, <3>1 DEF DrainKnown
      <3>2. CASE q # p
        BY <2>3, <3>2
      <3> QED
        BY <3>1, <3>2
    <2> QED
      BY <2>3, <2>4 DEF LoopMoved
  <1>5. Mapped'
    <2>1. NoPage \in Page /\ PageKnown(NoPage)
      BY BoundsAssumption DEF NoPage, Page, PageKnown, MapKnown, IdMap, QueueInv, ServerKnown
    <2> QED
      BY <1>1, <1>2, <2>1, PageShows
  <1>6. FormMoved
    <2>1. NoForm \in Form /\ FormOk(NoForm)' /\ NoForm.write = 0
      BY <1>2, NoFormOk DEF FormOk, NoForm
    <2>2. form \in [Pages -> [Forms -> Form]]
      BY DEF QueueInv, FormKnown
    <2>3. /\ form' \in [Pages -> [Forms -> Form]]
          /\ \A q \in Pages, f \in Forms :
                form'[q][f] = IF q = p THEN NoForm ELSE form[q][f]
      BY <1>1, <2>1, <2>2
    <2>4. ASSUME NEW q \in Pages, NEW f \in Forms
          PROVE  /\ form'[q][f] = form[q][f] \/ FormOk(form[q][f])'
                 /\ form'[q][f].write \in {0, form[q][f].write}
      <3>1. CASE q = p
        BY <2>1, <2>3, <3>1 DEF FormOk
      <3>2. CASE q # p
        BY <2>3, <3>2
      <3> QED
        BY <3>1, <3>2
    <2> QED
      BY <2>3, <2>4 DEF FormMoved
  <1> QED
    BY <1>1, <1>2, <1>3, <1>4, <1>5, <1>6, Unchanged, PartsKept

LEMMA ReconnectKnown ==
    ASSUME QueueInv, Reconnect
    PROVE  Stepped
  <1>1. UNCHANGED <<key, queue, stored, form, writes, rows, applied, recalled>> /\ online' = TRUE
    BY DEF Reconnect
  <1>2. Larger
    BY <1>1, Unchanged
  <1>3. QueueKnown' /\ Moved
    BY <1>1, <1>2, QueueShrinks
  <1> DEFINE open == {p \in Pages : page[p].open /\ ~Loading(p)}
  <1>4. PICK choice \in [open -> Loops] :
          /\ loop' = [p \in Pages |->
                        IF p \in open
                        THEN [loop[p] EXCEPT ![choice[p]] = DrainOf(queue, FALSE)]
                        ELSE loop[p]]
          /\ page' = [p \in Pages |->
                        IF p \in open THEN [page[p] EXCEPT !.saving = TRUE]
                        ELSE page[p]]
    BY DEF Reconnect
  <1> HIDE DEF open
  <1>5. PICK listening : listening = open
    OBVIOUS
  <1>6. PICK free \in [listening -> Loops] :
          /\ loop' = [p \in Pages |->
                        IF p \in listening
                        THEN [loop[p] EXCEPT ![free[p]] = DrainOf(queue, FALSE)]
                        ELSE loop[p]]
          /\ page' = [p \in Pages |->
                        IF p \in listening THEN [page[p] EXCEPT !.saving = TRUE]
                        ELSE page[p]]
    BY <1>4, <1>5
  <1>7. LoopMoved
    <2>1. PICK items : items = queue
      OBVIOUS
    <2>2. PICK next : next = DrainOf(items, FALSE)
      OBVIOUS
    <2>3. next \in Drain /\ DrainKnown(next)' /\ next.todo \subseteq queue'
      BY <1>1, <1>3, <2>1, <2>2, NewDrain
    <2>4. loop \in [Pages -> [Loops -> Drain]]
      BY DEF QueueInv, LoopKnown
    <2>5. /\ loop' \in [Pages -> [Loops -> Drain]]
          /\ \A q \in Pages, d \in Loops : loop'[q][d] \in {loop[q][d], next}
      BY <1>6, <2>1, <2>2, <2>3, <2>4
    <2>6. ASSUME NEW q \in Pages, NEW d \in Loops
          PROVE  /\ loop'[q][d] = loop[q][d] \/ DrainKnown(loop[q][d])'
                 /\ loop'[q][d].todo \subseteq queue' \cup loop[q][d].todo
      <3>1. CASE loop'[q][d] = loop[q][d]
        BY <3>1
      <3>2. CASE loop'[q][d] = next
        BY <2>3, <3>2 DEF DrainKnown
      <3> QED
        BY <2>5, <3>1, <3>2
    <2> QED
      BY <2>5, <2>6 DEF LoopMoved
  <1>8. Mapped'
    <2>1. PICK v, s : v = page /\ s = stored
      OBVIOUS
    <2>2. v \in [Pages -> Page] /\ MapKnown(s) /\ \A p \in Pages : PageKnown(v[p])
      BY <2>1 DEF QueueInv, Mapped
    <2>3. page' = [p \in Pages |-> IF p \in listening THEN [v[p] EXCEPT !.saving = TRUE]
                                   ELSE v[p]]
      BY <1>6, <2>1
    <2>4. /\ page' \in [Pages -> Page]
          /\ \A p \in Pages : page'[p].map = v[p].map /\ page'[p].ids = v[p].ids
      BY <2>2, <2>3 DEF Page
    <2>5. MapKnown(s)' /\ \A p \in Pages : PageKnown(v[p])'
      BY <1>2, <2>2, MapStays, ViewStays
    <2> QED
      BY <1>1, <2>1, <2>4, <2>5 DEF Mapped, MapKnown, PageKnown
  <1>9. SessionKnown'
    BY <1>1 DEF QueueInv, SessionKnown
  <1> QED
    BY <1>1, <1>2, <1>3, <1>7, <1>8, <1>9, FormUnmoved, Unchanged, PartsKept

LEMMA SessionStepKnown ==
    ASSUME QueueInv, GoOffline \/ SessionExpires \/ SignInAgain
    PROVE  Stepped
  <1>1. UNCHANGED <<queue, stored, page, loop, form, writes, rows, applied, recalled>>
    BY DEF GoOffline, SessionExpires, SignInAgain
  <1>2. SessionKnown'
    <2>1. key \in [no : 1..MaxKeys, live : BOOLEAN] /\ online \in BOOLEAN
          /\ (~ key.live => key.no < MaxKeys) /\ MaxKeys \in Nat
      BY BoundsAssumption DEF QueueInv, SessionKnown
    <2>2. CASE GoOffline
      BY <2>1, <2>2 DEF SessionKnown, GoOffline
    <2>3. CASE SessionExpires
      BY <2>1, <2>3 DEF SessionKnown, SessionExpires
    <2>4. CASE SignInAgain
      <3>1. key.no + 1 \in 1..MaxKeys
        BY <2>1, <2>4 DEF SignInAgain
      <3> QED
        BY <2>1, <2>4, <3>1 DEF SessionKnown, SignInAgain
    <2> QED
      BY <2>2, <2>3, <2>4
  <1>3. Larger
    BY <1>1, Unchanged
  <1> QED
    BY <1>1, <1>2, <1>3, Unchanged, QueueShrinks, LoopUnmoved, PagesKept, FormUnmoved, PartsKept

LEMMA QueueInvInit == Init => QueueInv
  <1> SUFFICES ASSUME Init PROVE QueueInv
    OBVIOUS
  <1>1. QueueKnown
    BY DEF Init, QueueKnown, Distinct, Placed
  <1>2. LoopKnown
    BY NoDrainKnown DEF Init, LoopKnown, DrainKnown
  <1>3. Len(rows) = 0 /\ rows \in Seq(RowOf)
    BY EmptySeq DEF Init
  <1>4. Mapped
    BY <1>3, BoundsAssumption DEF Init, Mapped, PageKnown, MapKnown, IdMap, NoPage, Page
  <1>5. ServerKnown /\ SessionKnown /\ CountsKnown
    BY <1>3, BoundsAssumption DEF Init, ServerKnown, SessionKnown, CountsKnown
  <1>6. FormKnown
    <2>1. NoForm \in Form /\ FormOk(NoForm) /\ NoForm.write = 0
      BY BoundsAssumption DEF NoForm, Form, FormOk, Init
    <2> QED
      BY <2>1 DEF Init, FormKnown, FormsApart
  <1> QED
    BY <1>1, <1>2, <1>4, <1>5, <1>6 DEF QueueInv

LEMMA EveryStep == QueueInv /\ [Next]_vars => Stepped
  <1> SUFFICES ASSUME QueueInv, [Next]_vars PROVE Stepped
    OBVIOUS
  <1>1. ASSUME NEW p \in Pages, User(p) PROVE Stepped
    <2>1. CASE \E f \in Forms : Write(p, f)
      BY <2>1, WriteOfflineKnown, WriteOnlineKnown DEF Write
    <2>2. CASE \E f \in Forms, id \in page[p].ids : Quote(p, f, id)
      BY <2>2, QuoteKnown
    <2>3. CASE \E d \in Loops, i \in queue : Retry(p, d, i)
      BY <2>3, RetryKnown
    <2>4. CASE \E i \in queue : Discard(p, i)
      BY <2>4, DiscardKnown
    <2> QED
      BY <1>1, <2>1, <2>2, <2>3, <2>4 DEF User
  <1>2. ASSUME NEW p \in Pages, NEW d \in Loops, DrainStep(p, d) PROVE Stepped
    BY <1>2, LeaveKnown, SendKnown, FinishKnown, AppliedKnown, CommittedKnown, UnansweredKnown
       DEF DrainStep, Local, Decided
  <1>3. ASSUME NEW p \in Pages, NEW f \in Forms, FormStep(p, f) PROVE Stepped
    BY <1>3, FormAppliedKnown, FormEndsKnown, FormInterruptedKnown, StoreKnown DEF FormStep
  <1>4. CASE UNCHANGED vars
    BY <1>4, Unchanged, QueueShrinks, LoopUnmoved, FormUnmoved, PagesKept, PartsKept DEF vars
  <1> QED
    BY <1>1, <1>2, <1>3, <1>4, OpenPageKnown, ClosePageKnown, ReconnectKnown,
       SessionStepKnown DEF Next

LEMMA QueueInvStep == QueueInv /\ [Next]_vars => QueueInv'
BY EveryStep DEF Stepped

\* However many pages and drains there are, every variable keeps values of its
\* kind, and no two queued items are one write.
THEOREM OfflineTypes == Spec => []TypeOK
BY QueueInvInit, QueueInvStep, QueueInvTypes, PTL DEF Spec

-----------------------------------------------------------------------------
(* What leaves the queue.                                                  *)

Leaves(i) == \A j \in queue' : j.write # i.write

Accounted(i) ==
    \/ applied'[i.write] > 0
    \/ \E p \in Pages : Discard(p, i)
    \/ \E j \in queue' : Replaces(i, j.action, j.id)
    \/ \E p \in Pages, f \in Forms :
         form'[p][f].phase = "sealing" /\ Replaces(i, form'[p][f].action, form'[p][f].id)
    \/ i.action = "address.delete" /\ i.id \in Locals
    \/ i.action \in {"address.update", "order.draft.save"} /\ ~key.live

\* A form touches no other form.
LEMMA EnqueueForm ==
    ASSUME NEW p, NEW f, NEW view, NEW n, NEW action, NEW id,
           Enqueue(p, f, view, n, action, id)
    PROVE  \E h : form' = [form EXCEPT ![p][f] = h]
BY DEF Enqueue, EnqueuePlain, BeginSealing, SealFails, EndForm

\* What is replaced has its replacement in the queue or being encrypted, unless
\* that cannot be encrypted.
LEMMA EnqueueAccounts ==
    ASSUME QueueInv, NEW p \in Pages, NEW f \in Forms, NEW view, NEW n, NEW action, NEW id,
           Enqueue(p, f, view, n, action, id), NEW i \in queue, Leaves(i)
    PROVE  Accounted(i)
  <1>1. ASSUME NEW o, EnqueuePlain(p, f, view, n, action, o) PROVE Accounted(i)
    <2>1. PICK kept : kept = queue \ Superseded(action, o)
      OBVIOUS
    <2>2. queue' = kept \cup {NewItem(n, action, o, 0, kept)}
      BY <1>1, <2>1 DEF EnqueuePlain
    <2>3. i \in Superseded(action, o)
      BY <2>1, <2>2 DEF Leaves
    <2>4. i.action = action /\ i.id = o
      BY <2>3 DEF Superseded
    <2>5. Replaces(i, NewItem(n, action, o, 0, kept).action, NewItem(n, action, o, 0, kept).id)
      BY <2>4 DEF NewItem, Replaces
    <2> QED
      BY <2>2, <2>5 DEF Accounted
  <1>2. ASSUME NEW o, BeginSealing(p, f, view, n, action, o) PROVE Accounted(i)
    <2>1. i \in Superseded(action, o)
      BY <1>2 DEF BeginSealing, PutAside, Leaves
    <2>2. PICK next : next = [NoForm EXCEPT !.phase = "sealing", !.write = n,
                                            !.action = action, !.id = o, !.key = key.no]
      OBVIOUS
    <2>3. next.phase = "sealing" /\ next.action = action /\ next.id = o
      BY <2>2 DEF NoForm
    <2>4. form' = [form EXCEPT ![p][f] = next]
      BY <1>2, <2>2 DEF BeginSealing
    <2>5. form'[p][f] = next
      BY <2>4 DEF QueueInv, FormKnown
    <2>6. Replaces(i, form'[p][f].action, form'[p][f].id)
      BY <2>1, <2>3, <2>5 DEF Superseded, Replaces
    <2> QED
      BY <2>3, <2>5, <2>6 DEF Accounted
  <1>3. ASSUME NEW o, SealFails(p, f, view, action, o) PROVE Accounted(i)
    <2>1. i \in Superseded(action, o) /\ action \in Sensitive /\ ~ key.live
      BY <1>3 DEF SealFails, PutAside, Leaves
    <2> QED
      BY <2>1 DEF Superseded, Sensitive, Accounted
  <1>4. CASE UNCHANGED queue
    BY <1>4 DEF Leaves
  <1> QED
    BY <1>1, <1>2, <1>3, <1>4 DEF Enqueue

\* No write is lost by marking.
LEMMA MarkKeeps ==
    ASSUME QueueInv, Larger, NEW n, NEW status \in ItemStatus, queue' = Marked(n, status),
           NEW i \in queue
    PROVE  ~ Leaves(i)
BY QueueMarked DEF Leaves

LEMMA UserAccounts ==
    ASSUME QueueInv, NEW p \in Pages, User(p), NEW i \in queue, Leaves(i)
    PROVE  Accounted(i)
  <1>1. CASE \E f \in Forms : Write(p, f)
    <2>1. PICK f \in Forms, action \in Action, id \in Locals \cup 1..Len(rows) :
            WriteOffline(p, f, action, id) \/ WriteOnline(p, f, action, id)
      BY <1>1 DEF Write
    <2>2. CASE WriteOnline(p, f, action, id)
      BY <2>2 DEF WriteOnline, Post, Leaves
    <2>3. CASE WriteOffline(p, f, action, id)
      BY <2>3, EnqueueAccounts DEF WriteOffline
    <2> QED
      BY <2>1, <2>2, <2>3
  <1>2. CASE \E f \in Forms, id \in page[p].ids : Quote(p, f, id)
    BY <1>2 DEF Quote, Post, Leaves
  <1>3. CASE \E d \in Loops, k \in queue : Retry(p, d, k)
    <2>1. PICK d \in Loops, k \in queue : Retry(p, d, k)
      BY <1>3
    <2>2. queue' = Marked(k.write, "local_queued") /\ UNCHANGED <<writes, rows, applied>>
      BY <2>1 DEF Retry
    <2> QED
      BY <2>2, MarkKeeps, Unchanged DEF ItemStatus
  <1>4. CASE \E k \in queue : Discard(p, k)
    <2>1. PICK k \in queue : Discard(p, k)
      BY <1>4
    <2>2. i.write = k.write
      BY <2>1 DEF Discard, Without, Leaves
    <2>3. i = k
      BY <2>2 DEF QueueInv, QueueKnown, Distinct
    <2> QED
      BY <2>1, <2>3 DEF Accounted
  <1> QED
    BY <1>1, <1>2, <1>3, <1>4 DEF User

LEMMA FormAccounts ==
    ASSUME QueueInv, NEW p \in Pages, NEW f \in Forms, FormStep(p, f), NEW i \in queue,
           Leaves(i)
    PROVE  Accounted(i)
  <1>1. CASE FormInterrupted(p, f)
    BY <1>1, EnqueueAccounts DEF FormInterrupted
  <1>2. CASE ~ FormInterrupted(p, f)
    <2>1. queue \subseteq queue'
      BY <1>2 DEF FormStep, FormApplied, FormAnswered, FormRefused, Store
    <2> QED
      BY <2>1 DEF Leaves
  <1> QED
    BY <1>1, <1>2

\* A drain takes an item off the queue only when the server has applied it, or
\* when it deletes what the server has never seen.
LEMMA DrainAccounts ==
    ASSUME QueueInv, NEW p \in Pages, NEW d \in Loops, DrainStep(p, d),
           NEW i \in queue, Leaves(i)
    PROVE  Accounted(i)
  <1>1. CASE Undecryptable(p, d) \/ AwaitCreate(p, d) \/ Send(p, d) \/ Refused(p, d)
             \/ Interrupted(p, d)
    <2>1. /\ UNCHANGED <<writes, rows, applied>>
          /\ \E status \in ItemStatus : queue' = Marked(Current(p, d).write, status)
      BY <1>1 DEF Undecryptable, AwaitCreate, Send, Refused, Interrupted, ItemStatus
    <2> QED
      BY <2>1, MarkKeeps, Unchanged
  <1>2. CASE Finish(p, d) \/ Applied(p, d)
    BY <1>2 DEF Finish, Applied, Leaves
  <1>3. CASE DropLocalDelete(p, d)
    <2>1. /\ queue' = Without(Current(p, d).write)
          /\ Current(p, d).action = "address.delete" /\ Target(p, d) \in Locals
          /\ loop[p][d].todo # {}
      BY <1>3 DEF DropLocalDelete, AtItem
    <2>2. i.write = Current(p, d).write
      BY <2>1 DEF Without, Leaves
    <2>3. i.action = Current(p, d).action /\ i.id = Current(p, d).id
      BY <2>1, <2>2, CurrentKnown DEF SameWrite
    <2>4. Current(p, d).id \in Locals
      BY <2>1, CurrentKnown, LocalNoRow
    <2> QED
      BY <2>1, <2>3, <2>4 DEF Accounted
  <1>4. CASE Committed(p, d)
    <2>1. queue' = Without(Current(p, d).write) /\ AnswerDue(p, d) /\ UNCHANGED applied
      BY <1>4 DEF Committed, Settled
    <2>2. i.write = Current(p, d).write
      BY <2>1 DEF Without, Leaves
    <2>3. applied[Current(p, d).write] > 0
      BY <2>1, SentKnown DEF AnswerDue
    <2> QED
      BY <2>1, <2>2, <2>3 DEF Accounted
  <1> QED
    BY <1>1, <1>2, <1>3, <1>4 DEF DrainStep, Local, Decided

\* What is being encrypted is stored, unless its tab is closed.
SealingKept(p, f) ==
    \/ form'[p][f] = form[p][f]
    \/ \E j \in queue' : j.write = form[p][f].write
    \/ ~ page'[p].open

LEMMA SealingStays ==
    ASSUME QueueInv, Next, NEW p \in Pages, NEW f \in Forms, form[p][f].phase = "sealing"
    PROVE  SealingKept(p, f)
  <1>1. form \in [Pages -> [Forms -> Form]] /\ page \in [Pages -> Page]
        /\ form[p][f] # NoForm
    BY DEF QueueInv, FormKnown, Mapped, NoForm
  <1>2. ASSUME NEW q \in Pages, NEW g \in Forms, NEW h, form' = [form EXCEPT ![q][g] = h],
               ~ (q = p /\ g = f)
        PROVE  SealingKept(p, f)
    BY <1>1, <1>2 DEF SealingKept
  <1>3. CASE UNCHANGED form
    BY <1>3 DEF SealingKept
  <1>4. ASSUME NEW q \in Pages, User(q) PROVE SealingKept(p, f)
    <2>1. ASSUME NEW g \in Forms, NEW n, NEW action, NEW id, Post(q, g, n, action, id)
          PROVE  SealingKept(p, f)
      BY <1>1, <1>2, <2>1 DEF Post
    <2>2. ASSUME NEW g \in Forms, NEW action, NEW id, WriteOffline(q, g, action, id)
          PROVE  SealingKept(p, f)
      <3>1. form[q][g] = NoForm /\ \E h : form' = [form EXCEPT ![q][g] = h]
        BY <2>2, EnqueueForm DEF WriteOffline
      <3> QED
        BY <1>1, <1>2, <3>1
    <2> QED
      BY <1>3, <1>4, <2>1, <2>2 DEF User, Write, WriteOnline, Quote, Retry, Discard
  <1>5. ASSUME NEW q \in Pages, NEW g \in Forms, FormStep(q, g) PROVE SealingKept(p, f)
    <2>1. CASE Store(q, g)
      <3>1. form' = [form EXCEPT ![q][g] = NoForm]
        BY <2>1 DEF Store, EndForm
      <3>2. CASE q = p /\ g = f
        <4>1. PICK new : new = NewItem(form[q][g].write, form[q][g].action, form[q][g].id,
                                       form[q][g].key, queue)
          OBVIOUS
        <4>2. new \in queue' /\ new.write = form[q][g].write
          BY <2>1, <4>1 DEF Store, NewItem
        <4> QED
          BY <3>2, <4>2 DEF SealingKept
      <3> QED
        BY <1>2, <3>1, <3>2
    <2>2. CASE ~ Store(q, g)
      <3>1. form[q][g].phase # "sealing"
        BY <1>5, <2>2
           DEF FormStep, FormApplied, FormAnswered, FormRefused, FormInterrupted
      <3>2. \E h : form' = [form EXCEPT ![q][g] = h]
        <4>1. CASE FormApplied(q, g)
          <5>1. form' = [form EXCEPT ![q][g] = [form[q][g] EXCEPT !.phase = "applied"]]
            BY <4>1 DEF FormApplied
          <5> QED
            BY <5>1
        <4>2. CASE FormInterrupted(q, g)
          BY <4>2, EnqueueForm DEF FormInterrupted
        <4>3. CASE FormAnswered(q, g) \/ FormRefused(q, g)
          BY <4>3 DEF FormAnswered, FormRefused, EndForm
        <4> QED
          BY <1>5, <2>2, <4>1, <4>2, <4>3 DEF FormStep
      <3> QED
        BY <1>2, <3>1, <3>2
    <2> QED
      BY <2>1, <2>2
  <1>6. ASSUME NEW q \in Pages, ClosePage(q) PROVE SealingKept(p, f)
    <2>1. form' = [form EXCEPT ![q] = [g \in Forms |-> NoForm]]
          /\ page' = [page EXCEPT ![q] = NoPage]
      BY <1>6 DEF ClosePage
    <2>2. CASE q = p
      BY <1>1, <2>1, <2>2 DEF SealingKept, NoPage
    <2>3. CASE q # p
      BY <1>1, <2>1, <2>3 DEF SealingKept
    <2> QED
      BY <2>2, <2>3
  <1>7. ASSUME NEW q \in Pages, NEW d \in Loops, DrainStep(q, d) PROVE SealingKept(p, f)
    BY <1>3, <1>7
       DEF DrainStep, Local, Decided, Undecryptable, AwaitCreate, DropLocalDelete, Send,
           Finish, Applied, Committed, Refused, Interrupted
  <1> QED
    BY <1>3, <1>4, <1>5, <1>6, <1>7
       DEF Next, OpenPage, GoOffline, Reconnect, SessionExpires, SignInAgain

\* Whatever crashes, is lost, expires or overlaps, on any number of pages, an
\* item leaves the queue for one of the reasons the property names, and a write
\* that is being encrypted gets lost only with its tab.
THEOREM NothingDroppedSafe == Spec => NothingDropped
  <1> DEFINE A == /\ \A i \in queue : Leaves(i) => Accounted(i)
                  /\ \A p \in Pages, f \in Forms :
                       form[p][f].phase = "sealing" => SealingKept(p, f)
  <1>1. QueueInv /\ [Next]_vars => [A]_vars
    <2> SUFFICES ASSUME QueueInv, Next PROVE A
      OBVIOUS
    <2>1. ASSUME NEW i \in queue, Leaves(i) PROVE Accounted(i)
      <3>1. CASE UNCHANGED queue
        BY <2>1, <3>1 DEF Leaves
      <3>2. CASE ~ UNCHANGED queue
        <4>1. \/ \E p \in Pages : User(p)
              \/ \E p \in Pages, d \in Loops : DrainStep(p, d)
              \/ \E p \in Pages, f \in Forms : FormStep(p, f)
          BY <3>2 DEF Next, OpenPage, ClosePage, GoOffline, Reconnect, SessionExpires,
                      SignInAgain
        <4> QED
          BY <2>1, <4>1, UserAccounts, DrainAccounts, FormAccounts
      <3> QED
        BY <3>1, <3>2
    <2> QED
      BY <2>1, SealingStays
  <1>2. [A]_vars =>
          [/\ \A i \in queue :
                (\A j \in queue' : j.write # i.write) =>
                    \/ applied'[i.write] > 0
                    \/ \E p \in Pages : Discard(p, i)
                    \/ \E j \in queue' : Replaces(i, j.action, j.id)
                    \/ \E p \in Pages, f \in Forms :
                         /\ form'[p][f].phase = "sealing"
                         /\ Replaces(i, form'[p][f].action, form'[p][f].id)
                    \/ i.action = "address.delete" /\ i.id \in Locals
                    \/ i.action \in {"address.update", "order.draft.save"} /\ ~key.live
           /\ \A p \in Pages, f \in Forms :
                form[p][f].phase = "sealing" =>
                    \/ form'[p][f] = form[p][f]
                    \/ \E j \in queue' : j.write = form[p][f].write
                    \/ ~page'[p].open]_vars
    BY DEF Leaves, Accounted, SealingKept
  <1> QED
    BY <1>1, <1>2, QueueInvInit, QueueInvStep, PTL DEF Spec, NothingDropped

-----------------------------------------------------------------------------
(* What a create leaves behind.                                            *)

\* One of three pages: as it was, as far as the map goes, or opened, or closed.
PageSame(q) ==
    \/ page'[q].map = page[q].map /\ page'[q].open = page[q].open
    \/ page'[q].map = stored /\ page'[q].open
    \/ page'[q] = NoPage /\ \A e \in Loops : loop'[q][e] = NoDrain

PagesSame == stored' = stored /\ \A q \in Pages : PageSame(q)

LEMMA OnePageSame ==
    ASSUME QueueInv, UNCHANGED stored, NEW p \in Pages, NEW view,
           page' = [page EXCEPT ![p] = view],
           \/ view.map = page[p].map /\ view.open = page[p].open
           \/ view.map = stored /\ view.open
           \/ view = NoPage /\ \A e \in Loops : loop'[p][e] = NoDrain
    PROVE  PagesSame
BY DEF PagesSame, PageSame, QueueInv, Mapped

LEMMA EndsSame ==
    ASSUME QueueInv, UNCHANGED stored, NEW p \in Pages, NEW f, NEW view \in Page,
           view.map = page[p].map, view.open = page[p].open, EndForm(p, f, view)
    PROVE  PagesSame
  <1>1. PICK shown : shown = [view EXCEPT !.saving = FALSE]
    OBVIOUS
  <1>2. shown.map = view.map /\ shown.open = view.open
    BY <1>1 DEF Page
  <1>3. page' = [page EXCEPT ![p] = shown]
    BY <1>1 DEF EndForm
  <1> QED
    BY <1>2, <1>3, OnePageSame

LEMMA EnqueueSame ==
    ASSUME QueueInv, UNCHANGED stored, NEW p \in Pages, NEW f, NEW view \in Page,
           PageKnown(view), view.map = page[p].map, view.open = page[p].open,
           NEW n, NEW action, NEW id \in Locals \cup 1..Len(rows),
           Enqueue(p, f, view, n, action, id)
    PROVE  PagesSame
  <1>1. ASSUME NEW o \in QueuedFor(view, action, id), EnqueuePlain(p, f, view, n, action, o)
        PROVE  PagesSame
    <2>1. EndForm(p, f, Showing(view, action, o))
      BY <1>1 DEF EnqueuePlain
    <2> QED
      BY <2>1, QueuedForKnown, ShowingKnown, EndsSame
  <1>2. ASSUME NEW o, BeginSealing(p, f, view, n, action, o) PROVE PagesSame
    BY <1>2, OnePageSame DEF BeginSealing
  <1> QED
    BY <1>1, <1>2, EndsSame DEF Enqueue, SealFails

LEMMA UserSame ==
    ASSUME QueueInv, NEW p \in Pages, User(p)
    PROVE  PagesSame
  <1>1. ASSUME NEW f, NEW n, NEW action, NEW id, Post(p, f, n, action, id) PROVE PagesSame
    BY <1>1, SavingKnown, OnePageSame DEF Post
  <1>2. ASSUME NEW f, NEW action, NEW id \in Locals \cup 1..Len(rows),
               WriteOffline(p, f, action, id)
        PROVE  PagesSame
    BY <1>2, SavingKnown, EnqueueSame DEF WriteOffline
  <1>3. ASSUME UNCHANGED <<stored, page>> PROVE PagesSame
    BY <1>3 DEF PagesSame, PageSame
  <1>4. ASSUME NEW d, NEW i, Retry(p, d, i) PROVE PagesSame
    <2>1. CASE online
      <3>1. page' = [page EXCEPT ![p] = Saving(p)] /\ UNCHANGED stored
        BY <1>4, <2>1 DEF Retry, Saving
      <3> QED
        BY <3>1, SavingKnown, OnePageSame
    <2> QED
      BY <1>3, <1>4, <2>1 DEF Retry
  <1> QED
    BY <1>1, <1>2, <1>3, <1>4 DEF User, Write, WriteOnline, Quote, Discard

LEMMA FormSame ==
    ASSUME QueueInv, NEW p \in Pages, NEW f \in Forms, FormStep(p, f)
    PROVE  PagesSame
  <1>1. page[p] \in Page /\ PageKnown(page[p])
    BY DEF QueueInv, Mapped
  <1>2. CASE FormApplied(p, f)
    BY <1>2 DEF FormApplied, PagesSame, PageSame
  <1>3. CASE FormAnswered(p, f)
    BY <1>3, RefreshedPage, EndsSame DEF FormAnswered
  <1>4. CASE FormRefused(p, f)
    BY <1>1, <1>4, EndsSame DEF FormRefused
  <1>5. CASE FormInterrupted(p, f)
    <2>1. form[p][f].phase # "idle"
      BY <1>5 DEF FormInterrupted
    <2> QED
      BY <1>1, <1>5, <2>1, FormAbout, EnqueueSame DEF FormInterrupted
  <1>6. CASE Store(p, f)
    <2>1. form[p][f].phase # "idle" /\ UNCHANGED stored
          /\ EndForm(p, f, Showing(page[p], form[p][f].action, form[p][f].id))
      BY <1>6 DEF Store
    <2> QED
      BY <1>1, <2>1, FormAbout, ShowingKnown, EndsSame
  <1> QED
    BY <1>2, <1>3, <1>4, <1>5, <1>6 DEF FormStep

LEMMA FinishSame ==
    ASSUME QueueInv, NEW p \in Pages, NEW d \in Loops, Finish(p, d)
    PROVE  PagesSame
  <1>1. PICK view \in Refreshed(p, rows, queue) :
           page' = [page EXCEPT ![p] = [view EXCEPT !.saving = view.saving /\ loop[p][d].load]]
    BY DEF Finish
  <1>2. PICK shown : shown = [view EXCEPT !.saving = view.saving /\ loop[p][d].load]
    OBVIOUS
  <1>3. shown.map = page[p].map /\ shown.open = page[p].open
    BY <1>2, RefreshedPage DEF Page
  <1> QED
    BY <1>1, <1>2, <1>3, OnePageSame DEF Finish

LEMMA ReconnectSame == ASSUME QueueInv, Reconnect PROVE PagesSame
  <1> DEFINE listening == {q \in Pages : page[q].open /\ ~Loading(q)}
  <1>1. page' = [q \in Pages |-> IF q \in listening THEN [page[q] EXCEPT !.saving = TRUE]
                                 ELSE page[q]]
    BY DEF Reconnect
  <1> HIDE DEF listening
  <1>2. page \in [Pages -> Page] /\ UNCHANGED stored
    BY DEF QueueInv, Mapped, Reconnect
  <1>3. \A q \in Pages : page'[q].map = page[q].map /\ page'[q].open = page[q].open
    BY <1>1, <1>2 DEF Page
  <1> QED
    BY <1>2, <1>3 DEF PagesSame, PageSame

\* Only an answer changes a map.
LEMMA OnlyAnswersMap ==
    QueueInv /\ [Next]_vars => PagesSame \/ \E p \in Pages, d \in Loops : Committed(p, d)
  <1> SUFFICES ASSUME QueueInv, [Next]_vars
               PROVE  PagesSame \/ \E p \in Pages, d \in Loops : Committed(p, d)
    OBVIOUS
  <1>1. ASSUME UNCHANGED <<stored, page>> PROVE PagesSame
    BY <1>1 DEF PagesSame, PageSame
  <1>2. ASSUME NEW p \in Pages, NEW d \in Loops, DrainStep(p, d), ~ Committed(p, d)
        PROVE  PagesSame
    BY <1>1, <1>2, FinishSame
       DEF DrainStep, Local, Decided, Undecryptable, AwaitCreate, DropLocalDelete, Send,
           Applied, Refused, Interrupted
  <1>3. ASSUME NEW p \in Pages, OpenPage(p) PROVE PagesSame
    <2>1. PICK view : view = [NoPage EXCEPT !.open = TRUE, !.map = stored]
      OBVIOUS
    <2>2. page' = [page EXCEPT ![p] = view] /\ view.map = stored /\ view.open
          /\ UNCHANGED stored
      BY <1>3, <2>1 DEF OpenPage, LoadedMap, NoPage
    <2> QED
      BY <2>2, OnePageSame
  <1>4. ASSUME NEW p \in Pages, ClosePage(p) PROVE PagesSame
    <2>1. \A e \in Loops : loop'[p][e] = NoDrain
      BY <1>4 DEF ClosePage, QueueInv, LoopKnown
    <2> QED
      BY <1>4, <2>1, OnePageSame DEF ClosePage
  <1>5. CASE GoOffline \/ SessionExpires \/ SignInAgain \/ UNCHANGED vars
    BY <1>1, <1>5 DEF GoOffline, SessionExpires, SignInAgain, vars
  <1> QED
    BY <1>2, <1>3, <1>4, <1>5, UserSame, FormSame, ReconnectSame DEF Next

\* What a step does to one drain: nothing, or it ends, or it is between two items
\* of an open page, or it sends something, or the server has applied what it sent.
DrainSame(p, d) ==
    \/ loop'[p][d] = loop[p][d]
    \/ loop'[p][d] = NoDrain
    \/ loop'[p][d].phase = "running" /\ (page'[p].open \/ loop[p][d] # NoDrain)
    \/ loop'[p][d].phase = "waiting" /\ Send(p, d)
    \/ Applied(p, d)

LEMMA DrainSet ==
    ASSUME QueueInv, NEW q \in Pages, NEW e \in Loops, NEW next,
           loop' = [loop EXCEPT ![q][e] = next],
           \/ next = NoDrain
           \/ next.phase = "running" /\ (page'[q].open \/ loop[q][e] # NoDrain)
           \/ next.phase = "waiting" /\ Send(q, e),
           NEW p \in Pages, NEW d \in Loops
    PROVE  DrainSame(p, d)
  <1>1. loop \in [Pages -> [Loops -> Drain]]
    BY DEF QueueInv, LoopKnown
  <1>2. CASE q = p /\ e = d
    BY <1>1, <1>2 DEF DrainSame
  <1>3. CASE ~ (q = p /\ e = d)
    BY <1>1, <1>3 DEF DrainSame
  <1> QED
    BY <1>2, <1>3

LEMMA DrainsMove ==
    ASSUME QueueInv, [Next]_vars, NEW p \in Pages, NEW d \in Loops
    PROVE  DrainSame(p, d)
  <1>0. loop \in [Pages -> [Loops -> Drain]] /\ NoDrain.phase = "idle"
    BY DEF QueueInv, LoopKnown, NoDrain
  <1>1. CASE UNCHANGED loop
    BY <1>1 DEF DrainSame
  <1>2. ASSUME NEW q \in Pages, User(q) PROVE DrainSame(p, d)
    <2>1. ASSUME NEW e \in Loops, NEW i, Retry(q, e, i) PROVE DrainSame(p, d)
      <3>1. CASE online
        <4>1. loop' = [loop EXCEPT ![q][e] = DrainOf(queue', FALSE)]
              /\ DrainOf(queue', FALSE).phase = "running"
          BY <2>1, <3>1 DEF Retry, DrainOf
        <4>2. page'[q].open
          BY <2>1, <3>1 DEF Retry, QueueUsable, QueueInv, Mapped, Page
        <4> QED
          BY <4>1, <4>2, DrainSet
      <3> QED
        BY <1>1, <2>1, <3>1 DEF Retry
    <2> QED
      BY <1>1, <1>2, <2>1 DEF User, Write, WriteOffline, WriteOnline, Post, Quote, Discard
  <1>3. ASSUME NEW q \in Pages, NEW f \in Forms, FormStep(q, f) PROVE DrainSame(p, d)
    BY <1>1, <1>3 DEF FormStep, FormApplied, FormAnswered, FormRefused, FormInterrupted, Store
  <1>4. ASSUME NEW q \in Pages, NEW e \in Loops, Advance(q, e), loop[q][e] # NoDrain
        PROVE  DrainSame(p, d)
    <2>1. PICK next : next = [loop[q][e] EXCEPT !.phase = "running", !.target = 0,
                                                !.todo = loop[q][e].todo \ {Current(q, e)}]
      OBVIOUS
    <2>2. next.phase = "running"
      BY <1>0, <2>1 DEF Drain
    <2>3. loop' = [loop EXCEPT ![q][e] = next]
      BY <1>4, <2>1 DEF Advance
    <2> QED
      BY <1>4, <2>2, <2>3, DrainSet
  <1>5. ASSUME NEW q \in Pages, NEW e \in Loops, Send(q, e) PROVE DrainSame(p, d)
    <2>1. PICK next : next = [loop[q][e] EXCEPT !.phase = "waiting", !.target = Target(q, e)]
      OBVIOUS
    <2>2. next.phase = "waiting"
      BY <1>0, <2>1 DEF Drain
    <2>3. loop' = [loop EXCEPT ![q][e] = next]
      BY <1>5, <2>1 DEF Send
    <2> QED
      BY <1>5, <2>2, <2>3, DrainSet
  <1>6. ASSUME NEW q \in Pages, NEW e \in Loops, Applied(q, e) PROVE DrainSame(p, d)
    <2>1. \E next : loop' = [loop EXCEPT ![q][e] = next]
      BY <1>6 DEF Applied
    <2>2. CASE q = p /\ e = d
      BY <1>6, <2>2 DEF DrainSame
    <2>3. CASE ~ (q = p /\ e = d)
      BY <1>0, <2>1, <2>3 DEF DrainSame
    <2> QED
      BY <2>2, <2>3
  <1>7. ASSUME NEW q \in Pages, NEW e \in Loops, DrainStep(q, e) PROVE DrainSame(p, d)
    <2>1. loop[q][e] # NoDrain
      BY <1>0, <1>7
         DEF DrainStep, Local, Decided, Undecryptable, AwaitCreate, DropLocalDelete, Send,
             AtItem, Finish, Applied, Committed, AnswerDue, Refused, Interrupted
    <2> QED
      BY <1>4, <1>5, <1>6, <1>7, <2>1, DrainSet
         DEF DrainStep, Local, Decided, Undecryptable, AwaitCreate, DropLocalDelete, Finish,
             Committed, Refused, Interrupted
  <1>8. ASSUME NEW q \in Pages, OpenPage(q) PROVE DrainSame(p, d)
    <2>1. CASE online
      <3>1. PICK e \in Loops : loop' = [loop EXCEPT ![q][e] = DrainOf(queue, TRUE)]
        BY <1>8, <2>1 DEF OpenPage
      <3>2. DrainOf(queue, TRUE).phase = "running" /\ page'[q].open
        BY <1>8 DEF DrainOf, OpenPage, QueueInv, Mapped, NoPage
      <3> QED
        BY <3>1, <3>2, DrainSet
    <2> QED
      BY <1>1, <1>8, <2>1 DEF OpenPage
  <1>9. ASSUME NEW q \in Pages, ClosePage(q) PROVE DrainSame(p, d)
    <2>1. loop' = [loop EXCEPT ![q] = [e \in Loops |-> NoDrain]]
      BY <1>9 DEF ClosePage
    <2> QED
      BY <1>0, <2>1 DEF DrainSame
  <1>10. CASE Reconnect
    <2> DEFINE listening == {q \in Pages : page[q].open /\ ~Loading(q)}
    <2>1. PICK free \in [listening -> Loops] :
            loop' = [q \in Pages |->
                       IF q \in listening
                       THEN [loop[q] EXCEPT ![free[q]] = DrainOf(queue, FALSE)]
                       ELSE loop[q]]
      BY <1>10 DEF Reconnect
    <2> HIDE DEF listening
    <2>2. \/ loop'[p][d] = loop[p][d]
          \/ p \in listening /\ loop'[p][d] = DrainOf(queue, FALSE)
      <3>1. CASE p \in listening
        <4>1. loop'[p] = [loop[p] EXCEPT ![free[p]] = DrainOf(queue, FALSE)]
          BY <2>1, <3>1
        <4>2. loop[p] \in [Loops -> Drain]
          BY <1>0
        <4> QED
          BY <3>1, <4>1, <4>2
      <3>2. CASE p \notin listening
        BY <2>1, <3>2
      <3> QED
        BY <3>1, <3>2
    <2>3. p \in listening => page'[p].open
      BY <1>10 DEF listening, Reconnect, QueueInv, Mapped, Page
    <2> QED
      BY <2>2, <2>3 DEF DrainSame, DrainOf
  <1> QED
    BY <1>1, <1>2, <1>3, <1>7, <1>8, <1>9, <1>10
       DEF Next, GoOffline, SessionExpires, SignInAgain, vars

\* A row some id map knows.
Used(r) ==
    \/ \E l \in Locals : stored[l] = r
    \/ \E q \in Pages, l \in Locals : page[q].map[l] = r

\* A row of which a page has still to hear is of the kind of what was sent, is in
\* no map yet, and no other drain has to hear of it.
CreatedOk(p, d) ==
    loop[p][d].phase = "created" =>
        /\ rows[loop[p][d].target].kind = Kind(Current(p, d).id)
        /\ ~ Used(loop[p][d].target)
        /\ \A q \in Pages, e \in Loops :
             /\ loop[q][e].phase = "created"
             /\ loop[q][e].target = loop[p][d].target
             => q = p /\ e = d

CreatedInv == \A p \in Pages, d \in Loops : CreatedOk(p, d)

\* Maps know rows there are.
LEMMA UsedRows ==
    ASSUME QueueInv, NEW r, Used(r)
    PROVE  r \in Nat /\ r <= Len(rows)
  <1>1. CASE \E l \in Locals : stored[l] = r
    BY <1>1, BoundsAssumption DEF QueueInv, Mapped, MapKnown, IdMap
  <1>2. CASE \E q \in Pages, l \in Locals : page[q].map[l] = r
    BY <1>2, BoundsAssumption DEF QueueInv, Mapped, PageKnown, MapKnown, IdMap
  <1> QED
    BY <1>1, <1>2 DEF Used

\* A row becomes known by the answer about it, and by nothing else.
LEMMA UsedGrows ==
    ASSUME QueueInv, [Next]_vars, NEW r \in Nat \ {0}, Used(r)'
    PROVE  \/ Used(r)
           \/ \E p \in Pages, d \in Loops :
                Committed(p, d) /\ loop[p][d].phase = "created" /\ loop[p][d].target = r
  <1>1. CASE PagesSame
    <2>1. \A q \in Pages, l \in Locals : page'[q].map[l] = r =>
              page[q].map[l] = r \/ stored[l] = r
      BY <1>1 DEF PagesSame, PageSame, NoPage
    <2> QED
      BY <1>1, <2>1 DEF PagesSame, Used
  <1>2. ASSUME NEW p \in Pages, NEW d \in Loops, Committed(p, d)
        PROVE  Used(r) \/ (loop[p][d].phase = "created" /\ loop[p][d].target = r)
    <2>1. CASE loop[p][d].phase = "created"
      <3>1. \A l \in Locals : page'[p].map[l] \in {page[p].map[l], loop[p][d].target}
        BY <1>2, <2>1, AnswerMaps
      <3>2. stored' = page'[p].map /\ \A q \in Pages \ {p} : page'[q] = page[q]
        BY <1>2, <2>1, AnswerMaps
      <3> QED
        BY <2>1, <3>1, <3>2 DEF Used
    <2>2. CASE loop[p][d].phase # "created"
      <3>1. stored' = stored /\ page'[p].map = page[p].map
        BY <1>2, <2>2, AnswerMaps
      <3>2. \A q \in Pages \ {p} : page'[q] = page[q]
        BY <1>2, AnswerMaps
      <3> QED
        BY <3>1, <3>2 DEF Used
    <2> QED
      BY <2>1, <2>2
  <1> QED
    BY <1>1, <1>2, OnlyAnswersMap

LEMMA CreatedStep == QueueInv /\ CreatedInv /\ [Next]_vars => CreatedInv'
  <1> SUFFICES ASSUME QueueInv, CreatedInv, [Next]_vars, NEW p \in Pages, NEW d \in Loops,
                      loop'[p][d].phase = "created"
               PROVE  CreatedOk(p, d)'
    BY DEF CreatedInv, CreatedOk
  <1>1. Stepped
    BY EveryStep
  <1>2. Len(rows) \in Nat
    BY DEF QueueInv, ServerKnown
  \* A row just created is the last one, and its drain the only one to hear of it.
  <1>3. ASSUME NEW q \in Pages, NEW e \in Loops, Applied(q, e), loop'[q][e].phase = "created"
        PROVE  /\ loop'[q][e].target = Len(rows) + 1 /\ Current(q, e)' = Current(q, e)
               /\ rows'[Len(rows) + 1].kind = Kind(Current(q, e).id)
               /\ Current(q, e).id \in Locals
               /\ UNCHANGED <<stored, page>>
               /\ \A r \in Pages, g \in Loops :
                     loop'[r][g].phase = "created" /\ ~ (r = q /\ g = e)
                         => loop'[r][g] = loop[r][g] /\ loop[r][g].target \in 1..Len(rows)
    <2>1. loop \in [Pages -> [Loops -> Drain]] /\ loop[q][e].phase = "waiting"
      BY <1>3 DEF Applied, QueueInv, LoopKnown
    <2>2. Creates(Current(q, e).action, loop[q][e].target)
      <3>1. CASE ~ Creates(Current(q, e).action, loop[q][e].target)
        <4>1. loop' = [loop EXCEPT ![q][e] = [loop[q][e] EXCEPT !.phase = "applied"]]
          BY <1>3, <3>1 DEF Applied
        <4>2. loop'[q][e].phase = "applied"
          BY <2>1, <4>1 DEF Drain
        <4> QED
          BY <1>3, <4>2
      <3> QED
        BY <3>1
    <2>3. loop' = [loop EXCEPT ![q][e] =
                     [loop[q][e] EXCEPT !.phase = "created", !.target = Len(rows')]]
      BY <1>3, <2>2 DEF Applied
    <2>4. loop'[q][e].target = Len(rows') /\ loop'[q][e].todo = loop[q][e].todo
      BY <2>1, <2>3 DEF Drain
    <2>5. /\ Len(rows') = Len(rows) + 1 /\ Current(q, e).id \in Locals
          /\ rows'[Len(rows')].kind = Kind(Current(q, e).id)
      BY <1>3, <2>2, DrainServed
    <2>6. \A r \in Pages, g \in Loops : ~ (r = q /\ g = e) => loop'[r][g] = loop[r][g]
      BY <2>1, <2>3
    <2>7. \A r \in Pages, g \in Loops :
             loop[r][g].phase = "created" => loop[r][g].target \in 1..Len(rows)
      BY SentKnown
    <2> QED
      BY <1>3, <2>4, <2>5, <2>6, <2>7 DEF Applied, Current
  <1>4. CASE Applied(p, d)
    <2>1. PICK r : r = Len(rows) + 1
      OBVIOUS
    <2>2. /\ loop'[p][d].target = r /\ rows'[r].kind = Kind(Current(p, d).id)
          /\ Current(p, d)' = Current(p, d) /\ Current(p, d).id \in Locals
      BY <1>3, <1>4, <2>1
    <2>3. ~ Used(r)
      BY <1>2, <2>1, UsedRows
    <2>4. ~ Used(r)'
      BY <1>3, <1>4, <2>3 DEF Used
    <2>5. \A q \in Pages, e \in Loops :
             loop'[q][e].phase = "created" /\ loop'[q][e].target = r => q = p /\ e = d
      BY <1>2, <1>3, <1>4, <2>1
    <2>6. rows'[r].kind = Kind(Current(p, d).id)'
      BY <2>2 DEF Kind, Locals
    <2> QED
      BY <2>2, <2>4, <2>5, <2>6 DEF CreatedOk, Used
  <1>5. CASE loop'[p][d] = loop[p][d]
    <2>1. PICK r : r = loop[p][d].target
      OBVIOUS
    <2>2. /\ loop[p][d].phase = "created" /\ rows[r].kind = Kind(Current(p, d).id)
          /\ ~ Used(r)
          /\ \A q \in Pages, e \in Loops :
               loop[q][e].phase = "created" /\ loop[q][e].target = r => q = p /\ e = d
      BY <1>5, <2>1 DEF CreatedInv, CreatedOk
    <2>3. r \in 1..Len(rows) /\ Current(p, d).id \in Locals
      BY <2>1, <2>2, SentKnown
    <2>4. Current(p, d)' = Current(p, d) /\ loop'[p][d].target = r
      BY <1>5, <2>1 DEF Current
    <2>5. rows'[r].kind = Kind(Current(p, d).id)'
      BY <1>1, <2>2, <2>3, <2>4 DEF Stepped, Larger, Kind, Locals
    <2>6. ~ Used(r)'
      <3> SUFFICES ASSUME Used(r)' PROVE FALSE
        OBVIOUS
      <3>1. PICK q \in Pages, e \in Loops :
               Committed(q, e) /\ loop[q][e].phase = "created" /\ loop[q][e].target = r
        BY <1>2, <2>2, <2>3, UsedGrows
      <3>2. Committed(p, d)
        BY <2>2, <3>1
      <3>3. loop[p][d].todo # {} /\ Advance(p, d)
        BY <2>2, <3>2, SentKnown DEF Committed
      <3>4. loop'[p][d].phase = "running"
        BY <1>1, <3>3, LoopAdvanced DEF Stepped, QueueInv
      <3> QED
        BY <3>4
    <2>7. ASSUME NEW q \in Pages, NEW e \in Loops, loop'[q][e].phase = "created",
                 loop'[q][e].target = r
          PROVE  q = p /\ e = d
      <3>1. CASE loop'[q][e] = loop[q][e]
        BY <2>2, <2>7, <3>1
      <3>2. CASE Applied(q, e)
        BY <1>2, <1>3, <2>3, <2>7, <3>2
      <3> QED
        BY <2>7, <3>1, <3>2, DrainsMove DEF DrainSame, NoDrain
    <2> QED
      BY <2>4, <2>5, <2>6, <2>7 DEF CreatedOk, Used
  <1> QED
    BY <1>4, <1>5, DrainsMove DEF DrainSame, NoDrain

\* However many pages drain the queue, the row an answer tells of is then known
\* under the local id of its item, to the page and to local storage; it is of the
\* item's kind, and no other local id anywhere is taken for it.
THEOREM CreatesMapped == Spec => CommittedCreateIsMapped
  <1> DEFINE A == \A p \in Pages, d \in Loops :
                    loop[p][d].phase = "created" /\ Committed(p, d) =>
                        LET i == Current(p, d)
                        IN  /\ stored'[i.id] \in DOMAIN rows'
                            /\ page'[p].map[i.id] = stored'[i.id]
                            /\ rows'[stored'[i.id]].kind = Kind(i.id)
                            /\ \A q \in Pages, l \in Locals \ {i.id} :
                                 page'[q].map[l] # stored'[i.id]
  <1>1. QueueInv /\ CreatedInv /\ [Next]_vars => [A]_vars
    <2> SUFFICES ASSUME QueueInv, CreatedInv, NEW p \in Pages, NEW d \in Loops,
                        loop[p][d].phase = "created", Committed(p, d)
                 PROVE  /\ stored'[Current(p, d).id] \in DOMAIN rows'
                        /\ page'[p].map[Current(p, d).id] = stored'[Current(p, d).id]
                        /\ rows'[stored'[Current(p, d).id]].kind = Kind(Current(p, d).id)
                        /\ \A q \in Pages, l \in Locals \ {Current(p, d).id} :
                             page'[q].map[l] # stored'[Current(p, d).id]
      OBVIOUS
    <2>1. PICK id, r : id = Current(p, d).id /\ r = loop[p][d].target
      OBVIOUS
    <2>2. r \in 1..Len(rows) /\ id \in Locals
      BY <2>1, SentKnown
    <2>3. /\ stored' = page'[p].map /\ page'[p].map[id] = r
          /\ \A l \in Locals \ {id} : page'[p].map[l] = page[p].map[l]
          /\ \A q \in Pages \ {p} : page'[q] = page[q]
      BY <2>1, AnswerMaps
    <2>4. rows' = rows /\ DOMAIN rows = 1..Len(rows)
      BY DEF Committed, QueueInv, ServerKnown
    <2>5. rows[r].kind = Kind(id) /\ ~ Used(r)
      BY <2>1 DEF CreatedInv, CreatedOk
    <2>6. \A q \in Pages, l \in Locals \ {id} : page'[q].map[l] # r
      BY <2>3, <2>5 DEF Used
    <2> QED
      BY <2>1, <2>2, <2>3, <2>4, <2>5, <2>6
  <1>2. Init => CreatedInv
    BY DEF Init, CreatedInv, CreatedOk, NoDrain
  <1> QED
    BY <1>1, <1>2, CreatedStep, QueueInvInit, QueueInvStep, PTL
       DEF Spec, CommittedCreateIsMapped

-----------------------------------------------------------------------------
(* Where the writes at hand come from.                                     *)

\* Form h is about what this write does; a confirmation may change its order.
Makes(h, action, id) == h.action = action /\ (action # "order.confirm" => h.id = id)

\* It had not been applied, or its answer was lost.
Pending(h) == h.phase # "applied" \/ "lost" \in Faults

\* A form of before the step had this write to make.
FromForm(n, action, id) ==
    \E p \in Pages, f \in Forms :
        form[p][f].write = n /\ Makes(form[p][f], action, id) /\ Pending(form[p][f])

\* What the queue, and what a form, has after the step.
QueueSource(j) ==
    \/ \E i \in queue : i.write = j.write /\ SameWrite(i, j)
    \/ FromForm(j.write, j.action, j.id)
    \/ j.write > writes /\ j.action # "address.create"

FormSource(h) ==
    \/ h.write = 0
    \/ \E p \in Pages, f \in Forms : h = form[p][f]
    \/ FromForm(h.write, h.action, h.id)
    \/ h.write > writes /\ (h.action = "address.create" => Fresh(h.id))
    \/ /\ h.phase = "applied"
       /\ \E p \in Pages, f \in Forms :
            form[p][f].write = h.write /\ Makes(form[p][f], h.action, h.id)

Sources ==
    /\ \A j \in queue' : QueueSource(j)
    /\ \A p \in Pages, f \in Forms : FormSource(form'[p][f])

\* Most steps leave the forms alone.
LEMMA FormsAlone ==
    ASSUME QueueInv, Stepped, UNCHANGED <<form, writes>>
    PROVE  Sources
  <1>1. ASSUME NEW j \in queue' PROVE QueueSource(j)
    <2>1. j.write <= writes /\ j.write \in 1..MaxWrites
      BY DEF Stepped, QueueInv, QueueKnown, Known, Item
    <2>2. ~ (j.write > writes) /\ j.write # 0
      BY <2>1, BoundsAssumption DEF QueueInv, CountsKnown
    <2> QED
      BY <2>2 DEF Stepped, Moved, QueueSource
  <1> QED
    BY <1>1 DEF Sources, FormSource

LEMMA OneFormSource ==
    ASSUME QueueInv, NEW p \in Pages, NEW f \in Forms, NEW h, FormSource(h),
           form' = [form EXCEPT ![p][f] = h]
    PROVE  \A q \in Pages, g \in Forms : FormSource(form'[q][g])
  <1>1. form \in [Pages -> [Forms -> Form]]
    BY DEF QueueInv, FormKnown
  <1> SUFFICES ASSUME NEW q \in Pages, NEW g \in Forms PROVE FormSource(form'[q][g])
    OBVIOUS
  <1>2. CASE q = p /\ g = f
    BY <1>1, <1>2
  <1>3. CASE ~ (q = p /\ g = f)
    BY <1>1, <1>3 DEF FormSource
  <1> QED
    BY <1>2, <1>3

\* A write that is queued is new, or that of the form.
LEMMA EnqueueSource ==
    ASSUME QueueInv, NEW p \in Pages, NEW f \in Forms, NEW view, NEW n, NEW action, NEW id,
           Enqueue(p, f, view, n, action, id),
           \/ /\ form[p][f].write = n /\ Makes(form[p][f], action, id)
              /\ Pending(form[p][f])
           \/ n > writes /\ (action = "address.create" => Fresh(id))
    PROVE  Sources
  <1>1. \A j \in queue : QueueSource(j)
    BY DEF QueueSource, SameWrite
  <1>2. FormSource(NoForm)
    BY DEF FormSource, NoForm
  <1>3. \A o \in QueuedFor(view, action, id) : action # "order.confirm" => o = id
    BY DEF QueuedFor
  <1>4. ASSUME NEW o \in QueuedFor(view, action, id), EnqueuePlain(p, f, view, n, action, o)
        PROVE  Sources
    <2>1. PICK kept : kept = queue \ Superseded(action, o)
      OBVIOUS
    <2>2. PICK new : new = NewItem(n, action, o, 0, kept)
      OBVIOUS
    <2>3. new.write = n /\ new.action = action /\ new.id = o
      BY <2>2 DEF NewItem
    <2>4. action # "address.create"
      BY <1>4 DEF EnqueuePlain, Sensitive
    <2>5. QueueSource(new)
      BY <1>3, <2>3, <2>4 DEF QueueSource, FromForm, Makes
    <2>6. queue' \subseteq queue \cup {new} /\ form' = [form EXCEPT ![p][f] = NoForm]
      BY <1>4, <2>1, <2>2 DEF EnqueuePlain, EndForm
    <2> QED
      BY <1>1, <1>2, <2>5, <2>6, OneFormSource DEF Sources
  <1>5. ASSUME NEW o \in QueuedFor(view, action, id), BeginSealing(p, f, view, n, action, o)
        PROVE  Sources
    <2>1. PICK next : next = [NoForm EXCEPT !.phase = "sealing", !.write = n,
                                            !.action = action, !.id = o, !.key = key.no]
      OBVIOUS
    <2>2. next.write = n /\ next.action = action /\ next.id = o
      BY <2>1 DEF NoForm
    <2>3. action # "order.confirm"
      BY <1>5 DEF BeginSealing, Sensitive
    <2>4. FormSource(next)
      BY <1>3, <2>2, <2>3 DEF FormSource, FromForm, Makes
    <2>5. queue' \subseteq queue /\ form' = [form EXCEPT ![p][f] = next]
      BY <1>5, <2>1 DEF BeginSealing, PutAside
    <2> QED
      BY <1>1, <2>4, <2>5, OneFormSource DEF Sources
  <1>6. ASSUME EndForm(p, f, view), queue' \subseteq queue PROVE Sources
    BY <1>1, <1>2, <1>6, OneFormSource DEF Sources, EndForm
  <1> QED
    BY <1>4, <1>5, <1>6 DEF Enqueue, SealFails, PutAside

LEMMA UserSources ==
    ASSUME QueueInv, Stepped, NEW p \in Pages, User(p)
    PROVE  Sources
  <1>0. \A j \in queue : QueueSource(j)
    BY DEF QueueSource, SameWrite
  <1>1. writes + 1 > writes
    BY DEF QueueInv, CountsKnown
  <1>2. ASSUME NEW f \in Forms, NEW n, NEW action, NEW id, Post(p, f, n, action, id),
               n = 0 \/ (n > writes /\ (action = "address.create" => Fresh(id)))
        PROVE  Sources
    <2>1. PICK next : next = [NoForm EXCEPT !.phase = "posting", !.write = n,
                                !.action = action, !.id = id, !.target = Posted(p, id)]
      OBVIOUS
    <2>2. next.write = n /\ next.action = action /\ next.id = id
      BY <2>1 DEF NoForm
    <2>3. FormSource(next)
      BY <1>2, <2>2 DEF FormSource
    <2>4. queue' = queue /\ form' = [form EXCEPT ![p][f] = next]
      BY <1>2, <2>1 DEF Post
    <2> QED
      BY <1>0, <2>3, <2>4, OneFormSource DEF Sources
  <1>3. ASSUME NEW f \in Forms, NEW action, NEW id,
               WriteOffline(p, f, action, id) \/ WriteOnline(p, f, action, id)
        PROVE  Sources
    <2>1. action = "address.create" => Fresh(id)
      BY <1>3 DEF WriteOffline, WriteOnline, CanWrite
    <2>2. CASE WriteOffline(p, f, action, id)
      BY <1>1, <2>1, <2>2, EnqueueSource DEF WriteOffline
    <2>3. CASE WriteOnline(p, f, action, id)
      BY <1>1, <1>2, <2>1, <2>3 DEF WriteOnline
    <2> QED
      BY <1>3, <2>2, <2>3
  <1>4. ASSUME NEW f \in Forms, NEW id, Quote(p, f, id) PROVE Sources
    BY <1>2, <1>4 DEF Quote
  <1>5. CASE UNCHANGED <<form, writes>>
    BY <1>5, FormsAlone
  <1> QED
    BY <1>3, <1>4, <1>5 DEF User, Write, Retry, Discard

LEMMA FormSources ==
    ASSUME QueueInv, Stepped, NEW p \in Pages, NEW f \in Forms, FormStep(p, f)
    PROVE  Sources
  <1>0. \A j \in queue : QueueSource(j)
    BY DEF QueueSource, SameWrite
  <1>1. PICK h : h = form[p][f]
    OBVIOUS
  <1>2. FormSource(NoForm)
    BY DEF FormSource, NoForm
  <1>3. CASE FormApplied(p, f)
    <2>1. PICK next : next = [h EXCEPT !.phase = "applied"]
      OBVIOUS
    <2>2. h \in Form
      BY <1>1 DEF QueueInv, FormKnown
    <2>3. next.write = h.write /\ next.action = h.action /\ next.id = h.id
          /\ next.phase = "applied"
      BY <2>1, <2>2 DEF Form
    <2>4. FormSource(next)
      BY <1>1, <2>3 DEF FormSource, Makes
    <2>5. queue' = queue /\ form' = [form EXCEPT ![p][f] = next]
      BY <1>1, <1>3, <2>1 DEF FormApplied
    <2> QED
      BY <1>0, <2>4, <2>5, OneFormSource DEF Sources
  <1>4. CASE FormAnswered(p, f) \/ FormRefused(p, f)
    <2>1. queue' = queue /\ form' = [form EXCEPT ![p][f] = NoForm]
      BY <1>4 DEF FormAnswered, FormRefused, EndForm
    <2> QED
      BY <1>0, <1>2, <2>1, OneFormSource DEF Sources
  <1>5. CASE FormInterrupted(p, f)
    <2>1. Makes(h, h.action, h.id) /\ Pending(h)
      BY <1>1, <1>5 DEF FormInterrupted, Makes, Pending
    <2>2. Enqueue(p, f, page[p], h.write, h.action, h.id)
      BY <1>1, <1>5 DEF FormInterrupted
    <2> QED
      BY <1>1, <2>1, <2>2, EnqueueSource
  <1>6. CASE Store(p, f)
    <2>1. PICK new : new = NewItem(h.write, h.action, h.id, h.key, queue)
      OBVIOUS
    <2>2. new.write = h.write /\ new.action = h.action /\ new.id = h.id
      BY <2>1 DEF NewItem
    <2>3. h.phase = "sealing" /\ queue' = queue \cup {new}
          /\ form' = [form EXCEPT ![p][f] = NoForm]
      BY <1>1, <1>6, <2>1 DEF Store, EndForm
    <2>4. QueueSource(new)
      BY <1>1, <2>2, <2>3 DEF QueueSource, FromForm, Makes, Pending
    <2> QED
      BY <1>0, <1>2, <2>3, <2>4, OneFormSource DEF Sources
  <1> QED
    BY <1>3, <1>4, <1>5, <1>6 DEF FormStep

LEMMA EverySource == QueueInv /\ [Next]_vars => Sources
  <1> SUFFICES ASSUME QueueInv, [Next]_vars PROVE Sources
    OBVIOUS
  <1>1. Stepped
    BY EveryStep
  <1>2. CASE UNCHANGED <<form, writes>>
    BY <1>1, <1>2, FormsAlone
  <1>3. ASSUME NEW p \in Pages, ClosePage(p) PROVE Sources
    <2>1. form' = [form EXCEPT ![p] = [f \in Forms |-> NoForm]] /\ queue' = queue
      BY <1>3 DEF ClosePage
    <2>2. \A q \in Pages, f \in Forms : form'[q][f] \in {NoForm, form[q][f]}
      BY <2>1 DEF QueueInv, FormKnown
    <2>3. \A q \in Pages, f \in Forms : FormSource(form'[q][f])
      BY <2>2 DEF FormSource, NoForm
    <2> QED
      BY <2>1, <2>3 DEF Sources, QueueSource, SameWrite
  <1>4. ASSUME NEW p \in Pages, NEW d \in Loops, DrainStep(p, d) PROVE Sources
    BY <1>2, <1>4
       DEF DrainStep, Local, Decided, Undecryptable, AwaitCreate, DropLocalDelete, Send,
           Finish, Applied, Committed, Refused, Interrupted
  <1> QED
    BY <1>1, <1>2, <1>3, <1>4, UserSources, FormSources
       DEF Next, OpenPage, GoOffline, Reconnect, SessionExpires, SignInAgain, vars

-----------------------------------------------------------------------------
(* One page and one drain.                                                 *)

OneDrain == (\E p : Pages = {p}) /\ (\E d : Loops = {d})

\* The server applies a write for a drain or for a form, once a step.
LEMMA AppliedBy ==
    ASSUME QueueInv, [Next]_vars, NEW n \in 1..MaxWrites, applied'[n] # applied[n]
    PROVE  /\ applied[n] \in Nat /\ applied'[n] = applied[n] + 1
           /\ \/ \E p \in Pages, d \in Loops : Applied(p, d) /\ Current(p, d).write = n
              \/ \E p \in Pages, f \in Forms : FormApplied(p, f) /\ form[p][f].write = n
  <1>1. applied \in [1..MaxWrites -> 0..2]
    BY DEF QueueInv, ServerKnown
  <1>2. ASSUME NEW action, NEW target, NEW m, ServerApplies(action, target, m)
        PROVE  m = n /\ applied[n] \in Nat /\ applied'[n] = applied[n] + 1
    BY <1>1, <1>2 DEF ServerApplies
  <1>3. ASSUME NEW p \in Pages, NEW d \in Loops, DrainStep(p, d)
        PROVE  Applied(p, d)
    BY <1>3
       DEF DrainStep, Local, Decided, Undecryptable, AwaitCreate, DropLocalDelete, Send,
           Finish, Committed, Refused, Interrupted
  <1>4. ASSUME NEW p \in Pages, NEW f \in Forms, FormStep(p, f)
        PROVE  FormApplied(p, f)
    BY <1>4 DEF FormStep, FormAnswered, FormRefused, FormInterrupted, Store
  <1>5. ASSUME NEW p \in Pages, User(p) PROVE FALSE
    BY <1>5 DEF User, Write, WriteOffline, WriteOnline, Quote, Post, Retry, Discard
  <1>6. \/ \E p \in Pages, d \in Loops : Applied(p, d)
        \/ \E p \in Pages, f \in Forms : FormApplied(p, f)
    BY <1>3, <1>4, <1>5
       DEF Next, OpenPage, ClosePage, GoOffline, Reconnect, SessionExpires, SignInAgain, vars
  <1>7. ASSUME NEW p \in Pages, NEW d \in Loops, Applied(p, d)
        PROVE  Current(p, d).write = n /\ applied[n] \in Nat /\ applied'[n] = applied[n] + 1
    <2>1. PICK action, target, m : m = Current(p, d).write /\ ServerApplies(action, target, m)
      BY <1>7 DEF Applied
    <2> QED
      BY <1>2, <2>1
  <1>8. ASSUME NEW p \in Pages, NEW f \in Forms, FormApplied(p, f)
        PROVE  form[p][f].write = n /\ applied[n] \in Nat /\ applied'[n] = applied[n] + 1
    <2>1. PICK action, target, m : m = form[p][f].write /\ ServerApplies(action, target, m)
      BY <1>8 DEF FormApplied
    <2> QED
      BY <1>2, <2>1
  <1> QED
    BY <1>6, <1>7, <1>8

\* An item that leaves the queue has been dealt with by a drain, which goes on
\* with the next, or is recalled if a drain still has to send it.
Released(i) ==
    \/ \E p \in Pages, d \in Loops :
         i.write = Current(p, d).write /\ loop[p][d].todo # {} /\ Advance(p, d)
    \/ i.write \in recalled'
    \/ \A p \in Pages, d \in Loops : \A k \in loop[p][d].todo : k.write # i.write

LEMMA EnqueueReleases ==
    ASSUME NEW p, NEW f, NEW view, NEW n, NEW action, NEW id,
           Enqueue(p, f, view, n, action, id), NEW i \in queue, Leaves(i)
    PROVE  Released(i)
  <1>1. ASSUME NEW o, i \in Superseded(action, o),
               recalled' = recalled \cup ToBeSent(Superseded(action, o))
        PROVE  Released(i)
    BY <1>1 DEF Released, ToBeSent
  <1>2. ASSUME NEW o, EnqueuePlain(p, f, view, n, action, o) PROVE Released(i)
    BY <1>1, <1>2 DEF EnqueuePlain, Leaves
  <1>3. ASSUME NEW o, PutAside(action, o) PROVE Released(i)
    BY <1>1, <1>3 DEF PutAside, Leaves
  <1>4. CASE UNCHANGED queue
    BY <1>4 DEF Leaves
  <1> QED
    BY <1>2, <1>3, <1>4 DEF Enqueue, BeginSealing, SealFails

LEMMA EveryRelease ==
    ASSUME QueueInv, [Next]_vars, NEW i \in queue, Leaves(i)
    PROVE  Released(i)
  <1>1. CASE queue \subseteq queue'
    BY <1>1 DEF Leaves
  <1>2. ASSUME NEW n, NEW status \in ItemStatus, queue' = Marked(n, status), Larger
        PROVE  Released(i)
    BY <1>2, MarkKeeps
  <1>3. Larger
    BY EveryStep DEF Stepped
  <1>4. ASSUME NEW p \in Pages, User(p) PROVE Released(i)
    <2>1. ASSUME NEW k \in queue, Discard(p, k) PROVE Released(i)
      <3>1. i.write = k.write
        BY <2>1 DEF Discard, Without, Leaves
      <3>2. i = k
        BY <3>1 DEF QueueInv, QueueKnown, Distinct
      <3> QED
        BY <2>1, <3>2 DEF Discard, Released, ToBeSent
    <2>2. ASSUME NEW f, NEW action, NEW id, WriteOffline(p, f, action, id) PROVE Released(i)
      BY <2>2, EnqueueReleases DEF WriteOffline
    <2>3. ASSUME NEW d, NEW k, Retry(p, d, k) PROVE Released(i)
      BY <1>2, <1>3, <2>3 DEF Retry, ItemStatus
    <2> QED
      BY <1>1, <1>4, <2>1, <2>2, <2>3 DEF User, Write, WriteOnline, Quote, Post
  <1>5. ASSUME NEW p \in Pages, NEW f \in Forms, FormStep(p, f) PROVE Released(i)
    <2>1. CASE FormInterrupted(p, f)
      BY <2>1, EnqueueReleases DEF FormInterrupted
    <2> QED
      BY <1>1, <1>5, <2>1 DEF FormStep, FormApplied, FormAnswered, FormRefused, Store
  <1>6. ASSUME NEW p \in Pages, NEW d \in Loops, DrainStep(p, d) PROVE Released(i)
    <2>1. CASE DropLocalDelete(p, d)
      BY <2>1 DEF DropLocalDelete, AtItem, Without, Leaves, Released
    <2>2. CASE Committed(p, d)
      <3>1. loop[p][d].todo # {}
        BY <2>2, SentKnown DEF Committed, AnswerDue
      <3> QED
        BY <2>2, <3>1 DEF Committed, Settled, Without, Leaves, Released
    <2>3. CASE Undecryptable(p, d) \/ AwaitCreate(p, d) \/ Send(p, d) \/ Refused(p, d)
               \/ Interrupted(p, d)
      <3>1. \E n : \E status \in ItemStatus : queue' = Marked(n, status)
        BY <2>3 DEF Undecryptable, AwaitCreate, Send, Refused, Interrupted, ItemStatus
      <3> QED
        BY <1>2, <1>3, <3>1
    <2> QED
      BY <1>1, <1>6, <2>1, <2>2, <2>3 DEF DrainStep, Local, Decided, Finish, Applied
  <1> QED
    BY <1>1, <1>4, <1>5, <1>6
       DEF Next, OpenPage, ClosePage, GoOffline, Reconnect, SessionExpires, SignInAgain, vars

\* What the drain has in hand is in the queue, or has been recalled.
Wanted ==
    \A p \in Pages, d \in Loops : \A i \in loop[p][d].todo :
        i.write \in recalled \/ \E j \in queue : j.write = i.write

LEMMA RecalledGrows == QueueInv /\ [Next]_vars => recalled \subseteq recalled'
  <1> SUFFICES ASSUME QueueInv, [Next]_vars PROVE recalled \subseteq recalled'
    OBVIOUS
  <1>1. ASSUME NEW p, NEW f, NEW view, NEW n, NEW action, NEW id,
               Enqueue(p, f, view, n, action, id)
        PROVE  recalled \subseteq recalled'
    BY <1>1 DEF Enqueue, EnqueuePlain, BeginSealing, SealFails, PutAside
  <1>2. ASSUME NEW p \in Pages, User(p) PROVE recalled \subseteq recalled'
    BY <1>1, <1>2 DEF User, Write, WriteOffline, WriteOnline, Quote, Post, Retry, Discard
  <1>3. ASSUME NEW p \in Pages, NEW f \in Forms, FormStep(p, f)
        PROVE  recalled \subseteq recalled'
    BY <1>1, <1>3 DEF FormStep, FormApplied, FormAnswered, FormRefused, FormInterrupted, Store
  <1>4. ASSUME NEW p \in Pages, NEW d \in Loops, DrainStep(p, d)
        PROVE  recalled \subseteq recalled'
    BY <1>4
       DEF DrainStep, Local, Decided, Undecryptable, AwaitCreate, DropLocalDelete, Send,
           Finish, Applied, Committed, Refused, Interrupted
  <1> QED
    BY <1>2, <1>3, <1>4
       DEF Next, OpenPage, ClosePage, GoOffline, Reconnect, SessionExpires, SignInAgain, vars

LEMMA WantedStep == OneDrain /\ QueueInv /\ Wanted /\ [Next]_vars => Wanted'
  <1> SUFFICES ASSUME OneDrain, QueueInv, Wanted, [Next]_vars, NEW p \in Pages, NEW d \in Loops,
                      NEW i \in loop'[p][d].todo
               PROVE  i.write \in recalled' \/ \E j \in queue' : j.write = i.write
    BY DEF Wanted
  <1>1. Stepped /\ recalled \subseteq recalled'
    BY EveryStep, RecalledGrows
  <1>2. CASE i \in queue' \/ i.write \in recalled
    BY <1>1, <1>2
  <1>3. CASE i \notin queue' /\ i.write \notin recalled
    <2>1. i \in loop[p][d].todo
      BY <1>1, <1>3 DEF Stepped, LoopMoved
    <2>2. PICK j \in queue : j.write = i.write
      BY <1>3, <2>1 DEF Wanted
    <2>3. CASE Leaves(j)
      <3>1. CASE j.write \in recalled'
        BY <2>2, <3>1
      <3>2. CASE j.write \notin recalled'
        <4>1. PICK q \in Pages, e \in Loops :
                j.write = Current(q, e).write /\ loop[q][e].todo # {} /\ Advance(q, e)
          BY <2>1, <2>2, <2>3, <3>2, EveryRelease DEF Released
        <4>2. q = p /\ e = d
          BY <4>1 DEF OneDrain
        <4>3. /\ loop'[p][d].todo = loop[p][d].todo \ {Current(p, d)}
          BY <1>1, <4>1, <4>2, LoopAdvanced DEF Stepped, QueueInv
        <4>4. Current(p, d) \in loop[p][d].todo /\ Distinct(loop[p][d].todo)
          BY <4>1, <4>2, CurrentKnown DEF QueueInv, LoopKnown, DrainKnown
        <4>5. i = Current(p, d)
          BY <2>1, <2>2, <4>1, <4>2, <4>4 DEF Distinct
        <4> QED
          BY <4>3, <4>5
      <3> QED
        BY <3>1, <3>2
    <2>4. CASE ~ Leaves(j)
      BY <2>2, <2>4 DEF Leaves
    <2> QED
      BY <2>3, <2>4
  <1> QED
    BY <1>2, <1>3

\* One page that drains one queue at a time sends what the user still wants, or
\* wanted when the drain began.
THEOREM WantedSafe == OneDrain => (Spec => OnlyWantedWritesApplied)
  <1> SUFFICES ASSUME OneDrain PROVE Spec => OnlyWantedWritesApplied
    OBVIOUS
  <1> DEFINE A == \A n \in 1..MaxWrites :
                    applied'[n] > applied[n] =>
                        \/ \E p \in Pages, f \in Forms :
                             form[p][f].phase = "posting" /\ form[p][f].write = n
                        \/ \E i \in queue : i.write = n
                        \/ n \in recalled
  <1>1. QueueInv /\ Wanted /\ [Next]_vars => [A]_vars
    <2> SUFFICES ASSUME QueueInv, Wanted, [Next]_vars, NEW n \in 1..MaxWrites,
                        applied'[n] > applied[n]
                 PROVE  \/ \E p \in Pages, f \in Forms :
                             form[p][f].phase = "posting" /\ form[p][f].write = n
                        \/ \E i \in queue : i.write = n
                        \/ n \in recalled
      OBVIOUS
    <2>1. applied'[n] # applied[n]
      BY DEF QueueInv, ServerKnown
    <2>2. CASE \E p \in Pages, f \in Forms : FormApplied(p, f) /\ form[p][f].write = n
      BY <2>2 DEF FormApplied
    <2>3. CASE \E p \in Pages, d \in Loops : Applied(p, d) /\ Current(p, d).write = n
      <3>1. PICK p \in Pages, d \in Loops : Applied(p, d) /\ Current(p, d).write = n
        BY <2>3
      <3>2. loop[p][d].todo # {}
        BY <3>1, SentKnown DEF Applied
      <3>3. Current(p, d) \in loop[p][d].todo
        BY <3>2, CurrentKnown
      <3> QED
        BY <3>1, <3>3 DEF Wanted
    <2> QED
      BY <2>1, <2>2, <2>3, AppliedBy
  <1>2. Init => Wanted
    BY DEF Init, NoDrain, Wanted
  <1>3. QueueInv /\ Wanted /\ [Next]_vars => Wanted'
    BY WantedStep
  <1> QED
    BY <1>1, <1>2, <1>3, QueueInvInit, QueueInvStep, PTL DEF Spec, OnlyWantedWritesApplied

-----------------------------------------------------------------------------
(* The id map of the one page.                                             *)

\* Write n, still at hand, creates this address.
AtHand(n, id) ==
    \/ \E i \in queue : i.write = n /\ i.action = "address.create" /\ i.id = id
    \/ \E p \in Pages, d \in Loops : \E i \in loop[p][d].todo :
         i.write = n /\ i.action = "address.create" /\ i.id = id
    \/ \E p \in Pages, f \in Forms :
         /\ form[p][f].write = n /\ form[p][f].action = "address.create"
         /\ form[p][f].id = id

\* An address still to be created has no row yet, and is created once.
Creating ==
    \A n, m \in 1..MaxWrites, id \in Addresses :
        AtHand(n, id) => stored[id] = 0 /\ (AtHand(m, id) => m = n)

\* What was sent creates what has no row yet.
NewId(p, d) ==
    \/ loop[p][d].phase = "waiting" /\ Creates(Current(p, d).action, loop[p][d].target)
    \/ loop[p][d].phase = "created"
    => /\ stored[Current(p, d).id] = 0
       /\ Current(p, d).action = "address.create" \/ Current(p, d).id \in Orders

\* The page's map is the stored one, and a drain is one of an open page.
MapInv ==
    /\ \A p \in Pages : page[p].open => page[p].map = stored
    /\ \A p \in Pages, d \in Loops : loop[p][d] # NoDrain => page[p].open
    /\ \A p \in Pages, d \in Loops : NewId(p, d)
    /\ Creating

LEMMA MapInvInit == Init => MapInv
  <1> SUFFICES ASSUME Init PROVE MapInv
    OBVIOUS
  <1>1. \A n \in 1..MaxWrites, id \in Addresses : ~ AtHand(n, id)
    BY DEF Init, NoDrain, NoForm, AtHand
  <1> QED
    BY <1>1 DEF Init, NoPage, NoDrain, MapInv, NewId, Creating

\* The user makes one write at a time.
LEMMA OneWrite == QueueInv /\ [Next]_vars => writes' \in {writes, writes + 1}
  <1> SUFFICES ASSUME QueueInv, [Next]_vars PROVE writes' \in {writes, writes + 1}
    OBVIOUS
  <1>1. ASSUME NEW p \in Pages, User(p) PROVE writes' \in {writes, writes + 1}
    BY <1>1 DEF User, Write, WriteOffline, WriteOnline, Quote, Retry, Discard
  <1>2. ASSUME NEW p \in Pages, NEW f \in Forms, FormStep(p, f) PROVE writes' = writes
    BY <1>2 DEF FormStep, FormApplied, FormAnswered, FormRefused, FormInterrupted, Store
  <1>3. ASSUME NEW p \in Pages, NEW d \in Loops, DrainStep(p, d) PROVE writes' = writes
    BY <1>3
       DEF DrainStep, Local, Decided, Undecryptable, AwaitCreate, DropLocalDelete, Send,
           Finish, Applied, Committed, Refused, Interrupted
  <1> QED
    BY <1>1, <1>2, <1>3
       DEF Next, OpenPage, ClosePage, GoOffline, Reconnect, SessionExpires, SignInAgain, vars

\* What is at hand after a step was so before, or is the one new write, of a
\* local id nothing knows.
LEMMA AtHandFrom ==
    ASSUME QueueInv, [Next]_vars, NEW n \in 1..MaxWrites, NEW id \in Addresses, AtHand(n, id)'
    PROVE  AtHand(n, id) \/ (n = writes + 1 /\ writes' = writes + 1 /\ Fresh(id))
  <1>1. Stepped /\ Sources
    BY EveryStep, EverySource
  <1>2. n # 0 /\ writes \in Nat
    BY BoundsAssumption DEF QueueInv, CountsKnown
  <1>3. ASSUME FromForm(n, "address.create", id) PROVE AtHand(n, id)
    BY <1>3 DEF FromForm, Makes, AtHand
  <1>4. ASSUME NEW j \in queue', j.write = n, j.action = "address.create", j.id = id
        PROVE  AtHand(n, id)
    <2>1. QueueSource(j)
      BY <1>1, <1>4 DEF Sources
    <2> QED
      BY <1>3, <1>4, <2>1 DEF QueueSource, SameWrite, AtHand
  <1>5. ASSUME NEW p \in Pages, NEW d \in Loops, NEW i \in loop'[p][d].todo,
               i.write = n, i.action = "address.create", i.id = id
        PROVE  AtHand(n, id)
    <2>1. i \in queue' \/ i \in loop[p][d].todo
      BY <1>1, <1>5 DEF Stepped, LoopMoved
    <2> QED
      BY <1>4, <1>5, <2>1 DEF AtHand
  <1>6. ASSUME NEW p \in Pages, NEW f \in Forms, form'[p][f].write = n,
               form'[p][f].action = "address.create", form'[p][f].id = id
        PROVE  AtHand(n, id) \/ (n > writes /\ Fresh(id))
    <2>1. FormSource(form'[p][f])
      BY <1>1, <1>6 DEF Sources
    <2> QED
      BY <1>2, <1>3, <1>6, <2>1 DEF FormSource, Makes, AtHand
  <1>7. ASSUME NEW p \in Pages, NEW f \in Forms, form'[p][f].write = n
        PROVE  n <= writes'
    BY <1>1, <1>7 DEF Stepped, QueueInv, FormKnown, FormOk
  <1>8. AtHand(n, id) \/ (n > writes /\ n <= writes' /\ Fresh(id))
    BY <1>4, <1>5, <1>6, <1>7 DEF AtHand
  <1> QED
    BY <1>2, <1>8, OneWrite

\* What is at hand has no fresh id.
LEMMA FreshNotAtHand ==
    ASSUME NEW n, NEW id, Fresh(id)
    PROVE  ~ AtHand(n, id)
BY DEF Fresh, AtHand

LEMMA AnswersOnce ==
    ASSUME OneDrain, QueueInv, MapInv, NEW p \in Pages, NEW d \in Loops, Committed(p, d)
    PROVE  /\ \A l \in Locals : stored[l] # 0 => stored'[l] = stored[l]
           /\ page'[p].open /\ page'[p].map = stored'
           /\ \A n \in 1..MaxWrites, id \in Addresses :
                AtHand(n, id)' => stored'[id] = stored[id]
  <1>1. [Next]_vars
    BY DEF Next, DrainStep
  <1>2. loop[p][d] # NoDrain /\ loop[p][d].todo # {}
    BY SentKnown DEF Committed, AnswerDue, NoDrain
  <1>3. page[p].map = stored /\ page[p].open
    BY <1>2 DEF MapInv
  <1>4. page'[p].open
    BY <1>3 DEF Committed, QueueInv, Mapped, Page
  <1>5. CASE loop[p][d].phase # "created"
    <2>1. stored' = stored /\ page'[p].map = page[p].map
      BY <1>5, AnswerMaps
    <2> QED
      BY <1>3, <1>4, <2>1
  <1>6. CASE loop[p][d].phase = "created"
    <2>1. PICK id : id = Current(p, d).id
      OBVIOUS
    <2>2. /\ stored' = page'[p].map
          /\ \A l \in Locals \ {id} : page'[p].map[l] = page[p].map[l]
      BY <1>6, <2>1, AnswerMaps
    <2>3. stored[id] = 0 /\ (Current(p, d).action = "address.create" \/ id \in Orders)
      BY <1>6, <2>1 DEF MapInv, NewId
    <2>4. ASSUME NEW n \in 1..MaxWrites, id \in Addresses, AtHand(n, id)' PROVE FALSE
      <3>1. UNCHANGED <<form, writes>> /\ queue' = Without(Current(p, d).write) /\ Advance(p, d)
        BY DEF Committed, Settled
      <3>2. AtHand(n, id)
        BY <1>1, <2>4, <3>1, AtHandFrom DEF QueueInv, CountsKnown
      <3>3. Current(p, d) \in loop[p][d].todo /\ Current(p, d).write \in 1..MaxWrites
        BY <1>2, CurrentKnown DEF Item
      <3>4. Current(p, d).action = "address.create"
        BY <2>3, <2>4, LocalIdsAssumption
      <3>5. AtHand(Current(p, d).write, id)
        BY <2>1, <3>3, <3>4 DEF AtHand
      <3>6. n = Current(p, d).write
        BY <2>4, <3>2, <3>3, <3>5 DEF MapInv, Creating
      <3>7. /\ loop'[p][d].todo = loop[p][d].todo \ {Current(p, d)}
            /\ Distinct(loop[p][d].todo)
        BY <1>1, <1>2, <3>1, EveryStep, LoopAdvanced
           DEF Stepped, QueueInv, LoopKnown, DrainKnown
      <3>8. \A q \in Pages, e \in Loops : \A i \in loop'[q][e].todo : i.write # n
        BY <3>3, <3>6, <3>7 DEF OneDrain, Distinct
      <3>9. \A q \in Pages, f \in Forms : form'[q][f].write # n
        BY <2>4, <3>1, <3>3, <3>6 DEF QueueInv, FormKnown, FormsApart
      <3>10. \A i \in queue' : i.write # n
        BY <3>1, <3>6 DEF Without
      <3> QED
        BY <2>4, <3>8, <3>9, <3>10 DEF AtHand
    <2>5. \A n \in 1..MaxWrites, a \in Addresses : AtHand(n, a)' => stored'[a] = stored[a]
      BY <1>3, <2>2, <2>4 DEF Locals
    <2> QED
      BY <1>3, <1>4, <2>2, <2>3, <2>5
  <1> QED
    BY <1>5, <1>6

LEMMA NewIdStep ==
    ASSUME QueueInv, MapInv, [Next]_vars, NEW p \in Pages, NEW d \in Loops,
           \/ loop'[p][d].phase = "waiting"
              /\ Creates(Current(p, d).action, loop[p][d].target)'
           \/ loop'[p][d].phase = "created"
    PROVE  /\ stored[Current(p, d)'.id] = 0
           /\ Current(p, d)'.action = "address.create" \/ Current(p, d)'.id \in Orders
           /\ stored' = stored \/ \E q \in Pages, e \in Loops : Committed(q, e)
  <1>0. stored' = stored \/ \E q \in Pages, e \in Loops : Committed(q, e)
    BY OnlyAnswersMap DEF PagesSame
  <1>1. loop \in [Pages -> [Loops -> Drain]]
    BY DEF QueueInv, LoopKnown
  <1>2. CASE loop'[p][d] = loop[p][d]
    <2>1. Current(p, d)' = Current(p, d)
      BY <1>2 DEF Current
    <2>2. Creates(Current(p, d).action, loop[p][d].target)'
             => Creates(Current(p, d).action, loop[p][d].target)
      BY <1>2, <2>1 DEF Creates
    <2> QED
      BY <1>0, <1>2, <2>1, <2>2 DEF MapInv, NewId
  <1>3. CASE Applied(p, d)
    <2>1. loop[p][d].phase = "waiting"
      BY <1>3 DEF Applied
    <2>2. PICK next : /\ loop' = [loop EXCEPT ![p][d] = next]
                      /\ next = IF Creates(Current(p, d).action, loop[p][d].target)
                                THEN [loop[p][d] EXCEPT !.phase = "created",
                                                        !.target = Len(rows')]
                                ELSE [loop[p][d] EXCEPT !.phase = "applied"]
      BY <1>3 DEF Applied
    <2>3. loop'[p][d] = next /\ loop[p][d] \in Drain
      BY <1>1, <2>2
    <2>4. next.phase # "waiting" /\ next.todo = loop[p][d].todo
          /\ (~ Creates(Current(p, d).action, loop[p][d].target) => next.phase = "applied")
      <3>1. CASE Creates(Current(p, d).action, loop[p][d].target)
        BY <2>2, <2>3, <3>1 DEF Drain
      <3>2. CASE ~ Creates(Current(p, d).action, loop[p][d].target)
        BY <2>2, <2>3, <3>2 DEF Drain
      <3> QED
        BY <3>1, <3>2
    <2>5. Creates(Current(p, d).action, loop[p][d].target) /\ Current(p, d)' = Current(p, d)
      BY <2>3, <2>4 DEF Current
    <2> QED
      BY <1>0, <2>1, <2>5 DEF MapInv, NewId
  <1>4. CASE Send(p, d)
    <2>1. PICK target, i : target = Target(p, d) /\ i = Current(p, d)
      OBVIOUS
    <2>2. loop[p][d].phase = "running" /\ loop[p][d].todo # {}
          /\ loop' = [loop EXCEPT ![p][d].phase = "waiting", ![p][d].target = target]
      BY <1>4, <2>1 DEF Send, AtItem
    <2>3. /\ loop'[p][d].todo = loop[p][d].todo /\ loop'[p][d].target = target
          /\ loop'[p][d].phase = "waiting"
      BY <1>1, <2>2 DEF Drain
    <2>4. Current(p, d)' = i
      BY <2>1, <2>3 DEF Current
    <2>5. Creates(i.action, target)
      BY <2>3, <2>4 DEF Creates
    <2>6. /\ i \in loop[p][d].todo /\ i.write \in 1..MaxWrites
          /\ i.id \in Locals \cup 1..Len(rows)
          /\ i.action = "address.create" => i.id \in Addresses
      BY <2>1, <2>2, CurrentKnown DEF Item, Known
    <2>7. CASE i.action = "address.create"
      <3>1. AtHand(i.write, i.id)
        BY <2>6, <2>7 DEF AtHand
      <3> QED
        BY <1>0, <2>4, <2>6, <2>7, <3>1 DEF MapInv, Creating
    <2>8. CASE i.action # "address.create"
      <3>1. target \in Orders /\ target = Resolve(page[p].map, i.id)
        BY <2>1, <2>5, <2>8 DEF Creates, Target
      <3>2. page[p].map = stored
        BY <2>2 DEF MapInv, NoDrain
      <3>3. target \notin Nat /\ stored \in IdMap
        BY <3>1, LocalIdsAssumption DEF QueueInv, Mapped, MapKnown
      <3>4. ~ (i.id \in Locals /\ stored[i.id] # 0)
        BY <3>1, <3>2, <3>3, BoundsAssumption DEF Resolve, IdMap
      <3>5. target = i.id
        BY <3>1, <3>2, <3>4 DEF Resolve
      <3> QED
        BY <1>0, <2>4, <3>1, <3>4, <3>5 DEF Locals
    <2> QED
      BY <2>7, <2>8
  <1> QED
    BY <1>2, <1>3, <1>4, DrainsMove DEF DrainSame, NoDrain

LEMMA MapInvStep == OneDrain /\ QueueInv /\ MapInv /\ [Next]_vars => MapInv'
  <1> SUFFICES ASSUME OneDrain, QueueInv, MapInv, [Next]_vars PROVE MapInv'
    OBVIOUS
  <1>1. PagesSame \/ \E p \in Pages, d \in Loops : Committed(p, d)
    BY OnlyAnswersMap
  <1>2. ASSUME NEW p \in Pages PROVE page'[p].open => page'[p].map = stored'
    <2>1. CASE PagesSame
      BY <1>2, <2>1 DEF PagesSame, PageSame, MapInv, NoPage
    <2>2. CASE \E q \in Pages, d \in Loops : Committed(q, d)
      BY <1>2, <2>2, AnswersOnce DEF OneDrain
    <2> QED
      BY <1>1, <2>1, <2>2
  <1>3. ASSUME NEW p \in Pages, NEW d \in Loops, loop'[p][d] # NoDrain PROVE page'[p].open
    <2>1. CASE \E q \in Pages, e \in Loops : Committed(q, e)
      BY <1>3, <2>1, AnswersOnce DEF OneDrain
    <2>2. CASE PagesSame
      <3>1. CASE page'[p].open
        BY <3>1
      <3>2. CASE ~ page'[p].open
        <4>1. ~ page[p].open
          BY <1>3, <2>2, <3>2 DEF PagesSame, PageSame
        <4>2. loop[p][d] = NoDrain
          BY <4>1 DEF MapInv
        <4>3. ~ Send(p, d) /\ ~ Applied(p, d)
          BY <4>2 DEF Send, AtItem, Applied, NoDrain
        <4> QED
          BY <1>3, <3>2, <4>2, <4>3, DrainsMove DEF DrainSame
      <3> QED
        BY <3>1, <3>2
    <2> QED
      BY <1>1, <2>1, <2>2
  <1>4. ASSUME NEW n \in 1..MaxWrites, NEW id \in Addresses, AtHand(n, id)'
        PROVE  stored'[id] = 0
    <2>1. stored[id] = 0
      BY <1>4, AtHandFrom DEF MapInv, Creating, Fresh
    <2> QED
      BY <1>1, <1>4, <2>1, AnswersOnce DEF PagesSame
  <1>5. Creating'
    <2> SUFFICES ASSUME NEW n \in 1..MaxWrites, NEW m \in 1..MaxWrites, NEW id \in Addresses,
                        AtHand(n, id)', AtHand(m, id)'
                 PROVE  m = n
      BY <1>4 DEF Creating
    <2>1. AtHand(n, id) \/ (n = writes + 1 /\ Fresh(id))
      BY AtHandFrom
    <2>2. AtHand(m, id) \/ (m = writes + 1 /\ Fresh(id))
      BY AtHandFrom
    <2> QED
      BY <2>1, <2>2, FreshNotAtHand DEF MapInv, Creating
  <1>6. ASSUME NEW p \in Pages, NEW d \in Loops PROVE NewId(p, d)'
    <2> SUFFICES ASSUME \/ loop'[p][d].phase = "waiting"
                           /\ Creates(Current(p, d).action, loop[p][d].target)'
                        \/ loop'[p][d].phase = "created"
                 PROVE  /\ stored'[Current(p, d)'.id] = 0
                        /\ Current(p, d)'.action = "address.create" \/ Current(p, d)'.id \in Orders
      BY DEF NewId
    <2>1. /\ stored[Current(p, d)'.id] = 0
          /\ Current(p, d)'.action = "address.create" \/ Current(p, d)'.id \in Orders
          /\ stored' = stored \/ \E q \in Pages, e \in Loops : Committed(q, e)
      BY <1>6, NewIdStep
    <2>2. ~ \E q \in Pages, e \in Loops : Committed(q, e)
      <3> SUFFICES ASSUME NEW q \in Pages, NEW e \in Loops, Committed(q, e) PROVE FALSE
        OBVIOUS
      <3>1. q = p /\ e = d
        BY DEF OneDrain
      <3>2. loop[p][d].todo # {} /\ Advance(p, d)
        BY <3>1, SentKnown DEF Committed, AnswerDue
      <3>3. loop'[p][d].phase = "running"
        BY <3>2, EveryStep, LoopAdvanced DEF Stepped, QueueInv
      <3> QED
        BY <3>3
    <2> QED
      BY <2>1, <2>2
  <1> QED
    BY <1>2, <1>3, <1>5, <1>6 DEF MapInv

\* One page that drains one queue at a time never forgets the row a local id has
\* become: each write of the map is of all that was stored, and one row more.
THEOREM MappingSafe == OneDrain => (Spec => MappingKept)
  <1> SUFFICES ASSUME OneDrain PROVE Spec => MappingKept
    OBVIOUS
  <1> DEFINE A == \A l \in Locals : stored[l] # 0 => stored'[l] = stored[l]
  <1>1. QueueInv /\ MapInv /\ [Next]_vars => [A]_vars
    BY OnlyAnswersMap, AnswersOnce DEF PagesSame
  <1>2. QueueInv /\ MapInv /\ [Next]_vars => MapInv'
    BY MapInvStep
  <1> QED
    BY <1>1, <1>2, QueueInvInit, QueueInvStep, MapInvInit, PTL DEF Spec, MappingKept

-----------------------------------------------------------------------------
(* Applied once, if every answer arrives.                                  *)

\* The one drain has still to hear that this write was applied.
Owed(n) == \E p \in Pages, d \in Loops : AnswerDue(p, d) /\ Current(p, d).write = n

Waits(n) ==
    \/ \E i \in queue : i.write = n
    \/ \E p \in Pages, d \in Loops : \E i \in loop[p][d].todo : i.write = n

\* This write may still be sent.
InPlay(n) ==
    \/ Waits(n) /\ ~ Owed(n)
    \/ \E p \in Pages, f \in Forms : form[p][f].write = n /\ form[p][f].phase # "applied"

\* What the server has applied is not sent again.
Once ==
    \A n \in 1..MaxWrites :
        applied[n] <= 1 /\ (applied[n] > 0 => n <= writes /\ ~ InPlay(n))

\* What is being sent is no conflict.
Unconflicted ==
    \A p \in Pages, d \in Loops : loop[p][d].phase \in {"waiting", "applied", "created"} =>
        \A j \in queue : j.write = Current(p, d).write => j.status # "conflict"

LEMMA AnswersArrive ==
    ASSUME OneDrain, "lost" \notin Faults, QueueInv, [Next]_vars,
           NEW p \in Pages, NEW d \in Loops, AnswerDue(p, d)
    PROVE  loop'[p][d] = loop[p][d] \/ Committed(p, d)
  <1>1. loop \in [Pages -> [Loops -> Drain]] /\ loop[p][d] # NoDrain
    BY DEF QueueInv, LoopKnown, AnswerDue, NoDrain
  <1>2. \A q \in Pages, e \in Loops : q = p /\ e = d
    BY DEF OneDrain
  <1>3. ASSUME NEW q \in Pages, User(q) PROVE UNCHANGED loop
    BY <1>1, <1>2, <1>3
       DEF User, Write, WriteOffline, WriteOnline, Quote, Post, Retry, Discard
  <1>4. ASSUME NEW q \in Pages, NEW f \in Forms, FormStep(q, f) PROVE UNCHANGED loop
    BY <1>4 DEF FormStep, FormApplied, FormAnswered, FormRefused, FormInterrupted, Store
  <1>5. ASSUME NEW q \in Pages, NEW e \in Loops, DrainStep(q, e) PROVE Committed(p, d)
    <2>1. q = p /\ e = d
      BY <1>2
    <2> QED
      BY <1>5, <2>1
         DEF AnswerDue, DrainStep, Local, Decided, Undecryptable, AwaitCreate,
             DropLocalDelete, Send, AtItem, Finish, Applied, Refused, Interrupted
  <1>6. ASSUME NEW q \in Pages, OpenPage(q) \/ ClosePage(q) PROVE FALSE
    BY <1>1, <1>2, <1>6 DEF OpenPage, ClosePage
  <1>7. CASE Reconnect
    <2> DEFINE listening == {q \in Pages : page[q].open /\ ~Loading(q)}
    <2>1. PICK free \in [listening -> Loops] :
            /\ \A q \in listening : loop[q][free[q]] = NoDrain
            /\ loop' = [q \in Pages |->
                          IF q \in listening
                          THEN [loop[q] EXCEPT ![free[q]] = DrainOf(queue, FALSE)]
                          ELSE loop[q]]
      BY <1>7 DEF Reconnect
    <2> HIDE DEF listening
    <2>2. p \notin listening
      BY <1>1, <1>2, <2>1
    <2> QED
      BY <2>1, <2>2
  <1> QED
    BY <1>3, <1>4, <1>5, <1>6, <1>7 DEF Next, GoOffline, SessionExpires, SignInAgain, vars

LEMMA EnqueueNoConflict ==
    ASSUME NEW p, NEW f, NEW view, NEW n, NEW action, NEW id,
           Enqueue(p, f, view, n, action, id), NEW j \in queue', j.status = "conflict"
    PROVE  j \in queue
  <1>1. \A o, no, items : NewItem(n, action, o, no, items).status = "local_queued"
    BY DEF NewItem
  <1>2. ASSUME NEW o, EnqueuePlain(p, f, view, n, action, o) PROVE j \in queue
    BY <1>1, <1>2 DEF EnqueuePlain
  <1> QED
    BY <1>2 DEF Enqueue, BeginSealing, SealFails, PutAside

\* Only a refusal makes a conflict.
LEMMA ConflictFrom ==
    ASSUME QueueInv, [Next]_vars, NEW j \in queue', j.status = "conflict"
    PROVE  \/ \E i \in queue : i.write = j.write /\ i.status = "conflict"
           \/ \E p \in Pages, d \in Loops : Refused(p, d) /\ j.write = Current(p, d).write
  <1>1. CASE queue' \subseteq queue
    BY <1>1
  <1>2. Larger
    BY EveryStep DEF Stepped
  <1>3. ASSUME NEW n, NEW status \in ItemStatus \ {"conflict"}, queue' = Marked(n, status)
        PROVE  \E i \in queue : i.write = j.write /\ i.status = "conflict"
    <2>1. PICK i \in queue :
            j.write = i.write /\ IF i.write = n THEN j.status = status ELSE j = i
      BY <1>2, <1>3, QueueMarked
    <2> QED
      BY <1>3, <2>1
  <1>4. ASSUME NEW p \in Pages, User(p)
        PROVE  \E i \in queue : i.write = j.write /\ i.status = "conflict"
    <2>1. ASSUME NEW d, NEW i, Retry(p, d, i)
          PROVE  \E k \in queue : k.write = j.write /\ k.status = "conflict"
      BY <1>3, <2>1 DEF Retry, ItemStatus
    <2>2. ASSUME NEW f, NEW action, NEW id, WriteOffline(p, f, action, id) PROVE j \in queue
      BY <2>2, EnqueueNoConflict DEF WriteOffline
    <2>3. ASSUME NEW i, Discard(p, i) PROVE j \in queue
      BY <2>3 DEF Discard, Without
    <2> QED
      BY <1>1, <1>4, <2>1, <2>2, <2>3 DEF User, Write, WriteOnline, Quote, Post
  <1>5. ASSUME NEW p \in Pages, NEW f \in Forms, FormStep(p, f) PROVE j \in queue
    <2>1. CASE FormInterrupted(p, f)
      BY <2>1, EnqueueNoConflict DEF FormInterrupted
    <2>2. CASE Store(p, f)
      BY <2>2 DEF Store, NewItem
    <2> QED
      BY <1>5, <2>1, <2>2 DEF FormStep, FormApplied, FormAnswered, FormRefused
  <1>6. ASSUME NEW p \in Pages, NEW d \in Loops, DrainStep(p, d)
        PROVE  \/ \E i \in queue : i.write = j.write /\ i.status = "conflict"
               \/ Refused(p, d) /\ j.write = Current(p, d).write
    <2>1. CASE Undecryptable(p, d) \/ AwaitCreate(p, d) \/ Send(p, d) \/ Interrupted(p, d)
      <3>1. \E n : \E status \in ItemStatus \ {"conflict"} : queue' = Marked(n, status)
        BY <2>1 DEF Undecryptable, AwaitCreate, Send, Interrupted, ItemStatus
      <3> QED
        BY <1>3, <3>1
    <2>2. CASE DropLocalDelete(p, d) \/ Committed(p, d) \/ Finish(p, d) \/ Applied(p, d)
      BY <1>1, <2>2 DEF DropLocalDelete, Committed, Settled, Without, Finish, Applied
    <2>3. CASE Refused(p, d)
      <3>1. queue' = Marked(Current(p, d).write, "conflict")
        BY <2>3 DEF Refused
      <3>2. PICK i \in queue :
              j.write = i.write
              /\ IF i.write = Current(p, d).write THEN j.status = "conflict" ELSE j = i
        BY <1>2, <3>1, QueueMarked DEF ItemStatus
      <3> QED
        BY <2>3, <3>2
    <2> QED
      BY <1>6, <2>1, <2>2, <2>3 DEF DrainStep, Local, Decided
  <1> QED
    BY <1>1, <1>4, <1>5, <1>6
       DEF Next, OpenPage, ClosePage, GoOffline, Reconnect, SessionExpires, SignInAgain, vars

\* The drain goes on with what was applied.
LEMMA AppliedDrain ==
    ASSUME QueueInv, NEW p \in Pages, NEW d \in Loops, Applied(p, d)
    PROVE  /\ Current(p, d)' = Current(p, d) /\ loop'[p][d].todo = loop[p][d].todo
           /\ AnswerDue(p, d)'
  <1>1. PICK next : /\ loop' = [loop EXCEPT ![p][d] = next]
                    /\ next = IF Creates(Current(p, d).action, loop[p][d].target)
                              THEN [loop[p][d] EXCEPT !.phase = "created",
                                                      !.target = Len(rows')]
                              ELSE [loop[p][d] EXCEPT !.phase = "applied"]
    BY DEF Applied
  <1>2. loop'[p][d] = next /\ loop[p][d] \in Drain
    BY <1>1 DEF QueueInv, LoopKnown
  <1>3. next.todo = loop[p][d].todo /\ next.phase \in {"applied", "created"}
    <2>1. CASE Creates(Current(p, d).action, loop[p][d].target)
      BY <1>1, <1>2, <2>1 DEF Drain
    <2>2. CASE ~ Creates(Current(p, d).action, loop[p][d].target)
      BY <1>1, <1>2, <2>2 DEF Drain
    <2> QED
      BY <2>1, <2>2
  <1> QED
    BY <1>2, <1>3 DEF Current, AnswerDue

\* A busy drain of after the step: it was busy with that, or has just sent it.
LEMMA UnconflictedStep ==
    OneDrain /\ QueueInv /\ Unconflicted /\ [Next]_vars => Unconflicted'
  <1> SUFFICES ASSUME OneDrain, QueueInv, Unconflicted, [Next]_vars,
                      NEW p \in Pages, NEW d \in Loops,
                      loop'[p][d].phase \in {"waiting", "applied", "created"},
                      NEW j \in queue', j.write = Current(p, d)'.write, j.status = "conflict"
               PROVE  FALSE
    BY DEF Unconflicted
  <1>1. loop \in [Pages -> [Loops -> Drain]] /\ Stepped
    BY EveryStep DEF QueueInv, LoopKnown
  <1>2. CASE loop'[p][d] = loop[p][d]
    <2>1. Current(p, d)' = Current(p, d)
      BY <1>2 DEF Current
    <2>2. ~ \E i \in queue : i.write = j.write /\ i.status = "conflict"
      BY <1>2, <2>1 DEF Unconflicted
    <2>3. PICK q \in Pages, e \in Loops : Refused(q, e)
      BY <2>2, ConflictFrom
    <2>4. Advance(p, d) /\ loop[p][d].todo # {}
      BY <2>3, SentKnown DEF OneDrain, Refused
    <2>5. loop'[p][d].phase = "running"
      BY <1>1, <2>4, LoopAdvanced DEF Stepped, QueueInv
    <2> QED
      BY <2>5
  <1>3. CASE Send(p, d)
    <2>1. queue' = Marked(Current(p, d).write, "syncing")
          /\ loop' = [loop EXCEPT ![p][d].phase = "waiting", ![p][d].target = Target(p, d)]
      BY <1>3 DEF Send
    <2>2. loop'[p][d].todo = loop[p][d].todo
      BY <1>1, <2>1 DEF Drain
    <2>3. j.write = Current(p, d).write
      BY <2>2 DEF Current
    <2>4. PICK i \in queue :
            j.write = i.write
            /\ IF i.write = Current(p, d).write THEN j.status = "syncing" ELSE j = i
      BY <1>1, <2>1, QueueMarked DEF Stepped, ItemStatus
    <2> QED
      BY <2>3, <2>4
  <1>4. CASE Applied(p, d)
    <2>1. queue' = queue /\ loop[p][d].phase = "waiting"
      BY <1>4 DEF Applied
    <2>2. Current(p, d)' = Current(p, d)
      BY <1>1, <1>4, AppliedDrain
    <2> QED
      BY <2>1, <2>2 DEF Unconflicted
  <1> QED
    BY <1>2, <1>3, <1>4, DrainsMove DEF DrainSame, NoDrain

\* What may be sent after a step might have been before, or is a new write.
LEMMA InPlayFrom ==
    ASSUME OneDrain, "lost" \notin Faults, QueueInv, [Next]_vars, NEW n \in 1..MaxWrites,
           n <= writes, InPlay(n)'
    PROVE  InPlay(n)
  <1>0. n # 0 /\ ~ (n > writes)
    BY BoundsAssumption DEF QueueInv, CountsKnown
  <1>1. Stepped /\ Sources
    BY EveryStep, EverySource
  <1>2. ASSUME NEW action, NEW id, FromForm(n, action, id) PROVE InPlay(n)
    BY <1>2 DEF FromForm, Pending, InPlay
  <1>3. ASSUME NEW p \in Pages, NEW f \in Forms, form'[p][f].write = n,
               form'[p][f].phase # "applied"
        PROVE  InPlay(n)
    <2>1. FormSource(form'[p][f])
      BY <1>1, <1>3 DEF Sources
    <2> QED
      BY <1>0, <1>2, <1>3, <2>1 DEF FormSource, InPlay
  <1>4. CASE Waits(n)' /\ ~ Owed(n)'
    <2>1. Waits(n) \/ InPlay(n)
      <3>1. ASSUME NEW j \in queue', j.write = n PROVE Waits(n) \/ InPlay(n)
        <4>1. QueueSource(j)
          BY <1>1, <3>1 DEF Sources
        <4> QED
          BY <1>0, <1>2, <3>1, <4>1 DEF QueueSource, Waits
      <3>2. ASSUME NEW p \in Pages, NEW d \in Loops, NEW i \in loop'[p][d].todo, i.write = n
            PROVE  Waits(n) \/ InPlay(n)
        <4>1. i \in queue' \/ i \in loop[p][d].todo
          BY <1>1, <3>2 DEF Stepped, LoopMoved
        <4> QED
          BY <3>1, <3>2, <4>1 DEF Waits
      <3> QED
        BY <1>4, <3>1, <3>2 DEF Waits
    <2>2. ~ Owed(n)
      <3> SUFFICES ASSUME NEW p \in Pages, NEW d \in Loops, AnswerDue(p, d),
                          Current(p, d).write = n
                   PROVE  FALSE
        BY DEF Owed
      <3>1. CASE loop'[p][d] = loop[p][d]
        <4>1. AnswerDue(p, d)' /\ Current(p, d)' = Current(p, d)
          BY <3>1 DEF AnswerDue, Current
        <4> QED
          BY <1>4, <4>1 DEF Owed
      <3>2. CASE Committed(p, d)
        <4>1. queue' = Without(n) /\ Advance(p, d) /\ loop[p][d].todo # {}
          BY <3>2, SentKnown DEF Committed, Settled, AnswerDue
        <4>2. /\ loop'[p][d].todo = loop[p][d].todo \ {Current(p, d)}
              /\ Distinct(loop[p][d].todo) /\ Current(p, d) \in loop[p][d].todo
          BY <1>1, <4>1, LoopAdvanced, CurrentKnown
             DEF Stepped, QueueInv, LoopKnown, DrainKnown
        <4>3. \A q \in Pages, e \in Loops : \A i \in loop'[q][e].todo : i.write # n
          BY <4>2 DEF OneDrain, Distinct
        <4> QED
          BY <1>4, <4>1, <4>3 DEF Waits, Without
      <3> QED
        BY <3>1, <3>2, AnswersArrive
    <2> QED
      BY <2>1, <2>2 DEF InPlay
  <1> QED
    BY <1>3, <1>4 DEF InPlay

\* What has just been applied was to be sent, and is not any more.
LEMMA AppliedLeavesPlay ==
    ASSUME OneDrain, QueueInv, [Next]_vars, NEW n \in 1..MaxWrites, applied'[n] # applied[n]
    PROVE  InPlay(n) /\ ~ InPlay(n)' /\ n <= writes'
  <1>1. Stepped /\ n # 0
    BY EveryStep, BoundsAssumption
  <1>2. ASSUME NEW p \in Pages, NEW d \in Loops, Applied(p, d), Current(p, d).write = n
        PROVE  InPlay(n) /\ ~ InPlay(n)' /\ n <= writes'
    <2>1. loop[p][d].phase = "waiting" /\ loop[p][d].todo # {} /\ UNCHANGED writes
      BY <1>2, SentKnown DEF Applied
    <2>2. /\ Current(p, d)' = Current(p, d) /\ AnswerDue(p, d)'
          /\ loop'[p][d].todo = loop[p][d].todo
      BY <1>2, AppliedDrain
    <2>3. Current(p, d) \in loop[p][d].todo /\ Known(Current(p, d))
      BY <2>1, CurrentKnown
    <2>4. \A q \in Pages, f \in Forms : form'[q][f].write # n
      BY <1>1, <1>2, <2>2, <2>3 DEF Stepped, QueueInv, FormKnown, FormsApart
    <2>5. Owed(n)'
      BY <1>2, <2>2 DEF Owed
    <2>6. ~ Owed(n)
      BY <2>1 DEF OneDrain, Owed, AnswerDue
    <2>7. Waits(n)
      BY <1>2, <2>3 DEF Waits
    <2> QED
      BY <1>2, <2>1, <2>3, <2>4, <2>5, <2>6, <2>7 DEF InPlay, Known
  <1>3. ASSUME NEW p \in Pages, NEW f \in Forms, FormApplied(p, f), form[p][f].write = n
        PROVE  InPlay(n) /\ ~ InPlay(n)' /\ n <= writes'
    <2>1. /\ form[p][f].phase = "posting" /\ UNCHANGED writes
          /\ form' = [form EXCEPT ![p][f].phase = "applied"]
      BY <1>3 DEF FormApplied
    <2>2. form'[p][f].write = n /\ form'[p][f].phase = "applied"
      BY <1>3, <2>1 DEF QueueInv, FormKnown, Form
    <2>3. /\ \A i \in queue' : i.write # n
          /\ \A q \in Pages, d \in Loops : \A i \in loop'[q][d].todo : i.write # n
          /\ \A q \in Pages, g \in Forms : form'[q][g].write = n => q = p /\ g = f
      BY <1>1, <2>2 DEF Stepped, QueueInv, FormKnown, FormsApart
    <2>4. n <= writes
      BY <1>3 DEF QueueInv, FormKnown, FormOk
    <2> QED
      BY <1>3, <2>1, <2>2, <2>3, <2>4 DEF InPlay, Waits
  <1> QED
    BY <1>2, <1>3, AppliedBy

LEMMA OnceStep ==
    ASSUME OneDrain, "lost" \notin Faults, QueueInv, Once, [Next]_vars
    PROVE  Once'
  <1> SUFFICES ASSUME NEW n \in 1..MaxWrites
               PROVE  applied'[n] <= 1 /\ (applied'[n] > 0 => n <= writes' /\ ~ InPlay(n)')
    BY DEF Once
  <1>1. applied[n] \in Nat /\ writes \in Nat /\ writes' \in {writes, writes + 1} /\ n \in Nat
    BY OneWrite DEF QueueInv, ServerKnown, CountsKnown
  <1>2. CASE applied'[n] = applied[n]
    BY <1>1, <1>2, InPlayFrom DEF Once
  <1>3. CASE applied'[n] # applied[n]
    <2>1. InPlay(n) /\ ~ InPlay(n)' /\ n <= writes' /\ applied'[n] = applied[n] + 1
      BY <1>3, AppliedLeavesPlay, AppliedBy
    <2>2. applied[n] = 0
      BY <1>1, <2>1 DEF Once
    <2> QED
      BY <2>1, <2>2
  <1> QED
    BY <1>2, <1>3

\* One page that drains one queue at a time, if every answer arrives: no write is
\* applied twice, and none whose conflict the user is shown has been applied.
THEOREM OnceSafe == OneDrain /\ "lost" \notin Faults => (Spec => []AppliedOnceOrRefused)
  <1> SUFFICES ASSUME OneDrain, "lost" \notin Faults PROVE Spec => []AppliedOnceOrRefused
    OBVIOUS
  <1>1. Init => Once /\ Unconflicted
    BY DEF Init, NoDrain, NoForm, Once, Unconflicted
  <1>2. QueueInv /\ Once /\ [Next]_vars => Once'
    BY OnceStep
  <1>3. QueueInv /\ Unconflicted /\ [Next]_vars => Unconflicted'
    BY UnconflictedStep
  <1>4. QueueInv /\ Once /\ Unconflicted => AppliedOnceOrRefused
    <2> SUFFICES ASSUME QueueInv, Once, Unconflicted PROVE AppliedOnceOrRefused
      OBVIOUS
    <2>1. ASSUME NEW i \in queue, i.status = "conflict" PROVE applied[i.write] = 0
      <3>1. i.write \in 1..MaxWrites /\ Waits(i.write)
        BY DEF QueueInv, QueueKnown, Item, Waits
      <3>2. ~ Owed(i.write)
        BY <2>1 DEF Owed, AnswerDue, Unconflicted
      <3>3. ~ (applied[i.write] > 0) /\ applied[i.write] \in Nat
        BY <3>1, <3>2 DEF Once, InPlay, QueueInv, ServerKnown
      <3> QED
        BY <3>3
    <2> QED
      BY <2>1 DEF Once, AppliedOnceOrRefused, AppliedAtMostOnce, ConflictMeansRefused
  <1> QED
    BY <1>1, <1>2, <1>3, <1>4, QueueInvInit, QueueInvStep, PTL DEF Spec

=============================================================================
