---------------------------- MODULE OfflineQueue ----------------------------
(***************************************************************************)
(* The write queue of the web client (web/src/offline/writeQueue.ts) and   *)
(* the ordering page that fills and drains it (web/src/views/              *)
(* OrderingView.vue), against the server they write to.                    *)
(*                                                                         *)
(* The queue lives in the browser's local storage and survives a page.  A  *)
(* page here is one instance of that view: a tab, or an instance left by   *)
(* navigation, which goes on draining.                                     *)
(* Entities the server has not created yet go by a local id; the page maps *)
(* local ids to server ids as their creates are committed, and saves that  *)
(* map too.  A drain takes a snapshot of the queue and sends its items one *)
(* after the other; nothing keeps two drains, of one page or of two, from  *)
(* running at once, or a drain and the handler of a form.  JavaScript runs *)
(* to the next await without interruption, so a step here is what happens  *)
(* between two awaits, and a page can be closed at each of them.  What the *)
(* server does about a request is a step of its own, before its answer.    *)
(*                                                                         *)
(* One user in one context.  Left out: contexts and their switch, sign-out *)
(* (which clears everything of the user), cached menus, and what the       *)
(* writes contain: a write is the number under which it was made, so the   *)
(* content of a row is the number of the write that set it.                *)
(*                                                                         *)
(* An operator whose comment starts with "Faulty variant" is a bug put in  *)
(* on purpose, to see that a property notices it; Spec never uses it.      *)
(***************************************************************************)
EXTENDS Integers, Sequences, FiniteSets

CONSTANTS
    Orders, Addresses,     \* the local ids pages can make up
    Pages,                 \* open ordering pages (tabs)
    Loops,                 \* bound: how many drains of one page overlap
    Forms,                 \* bound: how many form handlers of one page overlap
    MaxWrites,             \* bound: writes the user makes
    MaxRows,               \* bound: rows the server creates
    MaxKeys,               \* bound: sessions of the user, each with its own key
    Faults                 \* what may happen to a request: "unreachable" (no
                           \* answer or 5xx, not applied), "lost" (applied,
                           \* but the answer, or the refresh a form makes
                           \* after it, is lost or is a 5xx)

ASSUME BoundsAssumption ==
    /\ MaxWrites \in Nat /\ MaxRows \in Nat /\ MaxKeys \in Nat \ {0}
    /\ Faults \subseteq {"unreachable", "lost"}

ASSUME LocalIdsAssumption ==
    /\ Orders \cap Addresses = {}
    /\ (Orders \cup Addresses) \cap Nat = {}
    /\ Loops # {}

VARIABLES
    online,     \* navigator.onLine
    key,        \* the user's session cookies: which session's, and whether they are there
    queue,      \* the queue in local storage
    stored,     \* the id map in local storage: 0, or the row a local id became
    page,       \* what each page shows, and its own copy of the id map
    loop,       \* the drains of each page
    form,       \* the handlers of each page's forms
    writes,     \* how many writes the user has made
    rows,       \* the server's orders and addresses, in the order of creation
    applied,    \* how often the server has applied each write (counted to 2)
    recalled    \* history: the writes removed, or replaced by a newer one,
                \* while a drain still had them to send

vars == <<online, key, queue, stored, page, loop, form, writes, rows, applied, recalled>>

-----------------------------------------------------------------------------
Locals == Orders \cup Addresses

Ids == Locals \cup 1..MaxRows

Action == {"address.create", "address.update", "address.delete",
           "order.draft.save", "order.confirm"}

\* isSensitiveQueueAction: the payload is encrypted under the session's key.
Sensitive == {"address.create", "address.update", "order.draft.save"}

\* place stands for created_at, the moment an item was enqueued.
Item == [write : 1..MaxWrites, place : Nat, action : Action, id : Ids, key : 0..MaxKeys,
         status : {"local_queued", "syncing", "failed_retrying", "conflict"}]

RowOf == [kind : {"order", "address"}, content : 1..MaxWrites,
          status : {"open", "quoted", "confirmed", "deleted"}]

IdMap == [Locals -> 0..MaxRows]

\* ids and quoted: the entities listed, and the orders listed as quoted.
Page == [open : BOOLEAN, saving : BOOLEAN, map : IdMap,
         ids : SUBSET Ids, quoted : SUBSET (1..MaxRows)]

NoPage == [open |-> FALSE, saving |-> FALSE, map |-> [l \in Locals |-> 0],
           ids |-> {}, quoted |-> {}]

\* The items a drain has still to settle, and what it did about the first of
\* them: it sent a request about an id, which the server has applied, or which
\* made the server create a row.  load: the drain is part of loadPage.
Drain == [phase : {"idle", "running", "waiting", "applied", "created"}, load : BOOLEAN,
          todo : SUBSET Item, target : Ids \cup {0}]

NoDrain == [phase |-> "idle", load |-> FALSE, todo |-> {}, target |-> 0]

\* A write a form has made: its request is under way, or applied and not yet
\* answered, or its payload is being encrypted under the key of a session.
\* A quote is posted like a write, but is none.
Form == [phase : {"idle", "posting", "applied", "sealing"}, write : 0..MaxWrites,
         action : Action \cup {"order.quote"}, id : Ids \cup {0}, target : Ids \cup {0},
         key : 0..MaxKeys]

NoForm == [phase |-> "idle", write |-> 0, action |-> "order.quote", id |-> 0,
           target |-> 0, key |-> 0]

First(items) == CHOOSE i \in items : \A j \in items : i.place <= j.place

Kind(id) == IF id \in Orders THEN "order"
            ELSE IF id \in Addresses THEN "address" ELSE rows[id].kind

\* resolveOrderId and resolveAddressId.
Resolve(map, id) == IF id \in Locals /\ map[id] # 0 THEN map[id] ELSE id

\* A local id nothing remembers is one crypto.randomUUID can still give.
Fresh(id) ==
    /\ id \in Locals
    /\ stored[id] = 0
    /\ \A i \in queue : i.id # id
    /\ \A p \in Pages :
        /\ page[p].map[id] = 0
        /\ id \notin page[p].ids
        /\ \A d \in Loops : \A i \in loop[p][d].todo : i.id # id
        /\ \A f \in Forms : form[p][f].id # id

-----------------------------------------------------------------------------
(* The server, as the client knows it.                                     *)

Creates(action, target) ==
    \/ action = "address.create"
    \/ action = "order.draft.save" /\ target \in Orders

Accepts(action, target) ==
    /\ key.live
    /\ \/ Creates(action, target) /\ Len(rows) < MaxRows
       \/ /\ ~Creates(action, target)
          /\ target \in DOMAIN rows
          /\ action = "order.quote" => rows[target].kind = "order"
          /\ rows[target].status \in {"open", "quoted"}

\* Every edit of an order makes it a draft again.
Touched(action, row, n) ==
    CASE action = "address.delete"   -> [row EXCEPT !.status = "deleted"]
      [] action = "order.confirm"    -> [row EXCEPT !.status = "confirmed"]
      [] action = "order.quote"      -> [row EXCEPT !.status = "quoted"]
      [] action = "order.draft.save" -> [row EXCEPT !.content = n, !.status = "open"]
      [] OTHER                       -> [row EXCEPT !.content = n]

\* What each of the two routes that create something makes.
Made(action) == IF action = "address.create" THEN "address" ELSE "order"

Served(action, target, n) ==
    IF Creates(action, target)
    THEN Append(rows, [kind |-> Made(action), content |-> n, status |-> "open"])
    ELSE [rows EXCEPT ![target] = Touched(action, @, n)]

ServerApplies(action, target, n) ==
    /\ online
    /\ Accepts(action, target)
    /\ rows' = Served(action, target, n)
    /\ applied' = [m \in 1..MaxWrites |->
                     IF m = n /\ applied[m] < 2 THEN applied[m] + 1 ELSE applied[m]]

ServerUntouched == UNCHANGED <<rows, applied>>

-----------------------------------------------------------------------------
(* writeQueue.ts.                                                          *)

\* Faulty variant of DrainOf: an item that failed is never sent again.
DrainOfUntried(items, load) ==
    [phase |-> "running", load |-> load, target |-> 0,
     todo |-> {i \in items : i.status = "local_queued"}]

\* processScope starts with the items that wait at that moment.
DrainOf(items, load) ==
    [phase |-> "running", load |-> load, target |-> 0,
     todo |-> {i \in items : i.status # "conflict"}]

Marked(n, status) ==
    {IF i.write = n THEN [i EXCEPT !.status = status] ELSE i : i \in queue}

Without(n) == {i \in queue : i.write # n}

\* The earlier items enqueueAddressUpdate, enqueueDraftSave and
\* enqueueOrderConfirm remove with removeWhere.
Superseded(action, id) ==
    {i \in queue : /\ i.action = action /\ i.id = id
                   /\ action \in {"address.update", "order.draft.save", "order.confirm"}}

\* enqueue stamps an item with the time, so that it goes behind all that wait.
Behind(items) ==
    LET places == {i.place : i \in items}
    IN  IF items = {} THEN 0 ELSE 1 + CHOOSE k \in places : \A l \in places : l <= k

NewItem(n, action, id, no, items) ==
    [write |-> n, action |-> action, id |-> id, key |-> no, status |-> "local_queued",
     place |-> Behind(items)]

\* The writes of these items that some drain still has to send.
ToBeSent(items) ==
    {i.write : i \in {j \in items : \E p \in Pages, d \in Loops :
                                       \E k \in loop[p][d].todo : k.write = j.write}}

-----------------------------------------------------------------------------
Init ==
    /\ online = TRUE
    /\ key = [no |-> 1, live |-> TRUE]
    /\ queue = {}
    /\ stored = [l \in Locals |-> 0]
    /\ page = [p \in Pages |-> NoPage]
    /\ loop = [p \in Pages |-> [d \in Loops |-> NoDrain]]
    /\ form = [p \in Pages |-> [f \in Forms |-> NoForm]]
    /\ writes = 0
    /\ rows = <<>>
    /\ applied = [n \in 1..MaxWrites |-> 0]
    /\ recalled = {}

-----------------------------------------------------------------------------
(* What refreshData shows: the server's rows, without the addresses whose  *)
(* deletion is queued (applyQueueOverlays), nothing when the server cannot *)
(* be reached (the menu comes from the cache), and what it showed before   *)
(* when the session is over.                                               *)

Listed(p, table, items) ==
    {r \in DOMAIN table :
        /\ table[r].status # "deleted"
        /\ \A i \in items : i.action = "address.delete" /\ i.status # "conflict" =>
               Resolve(page[p].map, i.id) # r}

QuotedOf(table) == {r \in DOMAIN table : table[r].status = "quoted"}

Refreshed(p, table, items) ==
    LET all  == [page[p] EXCEPT !.ids = Listed(p, table, items), !.quoted = QuotedOf(table)]
        none == [page[p] EXCEPT !.ids = {}, !.quoted = {}]
    IN  {view \in {all, none, page[p]} :
            \/ view = all /\ online /\ key.live
            \/ view = none /\ (~online \/ "unreachable" \in Faults)
            \/ view = page[p] /\ online /\ ~key.live}

-----------------------------------------------------------------------------
(* What the user does.  Loading and saving disable the forms; the buttons  *)
(* of the queue are disabled by saving only.                               *)

Loading(p) == \E d \in Loops : loop[p][d].load

Usable(p) == page[p].open /\ ~page[p].saving /\ ~Loading(p)

QueueUsable(p) == page[p].open /\ ~page[p].saving

\* currentOrder is null, so saving makes a new order: none is listed, or the
\* user has opened a conflict about an order that is not.
NoCurrentOrder(p) ==
    \/ \A id \in page[p].ids : Kind(id) # "order"
    \/ \E i \in queue : /\ i.action \in {"order.draft.save", "order.confirm"}
                        /\ i.status = "conflict"
                        /\ Resolve(page[p].map, i.id) \notin page[p].ids

\* A form edits an entity the page lists, or makes a new one; only an order
\* shown as quoted can be confirmed (hasQuotedOrder in OrderComposer.vue).
CanWrite(p, action, id) ==
    /\ Usable(p)
    /\ writes < MaxWrites
    /\ \/ action = "address.create" /\ id \in Addresses /\ Fresh(id)
       \/ /\ action \in {"address.update", "address.delete"}
          /\ id \in page[p].ids
          /\ Kind(id) = "address"
       \/ /\ action = "order.draft.save"
          /\ \/ id \in page[p].ids /\ Kind(id) = "order"
             \/ id \in Orders /\ Fresh(id) /\ NoCurrentOrder(p)
       \/ action = "order.confirm" /\ id \in page[p].quoted

\* What a page lists once a write is queued: a deleted address is gone, what is
\* new is shown as it was entered.
ListedLocally(ids, action, id) ==
    CASE action = "address.delete" -> ids \ {id}
      [] action \in {"address.create", "order.draft.save"} -> ids \cup {id}
      [] OTHER -> ids

Showing(view, action, id) == [view EXCEPT !.ids = ListedLocally(@, action, id)]

\* A confirmation that failed is queued for the order that is current by then.
QueuedFor(view, action, id) ==
    IF action # "order.confirm" \/ id \in view.ids THEN {id}
    ELSE {o \in view.ids : Kind(o) = "order"}

\* withSaving enables the controls again, whatever else of the page runs.
EndForm(p, f, view) ==
    /\ form' = [form EXCEPT ![p][f] = NoForm]
    /\ page' = [page EXCEPT ![p] = [view EXCEPT !.saving = FALSE]]

\* The enqueue functions take the superseded item off the queue.
PutAside(action, id) ==
    /\ queue' = queue \ Superseded(action, id)
    /\ recalled' = recalled \cup ToBeSent(Superseded(action, id))

\* A deletion or a confirmation is queued at once.
EnqueuePlain(p, f, view, n, action, id) ==
    /\ action \notin Sensitive
    /\ LET kept == queue \ Superseded(action, id)
       IN  queue' = kept \cup {NewItem(n, action, id, 0, kept)}
    /\ recalled' = recalled \cup ToBeSent(Superseded(action, id))
    /\ EndForm(p, f, Showing(view, action, id))

\* The others are encrypted first, under the key of the session whose cookie is
\* there when that begins.
BeginSealing(p, f, view, n, action, id) ==
    /\ action \in Sensitive
    /\ key.live
    /\ PutAside(action, id)
    /\ form' = [form EXCEPT ![p][f] =
                  [NoForm EXCEPT !.phase = "sealing", !.write = n, !.action = action,
                                 !.id = id, !.key = key.no]]
    /\ page' = [page EXCEPT ![p] = view]

\* protectQueuedPayload throws when the cookie its key comes from has expired;
\* the superseded item is gone by then.
SealFails(p, f, view, action, id) ==
    /\ action \in Sensitive
    /\ ~key.live
    /\ PutAside(action, id)
    /\ EndForm(p, f, view)

\* A write that cannot be sent is queued; a quote is not, nor a confirmation
\* when no order is current any more.
Enqueue(p, f, view, n, action, id) ==
    \/ \E o \in QueuedFor(view, action, id) :
         \/ action # "order.quote" /\ EnqueuePlain(p, f, view, n, action, o)
         \/ BeginSealing(p, f, view, n, action, o)
         \/ SealFails(p, f, view, action, o)
    \/ /\ action = "order.quote" \/ QueuedFor(view, action, id) = {}
       /\ EndForm(p, f, view)
       /\ UNCHANGED <<queue, recalled>>

Saving(p) == [page[p] EXCEPT !.saving = TRUE]

WriteOffline(p, f, action, id) ==
    /\ CanWrite(p, action, id)
    /\ form[p][f] = NoForm
    /\ ~online
    /\ writes' = writes + 1
    /\ Enqueue(p, f, Saving(p), writes + 1, action, id)
    /\ UNCHANGED <<online, key, stored, loop, rows, applied>>

\* What a form's request is about: what it makes, or the row of what it edits;
\* for a local id the server does not know yet that is no row (404).
Posted(p, id) ==
    LET target == Resolve(page[p].map, id)
    IN  IF target \in page[p].ids \cap Locals THEN 0 ELSE target

Post(p, f, n, action, id) ==
    /\ form[p][f] = NoForm
    /\ online
    /\ form' = [form EXCEPT ![p][f] =
                  [NoForm EXCEPT !.phase = "posting", !.write = n, !.action = action,
                                 !.id = id, !.target = Posted(p, id)]]
    /\ page' = [page EXCEPT ![p] = Saving(p)]
    /\ UNCHANGED <<online, key, queue, stored, loop, rows, applied, recalled>>

\* Online, a write goes straight to the server, whatever is queued.
WriteOnline(p, f, action, id) ==
    /\ CanWrite(p, action, id)
    /\ Post(p, f, writes + 1, action, id)
    /\ writes' = writes + 1

\* handleQuote, online only.
Quote(p, f, id) ==
    /\ Usable(p)
    /\ id \in page[p].ids
    /\ Kind(id) = "order"
    /\ Post(p, f, 0, "order.quote", id)
    /\ UNCHANGED writes

FormApplied(p, f) ==
    /\ form[p][f].phase = "posting"
    /\ ServerApplies(form[p][f].action, form[p][f].target, form[p][f].write)
    /\ form' = [form EXCEPT ![p][f].phase = "applied"]
    /\ UNCHANGED <<online, key, queue, stored, page, loop, writes, recalled>>

FormAnswered(p, f) ==
    /\ form[p][f].phase = "applied"
    /\ \E view \in Refreshed(p, rows, queue) : EndForm(p, f, view)
    /\ UNCHANGED <<online, key, queue, stored, loop, writes, rows, applied, recalled>>

FormRefused(p, f) ==
    /\ form[p][f].phase = "posting"
    /\ online
    /\ EndForm(p, f, page[p])
    /\ UNCHANGED <<online, key, queue, stored, loop, writes, rows, applied, recalled>>

\* The request fails in a way isRetryableQueueError takes for temporary, before
\* or after the server applied it, and the write is queued.
FormInterrupted(p, f) ==
    /\ \/ form[p][f].phase = "posting" /\ (~online \/ "unreachable" \in Faults)
       \/ form[p][f].phase = "applied" /\ "lost" \in Faults
    /\ Enqueue(p, f, page[p], form[p][f].write, form[p][f].action, form[p][f].id)
    /\ UNCHANGED <<online, key, stored, loop, writes, rows, applied>>

\* The payload is encrypted: the item is stored.
Store(p, f) ==
    /\ form[p][f].phase = "sealing"
    /\ queue' = queue \cup {NewItem(form[p][f].write, form[p][f].action, form[p][f].id,
                                    form[p][f].key, queue)}
    /\ EndForm(p, f, Showing(page[p], form[p][f].action, form[p][f].id))
    /\ UNCHANGED <<online, key, stored, loop, writes, rows, applied, recalled>>

\* handleRetryQueuedMutation.
Retry(p, d, i) ==
    /\ QueueUsable(p)
    /\ i.status \in {"conflict", "failed_retrying"}
    /\ loop[p][d] = NoDrain
    /\ queue' = Marked(i.write, "local_queued")
    /\ IF online
       THEN /\ loop' = [loop EXCEPT ![p][d] = DrainOf(queue', FALSE)]
            /\ page' = [page EXCEPT ![p].saving = TRUE]
       ELSE UNCHANGED <<loop, page>>
    /\ UNCHANGED <<online, key, stored, form, writes, rows, applied, recalled>>

\* handleDiscardQueuedMutation, "Remove from queue".
Discard(p, i) ==
    /\ QueueUsable(p)
    /\ queue' = Without(i.write)
    /\ recalled' = recalled \cup ToBeSent({i})
    /\ UNCHANGED <<online, key, stored, page, loop, form, writes, rows, applied>>

-----------------------------------------------------------------------------
(* One drain: drainQueuedWrites, then refreshData.                         *)

Current(p, d) == First(loop[p][d].todo)

Target(p, d) == Resolve(page[p].map, Current(p, d).id)

Readable(i) == i.action \in Sensitive => key.live /\ i.key = key.no

AtItem(p, d) == loop[p][d].phase = "running" /\ loop[p][d].todo # {}

\* Faulty variant of Advance: the drain goes on with the same item.
AdvanceAgain(p, d) ==
    loop' = [loop EXCEPT ![p][d] = [@ EXCEPT !.phase = "running", !.target = 0]]

\* The drain is done with its current item and takes the next.
Advance(p, d) ==
    LET rest == loop[p][d].todo \ {Current(p, d)}
    IN  loop' = [loop EXCEPT ![p][d] =
                   [@ EXCEPT !.phase = "running", !.target = 0, !.todo = rest]]

\* The payload was encrypted under another session's key: decrypt throws an
\* error without a status, which counts as temporary.
Undecryptable(p, d) ==
    /\ AtItem(p, d)
    /\ ~Readable(Current(p, d))
    /\ queue' = Marked(Current(p, d).write, "failed_retrying")
    /\ Advance(p, d)
    /\ UNCHANGED <<online, key, stored, page, form, writes, rows, applied, recalled>>

\* An edit of an entity the server does not know yet waits for its create.
AwaitCreate(p, d) ==
    /\ AtItem(p, d)
    /\ Readable(Current(p, d))
    /\ Current(p, d).action \in {"address.update", "order.confirm"}
    /\ Target(p, d) \in Locals
    /\ queue' = Marked(Current(p, d).write, "failed_retrying")
    /\ Advance(p, d)
    /\ UNCHANGED <<online, key, stored, page, form, writes, rows, applied, recalled>>

\* The deletion of an address the server does not know yet counts as committed.
DropLocalDelete(p, d) ==
    /\ AtItem(p, d)
    /\ Current(p, d).action = "address.delete"
    /\ Target(p, d) \in Locals
    /\ queue' = Without(Current(p, d).write)
    /\ Advance(p, d)
    /\ UNCHANGED <<online, key, stored, page, form, writes, rows, applied, recalled>>

\* The item is sent even if it has left the queue since the snapshot.
Send(p, d) ==
    /\ AtItem(p, d)
    /\ Readable(Current(p, d))
    /\ Target(p, d) \in Locals => Creates(Current(p, d).action, Target(p, d))
    /\ queue' = Marked(Current(p, d).write, "syncing")
    /\ loop' = [loop EXCEPT ![p][d].phase = "waiting", ![p][d].target = Target(p, d)]
    /\ UNCHANGED <<online, key, stored, page, form, writes, rows, applied, recalled>>

\* The server applies the write; what it creates is its latest row.
Applied(p, d) ==
    /\ loop[p][d].phase = "waiting"
    /\ LET i == Current(p, d)  target == loop[p][d].target
       IN  /\ ServerApplies(i.action, target, i.write)
           /\ loop' = [loop EXCEPT ![p][d] =
                         IF Creates(i.action, target)
                         THEN [@ EXCEPT !.phase = "created", !.target = Len(rows')]
                         ELSE [@ EXCEPT !.phase = "applied"]]
    /\ UNCHANGED <<online, key, queue, stored, page, form, writes, recalled>>

\* Faulty variant of MapAfter: the row after the created one is taken for it.
MapAfterTooFar(p, d) ==
    IF loop[p][d].phase = "created"
    THEN [page[p].map EXCEPT ![Current(p, d).id] = loop[p][d].target + 1]
    ELSE page[p].map

\* Faulty variant of MapAfter: the latest row is taken for the created one.
MapAfterLatest(p, d) ==
    IF loop[p][d].phase = "created"
    THEN [page[p].map EXCEPT ![Current(p, d).id] = Len(rows)]
    ELSE page[p].map

\* The copy of the id map the page keeps after a create, which persistIdMap
\* writes over the stored one.
MapAfter(p, d) ==
    IF loop[p][d].phase = "created"
    THEN [page[p].map EXCEPT ![Current(p, d).id] = loop[p][d].target]
    ELSE page[p].map

\* Faulty variant of Settled: the item stays after its answer.
SettledButKept(p, d) == queue

\* Faulty variant of Settled: the drain stores what is left of its snapshot.
SettledFromSnapshot(p, d) == loop[p][d].todo \ {Current(p, d)}

\* A committed item leaves the queue.
Settled(p, d) == Without(Current(p, d).write)

\* Faulty variant of StoredAfter: persistIdMap is not called.
StoredForgotten(p, d) == stored

\* The id map as it is stored when an item is committed.
StoredAfter(p, d) ==
    IF loop[p][d].phase = "created" THEN MapAfter(p, d) ELSE stored

AnswerDue(p, d) == loop[p][d].phase \in {"applied", "created"}

\* The answer arrives.
Committed(p, d) ==
    /\ AnswerDue(p, d)
    /\ queue' = Settled(p, d)
    /\ page' = [page EXCEPT ![p].map = MapAfter(p, d)]
    /\ stored' = StoredAfter(p, d)
    /\ Advance(p, d)
    /\ UNCHANGED <<online, key, form, writes, rows, applied, recalled>>

\* Any 4xx but 429: a slot is full, an order is closed, a session is over.
Refused(p, d) ==
    /\ loop[p][d].phase = "waiting"
    /\ online
    /\ queue' = Marked(Current(p, d).write, "conflict")
    /\ Advance(p, d)
    /\ UNCHANGED <<online, key, stored, page, form, writes, rows, applied, recalled>>

Interrupted(p, d) ==
    /\ \/ loop[p][d].phase = "waiting" /\ (~online \/ "unreachable" \in Faults)
       \/ AnswerDue(p, d) /\ "lost" \in Faults
    /\ queue' = Marked(Current(p, d).write, "failed_retrying")
    /\ Advance(p, d)
    /\ UNCHANGED <<online, key, stored, page, form, writes, rows, applied, recalled>>

\* withSaving here too enables the controls, whatever else of the page runs.
Finish(p, d) ==
    /\ loop[p][d].phase = "running"
    /\ loop[p][d].todo = {}
    /\ loop' = [loop EXCEPT ![p][d] = NoDrain]
    /\ \E view \in Refreshed(p, rows, queue) :
         page' = [page EXCEPT ![p] = [view EXCEPT !.saving = view.saving /\ loop[p][d].load]]
    /\ UNCHANGED <<online, key, queue, stored, form, writes, rows, applied, recalled>>

-----------------------------------------------------------------------------
(* Pages, the network and the session.                                     *)

\* Faulty variant of LoadedMap: the page starts without the stored map.
LoadedMapEmpty(p) == [l \in Locals |-> 0]

\* loadOrderingIdMap.
LoadedMap(p) == stored

\* loadPage: the stored id map is read and, online, a drain begins.  A page the
\* user left and enters again starts anew.
OpenPage(p) ==
    /\ \A d \in Loops : loop[p][d] = NoDrain
    /\ \A f \in Forms : form[p][f] = NoForm
    /\ key.live
    /\ page' = [page EXCEPT ![p] = [NoPage EXCEPT !.open = TRUE, !.map = LoadedMap(p)]]
    /\ IF online
       THEN \E d \in Loops : loop' = [loop EXCEPT ![p][d] = DrainOf(queue, TRUE)]
       ELSE UNCHANGED loop
    /\ UNCHANGED <<online, key, queue, stored, form, writes, rows, applied, recalled>>

\* The tab is closed or crashes, with whatever it was doing; the answer to a
\* queued write the server has applied is then lost.
ClosePage(p) ==
    /\ page[p].open
    /\ (\E d \in Loops : AnswerDue(p, d)) => "lost" \in Faults
    /\ page' = [page EXCEPT ![p] = NoPage]
    /\ loop' = [loop EXCEPT ![p] = [d \in Loops |-> NoDrain]]
    /\ form' = [form EXCEPT ![p] = [f \in Forms |-> NoForm]]
    /\ UNCHANGED <<online, key, queue, stored, writes, rows, applied, recalled>>

GoOffline ==
    /\ online
    /\ online' = FALSE
    /\ UNCHANGED <<key, queue, stored, page, loop, form, writes, rows, applied, recalled>>

\* The browser's online event reaches every page that has loaded
\* (handleReconnect), even one that is draining already.
Reconnect ==
    /\ ~online
    /\ online' = TRUE
    /\ LET listening == {p \in Pages : page[p].open /\ ~Loading(p)}
       IN  \E free \in [listening -> Loops] :
             /\ \A p \in listening : loop[p][free[p]] = NoDrain
             /\ loop' = [p \in Pages |->
                           IF p \in listening THEN [loop[p] EXCEPT ![free[p]] = DrainOf(queue, FALSE)]
                           ELSE loop[p]]
             /\ page' = [p \in Pages |->
                           IF p \in listening THEN [page[p] EXCEPT !.saving = TRUE]
                           ELSE page[p]]
    /\ UNCHANGED <<key, queue, stored, form, writes, rows, applied, recalled>>

\* The cookies reach their max_age; the user signs in again, without having
\* signed out, and gets new ones.
SessionExpires ==
    /\ key.live
    /\ key.no < MaxKeys
    /\ key' = [key EXCEPT !.live = FALSE]
    /\ UNCHANGED <<online, queue, stored, page, loop, form, writes, rows, applied, recalled>>

SignInAgain ==
    /\ ~key.live
    /\ online
    /\ key' = [no |-> key.no + 1, live |-> TRUE]
    /\ UNCHANGED <<online, queue, stored, page, loop, form, writes, rows, applied, recalled>>

-----------------------------------------------------------------------------
Write(p, f) ==
    \E action \in Action, id \in Locals \cup 1..Len(rows) :
        \/ WriteOffline(p, f, action, id)
        \/ WriteOnline(p, f, action, id)

User(p) ==
    \/ \E f \in Forms : Write(p, f)
    \/ \E f \in Forms, id \in page[p].ids : Quote(p, f, id)
    \/ \E d \in Loops, i \in queue : Retry(p, d, i)
    \/ \E i \in queue : Discard(p, i)

FormStep(p, f) ==
    \/ FormApplied(p, f)
    \/ FormAnswered(p, f)
    \/ FormRefused(p, f)
    \/ FormInterrupted(p, f)
    \/ Store(p, f)

Local(p, d) ==
    \/ Undecryptable(p, d)
    \/ AwaitCreate(p, d)
    \/ DropLocalDelete(p, d)
    \/ Send(p, d)
    \/ Finish(p, d)

\* The server has decided about a write, one way or the other.
Decided(p, d) == Applied(p, d) \/ Refused(p, d)

DrainStep(p, d) == Local(p, d) \/ Decided(p, d) \/ Committed(p, d) \/ Interrupted(p, d)

Next ==
    \/ \E p \in Pages : User(p) \/ OpenPage(p) \/ ClosePage(p)
    \/ \E p \in Pages, d \in Loops : DrainStep(p, d)
    \/ \E p \in Pages, f \in Forms : FormStep(p, f)
    \/ GoOffline
    \/ Reconnect
    \/ SessionExpires
    \/ SignInAgain

Spec == Init /\ [][Next]_vars

-----------------------------------------------------------------------------
(* Fairness.  JavaScript runs what it can; a write that is sent again and  *)
(* again to a server that can be reached is answered one day; the browser  *)
(* comes back online.                                                      *)

DrainsRun ==
    /\ WF_vars(Reconnect)
    /\ \A p \in Pages, d \in Loops :
         /\ WF_vars(DrainStep(p, d))
         /\ \A n \in 1..MaxWrites : SF_vars(Decided(p, d) /\ Current(p, d).write = n)
         /\ SF_vars(Committed(p, d))
    /\ \A p \in Pages, f \in Forms : WF_vars(FormStep(p, f))

\* The user comes back to the ordering page again and again.
VisitedSpec == Spec /\ DrainsRun /\ \A p \in Pages : SF_vars(OpenPage(p))

-----------------------------------------------------------------------------
(* Properties.                                                             *)

\* Every variable holds a value of its kind, and no two queued items are the
\* same write.
TypeOK ==
    /\ online \in BOOLEAN
    /\ key \in [no : 1..MaxKeys, live : BOOLEAN]
    /\ queue \subseteq Item
    /\ \A i, j \in queue : i.write = j.write => i = j
    /\ stored \in IdMap
    /\ page \in [Pages -> Page]
    /\ loop \in [Pages -> [Loops -> Drain]]
    /\ form \in [Pages -> [Forms -> Form]]
    /\ writes \in 0..MaxWrites
    /\ rows \in Seq(RowOf) /\ Len(rows) <= MaxRows
    /\ applied \in [1..MaxWrites -> 0..2]
    /\ recalled \subseteq 1..MaxWrites

\* What is written for a local or server id and takes the place of item i.
Replaces(i, action, id) == action = i.action /\ id = i.id

\* Crashes, lost answers and drains drop nothing: an item leaves the queue only
\* when the server has applied it, the user removes it, or another write of the
\* same entity is stored or being encrypted in its place, and a write that is
\* being encrypted gets lost only with its tab.  The two other leaks are named:
\* the deletion of an address the server does not know, and a replacement that
\* cannot be encrypted because the session is over.
NothingDropped ==
    [][/\ \A i \in queue :
            (\A j \in queue' : j.write # i.write) =>
                \/ applied'[i.write] > 0
                \/ \E p \in Pages : Discard(p, i)
                \/ \E j \in queue' : Replaces(i, j.action, j.id)
                \/ \E p \in Pages, f \in Forms :
                     /\ form'[p][f].phase = "sealing"
                     /\ Replaces(i, form'[p][f].action, form'[p][f].id)
                \/ i.action = "address.delete" /\ i.id \in Locals
                \/ i.action \in {"address.update", "order.draft.save"} /\ ~key.live
       /\ \A p \in Pages, f \in Forms :
            form[p][f].phase = "sealing" =>
                \/ form'[p][f] = form[p][f]
                \/ \E j \in queue' : j.write = form[p][f].write
                \/ ~page'[p].open]_vars

\* One page, one drain at a time: what the server is made to do is a write a
\* form has just posted or one that is in the queue, or one that the drain had
\* still to send when it was removed or replaced.  (Form handlers end while a
\* drain runs, and enable the forms.)  What has been settled, or was replaced
\* while nothing was being sent, is never sent.
OnlyWantedWritesApplied ==
    [][\A n \in 1..MaxWrites :
          applied'[n] > applied[n] =>
              \/ \E p \in Pages, f \in Forms :
                   form[p][f].phase = "posting" /\ form[p][f].write = n
              \/ \E i \in queue : i.write = n
              \/ n \in recalled]_vars

\* One page: once an entity has its server id, the browser never forgets it, so
\* queued edits of the local id keep finding their row (persistIdMap writes the
\* whole map of one page).
MappingKept == [][\A l \in Locals : stored[l] # 0 => stored'[l] = stored[l]]_vars

\* However many pages drain one queue, and whatever else is created meanwhile:
\* an item whose answer tells of a created row leaves that row behind under its
\* local id, in this page and for those opened later; the row is of its kind
\* and goes by no other local id anywhere.  (Another page may save its own map
\* over this one afterwards.)
CommittedCreateIsMapped ==
    [][\A p \in Pages, d \in Loops :
          loop[p][d].phase = "created" /\ Committed(p, d) =>
              LET i == Current(p, d)
              IN  /\ stored'[i.id] \in DOMAIN rows'
                  /\ page'[p].map[i.id] = stored'[i.id]
                  /\ rows'[stored'[i.id]].kind = Kind(i.id)
                  /\ \A q \in Pages, l \in Locals \ {i.id} : page'[q].map[l] # stored'[i.id]]_vars

\* One page, one drain at a time: if every answer arrives, also while a tab is
\* being closed, no write is applied twice, however often items are retried.
AppliedAtMostOnce == \A n \in 1..MaxWrites : applied[n] <= 1

\* If every answer arrives, an item the user is asked to resolve was refused:
\* the server has not applied it.
ConflictMeansRefused ==
    \A i \in queue : i.status = "conflict" => applied[i.write] = 0

\* One page, one drain at a time: however often the page is closed and opened and
\* items are retried, a write is applied once or, if the user is asked to resolve
\* it, not at all, as long as every answer arrives: no tab dies between the
\* server's commit and the answer (processScope, markLocalQueued).
AppliedOnceOrRefused == AppliedAtMostOnce /\ ConflictMeansRefused

\* Nothing can be done for an item sealed under an earlier session's key, nor
\* for an edit whose create is so sealed, refused or removed.
Sealed(i) == i.key \notin {0, key.no}

Hopeless(i) ==
    \/ Sealed(i)
    \/ /\ i.id \in Locals /\ stored[i.id] = 0
       /\ \A j \in queue : j.id = i.id /\ Creates(j.action, j.id) =>
              j.status = "conflict" \/ Sealed(j)

Settles(n) ==
    (\E i \in queue : i.write = n) ~>
        (\A i \in queue : i.write = n => i.status = "conflict" \/ Hopeless(i))

\* Nobody closes a page that is draining.
Patient == \A p \in Pages : (\E d \in Loops : loop[p][d] # NoDrain) => page'[p].open

\* With the browser online and the user signed in for good, an item does not
\* wait for ever: it leaves the queue, becomes a conflict the user is shown, or
\* is hopeless, provided that from some point on pages may finish their drains.
QueuedWritesSettle ==
    <>[](online /\ key.live) /\ <>[][Patient]_vars => \A n \in 1..MaxWrites : Settles(n)
=============================================================================
