# HarmonyHub in TLA+

HarmonyHub runs the meals, directories and operations of music programs: a FastAPI
service over PostgreSQL (`src/repo/apps/api`), a scheduler process (`apps/worker`), a Vue
application that works offline (`apps/web`), behind nginx. This directory models the parts
whose correctness depends on what happens at the same time, in which order, and after a
failure; checks small instances with TLC; and proves the most important invariants with
TLAPS for instances of every size.

Paths below are relative to `src/repo/apps/`.

## The system

| part | state | operations | what is hard |
|---|---|---|---|
| Ordering and fulfillment API (`api/app/api/routes/ordering.py`, `fulfillment.py`, `orders/engine.py`) | `orders`, `order_items`, `slot_capacities`, `delivery_zones`, `address_book_entries` | draft, edit, quote, confirm, cancel, pickup code, transition, handoff, capacity and zone administration | read, decide, write without locks or versions |
| Kitchen queues and ETA (`fulfillment.py`, `orders/engine.py:191-261`) | `orders.eta_minutes` | list queues, recalculate | recalculation over many rows beside transitions |
| Offline write queue (`web/src/offline/writeQueue.ts`, `views/OrderingView.vue`) | local storage: queue, id map; per page: lists, id map, flags | write online or queue, drain, retry, remove | several drains of one queue, lost answers, crashes, expired keys |
| The browser's session and offline reads (`web/src/stores/auth.ts`, `context.ts`, `offline/readCache.ts`, the views) | auth and context stores; scoped caches, cached session | bootstrap, sign in and out, switch, cache, load, clear | the stores and the cookie change apart; what survives a change of user |
| Admission of requests (`api/app/api/deps.py`, `core/rate_limit.py`, `main.py`) | `replay_nonces`, `api_rate_limit_buckets`, session cookie | replay, CSRF, session, freeze, permission, rate limit | windows of time, insert races |
| Login (`api/app/api/routes/auth.py`) | failed attempts, lock, TOTP secret | login, MFA set-up, logout | counting by read and write |
| Policies (`api/app/authz/*.py`, `routes/policies.py`) | `abac_rules`, `abac_surface_settings` | evaluate, administer | precedence of rules |
| Imports (`api/app/imports/pipeline.py`, `routes/imports_admin.py`) | batches, normalized rows, duplicate candidates, merge actions, directory | upload, normalize, apply, merge, ignore, undo, freeze | legal calls in an order nobody tested, overlapping applications |
| Backups and drills (`api/app/operations/*.py`, `worker/app/jobs.py`) | `backup_runs`, files, `recovery_drill_runs`, `audit_events` | backup, nightly gate, drill, retention | table-by-table reads, files against rows, two processes |
| Recommendations (`api/app/recommendations/engine.py`, `routes/recommendations.py`) | configurations of three scopes, pins, pairing rules, signals | configure, pin, unpin, allow, block, recommend | settings, pins and rules are read by many queries while others save; constraints that stop no duplicates |
| Directory, repertoire, dashboard | none of their own | scoped reads with masking | little |

How they interact: the web application calls the API, whose handlers are synchronous
functions on a thread pool; each request owns one database session, and handlers share
nothing but the database, at READ COMMITTED. Before a handler runs, the middleware counts
the request, and `verify_replay_headers` commits its nonce; the active context comes from
the session token. The worker shares the database and the backup medium. The pages of one
browser share its local storage and cookies.

`PROJECT.json` lists every part with its status, and every hazard found, at its line, with
the properties that watch it or the reason none does yet.

## Modules

| module | what it is |
|---|---|
| `OrderRules` | pure rules of orders: statuses, transitions by type, the timestamps of each status (`orders/engine.py`) |
| `Ordering` | the orders table and its handlers, as overlapping transactions |
| `SlotBooking` | what the API promises about slots, without rows, requests or statuses |
| `MCOrdering` | symmetry for TLC |
| `OrderingProofs` | theorems about `Ordering`, and that one worker implements `SlotBooking` |
| `OfflineQueue` | the write queue, the ordering page's drains and the server they write to |
| `MCOfflineQueue` | symmetry for TLC |
| `OfflineProofs` | theorems about `OfflineQueue`, for many pages and for one |
| `ImportPipeline` | import batches, their rows and duplicate candidates, merges, and the directory they fill |
| `MCImportPipeline` | two CSV files for TLC |
| `ImportProofs` | theorems about `ImportPipeline` |
| `BackupOps` | backups of a scope beside commits, their files, the nightly gate, recovery drills, retention |
| `MCBackupOps` | bounds and memberships for TLC |
| `BackupProofs` | theorems about `BackupOps` |
| `Recommendations` | settings and their inheritance, pins, pairing rules, and recommendations that read them |
| `MCRecommendations` | settings and rules for TLC |
| `RecommendationProofs` | theorems about `Recommendations` |
| `RateLimit` | the request budget of each device and user in a minute |
| `ReplayGuard` | replay headers and the table of nonces |
| `SignIn` | failed attempts, the lock and the second factor of one account |
| `Access` | session contexts, frozen memberships, roles and attribute rules, and the handlers that change them |
| `KitchenQueue` | the estimates of the orders of a store, and the handlers that renumber them under row locks |
| `MCRequests` | the five above, which share no table, in one instance for TLC |
| `KitchenProofs` | theorems about `KitchenQueue` |
| `RequestProofs` | theorems about the other four, and the types of all five together |
| `ClientSession` | the browser's stores, caches and queue scopes against the cookie, and the views' handlers |
| `MCClientSession` | memberships for TLC |
| `ClientProofs` | theorems about `ClientSession` |

Operators whose comment begins with "Faulty variant" are plausible bugs: each takes the
place of the operator after it to see that a property notices. No specification uses them.

### Ordering

A row of `orders` has the columns the handlers decide on: status, type, slot, number of
meals, address, whether a quote expiry is set, the set of non-null timestamps, and the
pickup code as none, issued before readiness, after it, or expired. `capacity`, `book` and
`served` stand for the slot, address and zone tables. `late` is the set of orders past
their cancellation cutoff.

A handler SELECTs its order, checks its copy, reads other tables, and commits an UPDATE
with the columns that differ from the copy (SQLAlchemy's flush). So `request[w]` of a
worker goes from *idle* to *reading* (`LoadMutable`) to *writing* (`UpdateOrderDraft`,
`QuoteOrder`, `ConfirmOrder`, `SlotConflict`) to idle (`CommitUpdate`); handlers that read
nothing but their order go straight to *writing* (`CancelOrder`, `IssueOrderPickupCode`,
`TransitionOrderStatus`, `VerifyPickupCodeAndHandoff`). `AbortRequest` is a failure before
the commit. Handlers on a single row of another table are one step. `Flush`, `Assign` and
`IfChanged` are the ORM's rule that a column left as it was loaded is not in the UPDATE,
which decides which updates get lost.

`Spec` allows everything. `PoliteSpec` assumes that no two requests on one order overlap;
nothing enforces it, and it separates the anomalies of one order from those of a slot.
`SlotBooking` is implemented when there is one worker (`ImplementsSlotBooking`); the
mapping takes the bookings of a slot to be the orders it counts, and the orders given up to
be the cancelled ones.

### OfflineQueue

`queue` and `stored` are local storage: the queued writes and the map from local ids to
server rows. `page` is what each page shows, with its own copy of the map, which it reads
when it loads and writes whole, and the flag `saving` that disables the controls. `loop`
holds the drains, which work on a snapshot, one item after the other, and `form` the
handlers of forms. `rows` and `applied` are the server. A write is the number under which it
was made, and the content of a row is the number of the write that set it; `place` of an
item stands for its time stamp. `recalled` is history: the writes removed or replaced
while a drain still had to send them.

A step is what happens between two awaits. A form's write begins with `WriteOnline` or
`Quote`, which send a request (`Post`), or with `WriteOffline`, which queues at once; both
set `saving`. What the server does (`FormApplied`) and its answer with the refresh
(`FormAnswered`) are apart; `FormRefused` is any other answer, and `FormInterrupted` a
failure that counts as temporary, upon which the write is queued. To queue (`Enqueue`) is one
step for what is not encrypted (`EnqueuePlain`). Otherwise the item it replaces leaves the
queue, the encryption is awaited (`BeginSealing`, phase *sealing*), and `Store` puts the new
item behind what then waits; or there is no key to encrypt with (`SealFails`). Whatever ends a
form handler enables the controls (`EndForm`), even while another handler or a drain of the
page is under way, because all share one flag. So the two of them overlap: that is in every
run and in the proofs, and `Forms` bounds only how many.

A drain: `Undecryptable`, `AwaitCreate`, `DropLocalDelete`, `Send`; then `Applied` by the
server and `Committed` by the answer, or `Refused`, or `Interrupted`, before or after the
server applied it; and `Finish` with the refresh. The user has `Retry` and `Discard`. Around
them: `OpenPage`, `ClosePage` (also a crash, at any await), `GoOffline`, `Reconnect`,
`SessionExpires`, `SignInAgain`. Decryption is not awaited in a step of its own: between
it and the request only the id map is read, which `Send` reads.

A page is an instance of the view. An instance left by navigation goes on draining, so two
pages stand for two tabs as well as for an old and a new instance in one.

### ImportPipeline

`batch`, `row`, `cand`, `merges`, `directory` and `links` are tables; rows and candidates
are indexed by CSV line, since a batch has at most one of each for a line. `Csv` is what
was uploaded: batch, name, e-mail, phone, title. `NormalizeImportBatch` and
`ApplyImportBatch` read in one step, which leaves out a run over the lines that finds an entry
for a late line and, as it was not committed yet, not for an early one. A review goes from query to query, and others may commit in between:
`IgnoreDuplicate` and `MergeDuplicate` load the candidate, then `LoadRow` the row and, for a
merge, `LoadMergeTarget` the entry; `UndoMerge` loads the merge, then `LoadUndoTarget` the
entry, `LoadCandidate` the candidate and `LoadRow` the row. The commit is a step of its own
(`CommitNormalize`, ...), with the ORM's rule for unchanged columns. A normalization deletes and inserts the rows of its batch: until it
commits the old rows are locked, and afterwards a handler that loaded them fails
(`Current`). `AbortRequest` is a failure before the commit.

A directory entry remembers in `source` the line it was made from, which the database does
not; the properties need it to tell a line imported twice from two lines about one person.
`ApartSpec` assumes that overlapping requests are about different batches and different
entries; the code does not enforce it. What overlapping requests on one batch do is
evident from the code, which has no lock and no version: both import every row, and a row
and its candidate no longer agree. That an entry still keeps the fields it was created with is
proved for any overlap (`OwnFieldsSafe`).

### BackupOps

`run`, `drill` and `audit` are tables; `file` and `offline` map the name of an artifact, a
scope and a second, to the payload it holds. `editor`, `address` and `upload` stand for the
rows between which a foreign key can break: recommendation configurations and the user who
last edited each, a scope's orders and their address, import batches and their assets. A
configuration (`Configs`) belongs to an organization, a program or an event, and `Covers` says
which scopes take it into their payload (`ConfigsOf`); one above an event is in the payloads
of several, and its editor may be a user of another of them, or of none. Tables between which no key runs are read in one step
(`ReadGroups`), the others in the order of `_backup_payload_for_scope`.

A backup goes from *read* (`ReadTables`) to *copy* (`WriteArtifact`, which overwrites
whatever has the name) to its flush (`CopyArtifact`), and is known to others when its
request commits (`CommitBackup`, `CommitDrill`) or the nightly gate does (`CommitNightly`,
once for all scopes). `StartNightly` and `NextScope` are the startup of an API process;
`Abort` is an exception or a crash at any point, which leaves the files. A drill restores
the payload if the file still has the run's digest (`Verified`) and every row finds what it
refers to among the tables restored before (`Restores`, in the order of
`RESTORE_TABLE_ORDER`, with PostgreSQL's foreign keys; the SQLite variant for tests does not
enforce them). `taken` is history: it remembers of each payload whether it can be restored
and, when not, whether something was committed while it was read.

Time is in seconds of days of `SecondsPerDay`; ages are compared as the code does, with the
two forms of the compliance rule (`ScopeCurrent` of the status page, `OverdueScopes` of
the startup and the worker) kept apart.

### RateLimit

`buckets` is the table of counts, 0 where there is no row, and `rowLock` who has locked a
row. A request in the middleware (`Arrive`) runs `SelectBucket`, which waits for the lock,
then `InsertBucket` or `UpdateBucket`, which commit the count and prune old windows, first
for its device, then for its user. An `INSERT` that finds the row is tried again once;
`AbortCharge` is a failure before the commit. `letThrough` is history: the charges that
were within the limit. `Lag` is for how many minutes a request may stay in the middleware;
the bucket of one that stays longer than two may be pruned under it.

### ReplayGuard

A client stamps a request (`Send`), with a clock that may be off by `Skew`; the network
delivers it any number of times (`Deliver`, which also reads the server's clock and checks
the window); `StoreNonce` deletes old nonces and inserts this one, and `RejectNonce` is the
unique constraint. `accepted` is history: when a nonce was last accepted.

### SignIn

`account` is the row of one user. A request loads it (`BeginLogin`, `BeginSetup`,
`BeginEnable`), and answers in one step: `RefuseLogin`, `WrongPassword`, `LoginSucceeds`,
`SetupTotp`, `EnableTotp`, `AbandonAttempt`. `Written` is the ORM's rule for unchanged
columns. `guesses` counts wrong passwords since the last lock or success, `proved` holds
the secrets a valid code was shown for, and `crossed` remembers whether the set-up of the
current secret overlapped a confirmation.

### Access

`frozen`, `settings` and `rules` are tables, `token` the context in each user's session. A
request is checked in two steps: `BeginRequest` reads the membership and one setting row of
the surface, `Evaluate` the rules and what the handler will change (`Loads`); then it
commits (`CommitFreeze`, `CommitUnfreeze`, `CommitSetSurface`, `CommitCreateRule`,
`CommitDeleteRule`, `CommitSwitch`, or `CommitWork` for every other handler) or ends without
effect (`Refuse`). `OpenSession` and `CloseSession` are login and logout. `actsFrozen`
counts the commits in the name of a membership since it was frozen, `passedBy` the contexts
in which a frozen manager's freeze committed, and `rightly` in a request whether the policy
permitted it at one of its reads.

A rule has its surface, action, effect, priority and role; its context columns are one
value and the subject's columns another. The query for a setting takes any row of the
surface, and rules of equal priority come in any order, as in the database.

### KitchenQueue

Here a handler is not one UPDATE but many, so its statements are steps. `LoadOrder` is the
SELECT and the check of the order, `FlushStatus` the UPDATE of its status with the SELECT of
the active orders, `Estimate` and `UpdateEta` the loop of
`recalculate_queue_etas_for_scope`, `CommitHandler` the end. `wrote` holds the rows a
transaction has updated and so locked, `loaded` the estimates its session first saw: the ORM
writes an estimate only where it differs from that one. `AbortHandler` is a failure, or the
database breaking a cycle of waiting: two handlers that lock their own orders first and
then all by slot do wait for each other in this model, and the code does not retry the
request that loses. `settled` is history: no other commit came between the beginning and the
end of the last handler that committed.

### ClientSession

`cookie` is what the server knows, with `frozen`, the memberships an administrator has
frozen; `auth` and `context` are the two stores, `cachedMe`, `lastUser`, `cache` and `queue`
local storage, `page` the view. A handler is a task that awaits one thing at a time, an
answer, an encryption or a decryption, and carries the cookie of the moment it sent.
A bootstrap asks `/auth/me`: `MeAnswered` shows the answer and awaits its encryption,
`MeCached` stores it under the key that was there when the encryption began; `MeUnanswered`
awaits the decryption of a cached answer, `MeRestored` shows it, `MeFailed` shows nobody. The
answer (`Answers`) is the cookie's membership, or, while that is frozen, the first of the
user's that is not, or a user without a context. `ContextsLoaded`, `ReadAnswered` and
`ReadFailed` are the reads, `Enqueue` and `Enqueued` a write that is encrypted, then queued,
`Posted` and `PostFailed` the drain, `ContextSwitched` and `SwitchShown` a switch.

A sign-in is two requests: `LoggedIn` sets the cookie, `SignedIn` is the answer of
`/auth/me` after it, or `Replaces` when another user is shown, who is cleared, and `Replaced`
after the await of that; `SignInFailed` is the failure of either request. A sign-out
(`LoggedOut`) clears the stored artifacts, with or without an answer, and the store after the
await of `notifyAuthBoundaryChange` (`SignedOut`). The user's actions, the network, a freeze
(`SetFrozen`) and the expiry of the cookie come in between. Three pages stand for all: one
takes the scope of what it caches before it asks (dashboard), one when the answer is there
(directory and repertoire), one drains the queue first (ordering). `stale` is history: what
is shown has another context than the cookie's, because it was cached, or answered while the
membership was frozen. `left` holds who signed out, or was replaced while shown, and has not
returned.

Content of writes, their statuses and several pages are in `OfflineQueue`; users, contexts
and the scope of each queued write are here.

### Recommendations

`configs`, `pins` and `rules` are tables, for one event and store with its program and
organization. A scope may have several rows and a target several pins: the unique
constraints include columns that are NULL, which PostgreSQL takes to differ, so only the
rows of an event and store, and rules, are unique (`Refused`, `CommitRule`). A query for one
row takes any (`\E c \in Exact(scope)`).

A request goes from query to query, each a step that sees what is committed, to one step
that commits. Saving settings: `UpsertRecommendationConfig`, for staff
`StaffCanManageEventStore` at the program and perhaps the organization, `LoadConfig`,
`CommitConfig` (only the columns that differ from those loaded: `Assigned`). Pinning:
`PinFeaturedTarget`, `ResolveEffectiveConfig` scope by scope, `FindPin`, `CountPins`,
`CommitPin`; unpinning: `UnpinFeaturedTarget`, `FindPinToRemove`, `CommitUnpin`. Rules:
`CreatePairingRule` and `FindRule` or `DeletePairingRule` and `FindRuleToRemove`, then the
commit. A recommendation (`RecommendDirectory` for a piece, `RecommendRepertoire` for an
entry) resolves the settings, reads the pins (`ReadPins`), and asks for the rules again for
each candidate (`CheckCandidate`).

`barred`, `granted` and `calm` are history: the pairs that were forbidden, with no settings
against it, during all of a recommendation; the staff requests that saw a delegation in
some row; the requests during which no settings changed. Roles other than administrator
and staff are refused before a query, as are targets of other scopes; a recommendation
without a piece or an entry reads no rules. None of these change anything, and they are
left out. Scores and tags decide only the order of what is not featured, and which of it the limit
of the answer cuts off; the policy filter only removes rows.

`ApartSpec` assumes that overlapping requests are about different scopes, targets and
rules (`About`), which nothing in the code enforces.

## Runs

Orders are interchangeable, and so are workers, pages and drains; the runs that list
`SYMMETRY` check no liveness.

| run | bounds | what it shows |
|---|---|---|
| `ordering_serial` | 2 orders of both types, 2 slots, 1 address, capacity 0 or the default of 1, 1 worker | one request at a time implements `SlotBooking`, and accepted orders keep their content |
| `ordering_polite` | 3 pickup orders, 1 place, 2 workers | without overlaps on one order: timestamps, life cycle, quotes and pickup codes; a slot is exceeded by at most one order for each further worker |
| `ordering_last_place` | 2 orders, 1 place, 2 workers | **violation**: two confirmations take the last place |
| `offline_one_page` | 1 page, 1 drain, 2 forms, 1 local order, 2 writes, 1 row, 2 sessions, both faults | an item leaves the queue only for a reason the property names; what is sent is wanted, or was recalled too late |
| `offline_two_pages` | 2 pages, 1 drain and 1 form each, 1 local order and address, 1 write, 2 rows, no faults | two drains of one queue: types; a create is mapped to a row of its own |
| `offline_answered` | 1 page, 1 drain, 1 form, 1 local order and address, 2 writes, 2 rows, 2 sessions, unreachable server, fair | a write is applied once or refused; id mappings are kept and creates mapped; queued writes settle if the user keeps coming back |
| `import_apart` | 3 lines in a member and a roster file, 3 entries, 2 normalizations of each, 2 merges, 2 workers | entries come from one line each and fields from merges; rows have their types, agree with candidates and have their effect |
| `backup_ops` | 2 scopes, 1 busy, 1 thread, 1 process, 3 backups, 1 drill, 1 change or damage, 3 seconds over 2 days | artifacts and rows agree after crashes and overwrites; a passed drill means a payload that can be restored, and which payloads cannot; one nightly run; drill ages agree; the audit trail is kept |
| `recommend_apart` | 2 entries, 1 piece, 1 entry to pin, 3 settings, 2 rules, 2 hours, 2 workers | one row for a scope and a target; inheritance as the page shows it; what is forbidden is not shown; staff needs a delegation; an unpin leaves nothing |
| `recommend_limit` | 2 entries to pin, 1 worker, 3 hours | **violation**: an expired pin takes a target beyond the limit |
| `requests` | rate: 2 requests, 1 device with 2 a minute, 1 user with 1, 4 minutes. replay: 2 nonces, 2 threads, window 2, skew 1, 6 instants. sign-in: 2 threads, 3 failures, 2 secrets, 2 instants. access: an administrator and a staff member, who is a student in a second context, 2 threads, 1 surface, 2 setting rows, 2 rules. kitchen: a pickup and a later-numbered delivery in an earlier slot, 2 threads | the budget is exact; a nonce comes back only after the window and from ahead; guesses before a lock are bounded and a lock stays; a second factor was confirmed; a freeze stops all but what was under way and leaves a manager; what is allowed was permitted; a handler that nobody disturbed leaves every estimate right |
| `client_session` | 2 users, 3 memberships of which one may be frozen, 1 handler at a time, 1 queued write | nothing is left of a user who signed out, or was replaced; answers and queued writes belong to the user, and but for two exceptions the context, they are filed under |

Why the bounds are enough. A lost update needs two requests on one row, overbooking two
requests on one slot; the third order of `ordering_polite` shows that the excess does
not add up. A second slot matters for edits that move an order, and deliveries for edits
that change its type; `ordering_serial` has both. The properties of `ordering_polite` are
theorems, which cover deliveries and, for types and timestamps, overlaps on one order. In the queue, the interesting histories are a write and the one that
replaces it, follows it or depends on it, hence two writes; one local id of each kind, since
addresses wait for their creates and orders are created by what edits them; two forms, for
one to end while the other and a drain are under way; a second session is what makes keys
differ. `MaxWrites`, `MaxRows`, `MaxKeys`, `Loops` and `Forms` only stop the user, the server,
the sessions and the number of overlapping drains and handlers of a page from growing; that
the safety properties hold beyond them is proved. `Loops` with one element also means that
drains of a page do not overlap: the properties that need that say so in their comment, and
the two-page run has overlapping drains, of one write. The two files of the import runs are about one
person: two member lines, one with e-mail and phone, one with another phone, and a roster
line with a name only. Which file comes first decides who is the duplicate of whom, and an
entry made from the roster has blank fields for a merge to fill. A second normalization is
what could import a line again; two merges into one entry are what makes undo hard.
Two backups of one scope are what can share a name or a
day, and the other scope what a file name without it would confuse; one change by others
tears a payload, and one drill can restore it. Two seconds make a day, so that the three of
the run have a time before the nightly hour, a time after it, and a second day; retention
and interval of one second end within them.
Two workers are enough for
a recommendation or a look at the settings to overlap a save, and the three settings make
each scope differ from the next in every column that matters; the pinned entry is also the blocked
one, and the other is on the allowlist. One pin that can expire and two places to pin are
what the limit needs.
The five parts of `requests` share no table, so the instance runs one of them at a time,
and `Access` as two, freezing and policy making. Two threads are what every race there
needs, and a third would not meet a new one: a second request is what makes an insert
lose, a counter be read twice, a freeze come between check and commit. Four minutes are two
more than a bucket is kept, so pruning happens; six instants let a nonce of a window of two
be forgotten and come back. A staff member with a context of his own has somewhere to switch
to. The two rules disagree about staff and have different priorities; two setting rows of
one surface are what the missing constraint allows. Two orders in slots opposed to their
numbers are enough for handlers to wait for each other, and for an estimate to depend on an
order that another handler is changing. What these bounds leave open is proved.
In `client_session` a user with two contexts is needed to switch, another user to take
over the browser. One handler at a time means that the next action waits for the answers of
the last, except for lost connections, expiry, freezes and reloads, which happen in between; with
two, both properties fail, as the next but one section says. The frozen membership has
another of its user beside it, which `/auth/me` then answers; that it answers a user without
a context when all are frozen is in the model and in the proofs, but in no run: more
memberships to freeze would not end in the minutes a run should take.
`ordering_polite`, `backup_ops` and `requests` do not check deadlock: once all orders are
closed, or all backups, changes, minutes and secrets are used up, nothing is left to do.

## Fairness

Only `OfflineQueue` states liveness. `DrainsRun` assumes weak fairness of a drain's steps
and of a form handler's (the event loop runs what can run), weak fairness of `Reconnect` (the
browser fires `online`), and strong fairness, for each write, of a decision about it, and for
each drain, of the answer to what the server has applied: a server that can be reached and is
asked again and again about one write decides one day, and tells. Nothing is assumed
about the user except in `VisitedSpec`, where the page is opened again and again, as often as
it can be (strong fairness of `OpenPage`); the property itself assumes that from some point on the browser is online, the user signed in
and no page is closed while it drains. `QueuedWritesSettle` needs the visits: if the page stays
open and the user does nothing, a write that failed for the moment stays, because no timer
drains the queue.

## Differences noted while modelling

The violation runs show a race for the last place of a slot and a pin beyond the limit: the
handler skips the limit when the target has a row, even one whose pin has expired
(`routes/recommendations.py:278`, against `src/docs/design.md:384`). These behaviours of the models also differ from what documents or messages say;
no run states them, and some properties name them as exceptions:

* with two overlapping requests on one order, a late quote writes its status over a
  cancelled or confirmed order, and a pickup code issued early survives the reset at
  readiness (`LifecycleFollowed` and `RowsConsistent` hold for `PoliteSpec` only);
* a queued write whose replay failed for the moment says "Sync retry scheduled"
  (`web/src/offline/writeQueue.ts:201`), but nothing schedules it: it waits for the next
  visit, reconnection or click;
* a quote's expiry is stored and shown but never compared: an old quote is confirmed;
* slot capacity, documented in meals, is compared with a number of orders;
* the address of an accepted delivery can be deleted, which sets the order's to NULL;
* the queued deletion of an address the server does not know yet is dropped while its
  create stays queued, and a queued edit is removed before its replacement is encrypted,
  which fails once the cookie has expired, and is lost, old and new, when the tab is closed
  during the encryption (the exceptions in `NothingDropped`);
* two tabs each write their whole copy of the id map, so one can overwrite what the other
  has just stored (`web/src/views/OrderingView.vue:312`): a queued edit of an entity the
  other tab created is then sent under its local id and refused (`MappingKept` and
  `OnlyWantedWritesApplied` hold for one page; what does hold for many is that a
  create is mapped when it leaves the queue, `CommittedCreateIsMapped`);
* a drain goes on after a failed item, and writes made online do not look at the queue, so
  a queued edit can be overtaken and replayed later. It need not have failed: an edit made
  offline awaits its encryption, the browser comes online, a newer edit is sent, and the next
  drain replays the older one over it. No property bounds this, since neither the queue nor the
  server has a version to go by;
* one flag disables the forms for all handlers and drains of a page, and whichever ends first
  clears it (`web/src/views/OrderingView.vue:549`): a form that ends while a drain runs makes
  the forms usable, and what is then replaced or removed is still in the drain's snapshot and
  sent (`recalled` in `OnlyWantedWritesApplied`). A drain that belongs to the loading of the
  page does not disable the queue's buttons either;
* a tab that dies after the server has created a row and before the answer leaves an item that
  creates it again (`AppliedOnceOrRefused` is checked without that and without lost answers);
* an undo of a merge restores the fields as they were before it
  (`api/app/imports/pipeline.py:569`), so it empties a field that another merged row
  relied on, though merges are to be undone safely (`src/docs/questions.md:97`);
* two overlapping applications of one batch import its rows twice (`DirectoryExplained` holds
  for `ApartSpec`), and two batches normalized before either is applied do not see each other:
  one person gets two entries;
* row and candidate are read by two queries (`api/app/imports/pipeline.py:437`, `:583`), so an
  ignore that overlaps an undo leaves the row ignored and the candidate `undo_applied`
  (`RowsSettled` holds for `ApartSpec`; without it only `OwnFieldsKept` is left);
* a backup can be impossible to restore, though it is called restore-capable
  (`src/docs/api-spec.md:667`): when an address is deleted, a file uploaded or a drill
  recorded while its tables are read, or when the organization's or the program's
  recommendation configuration (`api/app/operations/backups.py:296`) was last edited by a user
  without a membership in the scope, say an administrator of a sibling event, whom the
  payload lacks (`UnrestorableExplained`, a part of `DrillsTellTheTruth`, names both reasons);
* two API processes that start at once make two nightly runs of a scope
  (`OneNightlyPerDay` is checked for one process), and two backups of a scope in one second
  share a file, so the first fails its checksum;
* a failed drill counts as a drill for the compliance of its scope;
* handlers that overlap leave estimates of a queue that no longer is, though they are to be
  recalculated on every transition (`src/docs/design.md:48`): each counts what the other has
  not committed, and an estimate equal to the one first loaded is not written over a newer
  one; the next handler that nobody disturbs repairs them (`EtaFollowsQueue`). The one that
  the database ends in a deadlock fails with an error, and is not tried again;
* two overlapping first saves of the organization's or a program's settings leave two rows,
  and two overlapping pins of a target two pins, of which an unpin removes one
  (`OneRowEach` and `UnpinTakesEffect` hold for `ApartSpec`); two overlapping saves of one row
  mix their columns;
* two managers who freeze each other at once leave a context without one, and nobody who
  could unfreeze them (the exception in `FreezeHolds`); requests that were let in before a
  freeze commit after it, as many as there are threads, where `src/docs/questions.md:98` says
  it prevents privileged actions immediately; a freeze whose target was loaded as
  frozen, while an unfreeze of it commits, is lost;
* a set-up of the second factor that overlaps a confirmation enables a secret for which no
  code was shown, until the next set-up (`FactorConfirmed` exempts that secret and no other);
* a lockout may come after more than the 5 failed attempts of `src/docs/questions.md:35` when
  attempts overlap: 15 wrong passwords for two threads (`GuessBound`, `GuessesBounded`);
* a failed attempt that was loaded before a lock can shorten it, and a successful one lift it
  (the exception in `LockKept`);
* a request stamped ahead of the server's clock, by up to five minutes, is accepted again once
  its nonce has been deleted (the exception in `NonceRemembered`);
* the settings of a surface may have two rows that disagree (`api/app/db/models.py:124`), and
  rules of equal priority are taken in any order;
* an administrator who enables enforcement of the policy surface before there is a rule for
  it locks himself out, and a denial may mix the setting of one moment with the rules of
  another (allowing cannot: `AllowedWasRight`);
* the deletion of a rule is committed before its audit row (`routes/policies.py:262`), so a
  crash between them leaves it unrecorded;
* a switch made in the directory or repertoire view does not renew the cached `/auth/me`
  answer: an offline start shows the old context, and what is queued there is sent under
  the cookie's, against the promise of caches per user and active context
  (`src/repo/README.md:87`, `src/docs/design.md:223`); it is the exception in
  `ServedInContext`;
* `/auth/me` answers another membership of the user while the cookie's is frozen, and the stores
  keep that answer when it no longer is: what is read is then filed, and what is queued is
  committed, under the cookie's context while another is shown (the other exception in
  `ServedInContext`, which excludes that it is another user's);
* a sign-in whose second request fails has set the new cookie, shows nobody and clears nobody
  (`web/src/stores/auth.ts:90`): when that user, or another, then signs in, the caches and queued
  writes of the user shown before stay, where account-switch boundaries are to clear them
  (`src/docs/design.md:453`, `src/docs/api-spec.md:727`). The same is left by a user whose session
  expired, when another signs in after a reload: the store no longer knows who was there.
  `SignedOutLeavesNothing` speaks of users who signed out or were shown;
* with two handlers under way, an answer that arrives, or whose encryption ends, after a
  sign-out or a switch is stored all the same, the ordering snapshot even under the scope of
  nobody, a write whose encryption ends then is queued again, and a drain or search that
  overlaps a switch is served in the new context: `SignedOutLeavesNothing` and
  `ServedInContext` fail for two tasks;
* a sign-out that does not reach the server leaves the cookie, and the next load of the page
  while it is valid signs the user in again.

## Theorems

Each holds for every value of the constants, under the named assumptions of the module and
the hypotheses given here. The lemmas `...Step`, `...Keeps` and the like go through the
actions one by one; lemmas about *others* say that a step of one worker or page does not
disturb what is said of another.

`OrderingProofs`, from the assumptions of `Ordering` on its constants (distinct nulls,
capacities are naturals, there is a slot and a number of meals):

* `TypeCorrect`: `Spec => []TypeOK`.
* `TimelineSafe`: `Spec => []TimelineComplete`. The invariant is not inductive alone: an
  UPDATE in flight carries a status. `TimelineInv` adds that its timeline is in the row or
  in the same UPDATE (`PendingTimeline`), which holds because no handler clears a
  timestamp, and that requests are about existing rows (`InFlightExists`).
* `PoliteRows`, `PoliteLifecycle`, `PoliteFrozen`: `RowsConsistent`, `LifecycleFollowed` and
  `AcceptedOrderFrozen`, for `PoliteSpec`. The inductive invariant
  `PoliteInv` says that rows are sane, that a copy being read is current in the columns
  decided on, and that an UPDATE in flight is one its row allows (`UpdateAllowed`). The
  lemmas `...Allowed` show that each handler decides on an allowed UPDATE, and
  `PoliteFrame`, `QuietPolite` that the steps of others do not disturb it.
* `OverbookingSafe`: `PoliteSpec => []OverbookingBounded`, for finite sets of orders and
  workers and while staff leave the limits alone (`Capacities = {}`: a lowered limit evicts
  nobody, so no bound survives it). `SlotInv` adds to `PoliteInv` that a handler decides on
  the slot its order still has; `RoomLeft` counts the orders in a slot together with the
  workers about to book it (`Books`): the last one to find room found at most the limit
  minus one, and the others are no more than the other workers.
* `ImplementsBooking`: `Spec => ImplementsSlotBooking`, for one worker, capacities that
  change included. `PlaceFree` says that the place a confirmation found is free until
  it commits; every step then books, gives up, sets a limit or stutters. The mapping's
  cardinalities are the same operator (`SameCount`).

`BackupProofs`, for any number of scopes, threads and processes, from `TimeAssumption`,
`ScopeAssumption`, `ActorsAssumption` (finitely many actors) and `DamagedAssumption`:

* `AuditTrailSafe`: `Spec => []AuditTrailKept`. `TrailInv` adds that the event about a row
  is not older than the row, so pruning takes it only when the row's own retention is over,
  and that a run waiting in a transaction was flushed in the past and is of its job's kind,
  so only nightly runs are committed without an event.
* `ArtifactsSafe`, `DrillsSafe`, `OverdueSafe`: `RunsKeepTheirArtifact`,
  `DrillsTellTheTruth` and `OverdueAgrees`. `ArtifactInv` says of every run, committed or
  only flushed, that its files exist and are of its scope (`RunTrue`, `MediumTrue`); of
  every job how far it is (`JobTrue`: one that copies has written its file, one that drills
  has a run of its scope and passes it only if it can be restored). A payload that is not torn
  restores (`UntornRestores`), because the keys between tables hold at each moment, unless a
  configuration in it has an editor from elsewhere.
* `NightlySafe`: `Spec => []OneNightlyPerDay`, for one API process. `GateInv` says of the
  gate in progress that no nightly run is of a later day than it began on, and that the
  scope it is backing up has none yet of that day.
* `TypesSafe`: `Spec => []TypeOK`; `ReadersBounded` counts payloads and the backups
  still reading against `MaxBackups`.

`RecommendationProofs`, from `RecommendationAssumption`, for any number of workers,
entries, pieces, settings and rules:

* `TypeCorrect`: `Spec => []TypeOK`. New ids are naturals because ids in tables and
  requests stay bounded (`IdsBounded`).
* `BlocklistSafe`: `Spec => []BlocklistHolds`, whatever requests overlap. The invariant
  `Honest` adds that, once the settings are known and leave rules unenforced, nothing is
  barred: there was a moment at which these settings were in the table. A candidate that
  passes `PairingAllows` is not forbidden at that moment.
* `SettingsAgree`: `Spec => []PageShowsWhatApplies`, and `StaffDelegated`:
  `Spec => StaffWritesDelegated`, whatever requests overlap. `Looked` says what a request
  that no change of settings disturbed has made sure of: the scopes it has passed are
  empty, it goes by the settings that apply, or the nearest ones above delegate; and that
  staff about to write has seen a delegation. `ApplyingIsRequested` connects the search of
  the handlers, one query at a time, with the chain of scopes of the page.
* `ApartOneRow`: `ApartSpec => []OneRowEach`, and `ApartUnpin`: `ApartSpec =>
  UnpinTakesEffect`. `Settled` says that what a request found, or found missing, is still
  so when it commits, because the others are about something else (`OthersSettled`).

`RequestProofs` and `KitchenProofs`, from the assumptions of `RateLimit`, `ReplayGuard`,
`SignIn`, `Access` and `KitchenQueue` on their constants, for any number of requests,
devices, nonces, users, contexts, settings, rules and orders, and for limits, windows and
lengths of a lock of any size:

* `BudgetSafe`: `RateSpec => []BudgetExact`. The invariant `RateInv` adds that a request
  about to write holds its row as it read it (`LocksHeld`), that rows agree with the history
  until they are pruned, which happens only to windows nobody charges any more (`Counted`,
  `InTime`), and that the row a second attempt asks for is there (`SecondTry`).
* `NonceSafe`: `ReplaySpec => NonceRemembered`. `ReplayInv` adds that an accepted nonce is in
  the table, as of its acceptance, until it is older than the window, and that a request
  in hand passed the window at the time it read.
* `SignTypes`, `LockSafe` (`SignSpec => LockKept`) and `FactorSafe` (`SignSpec =>
  []FactorConfirmed`). Types carry the counter's bound: no copy holds the limit of failures,
  because reaching it sets the counter to 0 in the same UPDATE. `ReadsPast` says that no
  request read a clock ahead of the server's.
* `GuessesSafe`: `SignSpec => []GuessesBounded`, for any finite set of threads
  (`AttemptsAssumption`) and any limit. How many wrong passwords pass before a lock is
  `GuessBound`, a row of numbers for each number of threads, and each row the running
  sums of the one before: a thread that read the counter early writes it back, and what was
  counted since is counted again. The bound is attained by two and three threads with limits
  of two and three. `GuessInv` explains a counter by a list of totals, one for each value
  up to its own: what was guessed between two values is at most the `Share` of the threads
  that have not read less than the upper one. A wrong password that sets the counter
  back keeps the list up to the place it read (`ExplainedAnew`); its thread leaves the
  shares above and pays with what they lose (`Telescope`). `EveryNumber`, an induction for
  sets with the least number missing, and `Iteration`, which builds a function from its
  steps, stand in for the library's induction and recursion.
* `FreezeSafe`: `AccessSpec => []FreezeHolds`. The invariant `ActsCounted` counts for each
  frozen membership what it did together with what it has in hand, and only a request that
  was in hand at the freeze can be; the freeze itself has a thread that is not its target's.
* `VerdictSafe`: `AccessSpec => []AllowedWasRight`. `Vetted` adds that a request that found its
  surface not enforced was permitted then, and that what a handler loaded may be changed by
  it.
* `KitchenTypes`: `KitchenSpec => []KitchenTypeOK`, and `EtasSafe`:
  `KitchenSpec => []EtaFollowsQueue`. `WorkInv` says that no two transactions have written
  one row. `Renumbering` says of a handler nobody has disturbed that, in the rows as its
  transaction sees them (`View`), every active order it is through with has the
  estimate of the queue, and that it still knows the estimates of the rest, so leaving
  an equal one out of the UPDATE does no harm.
* `RequestTypes`: `Spec => []TypesOK` of `MCRequests`: the parts together keep their types.

`ImportProofs`, from the assumptions of `ImportPipeline` on the files, the seeded directory
and the bounds, for any files, workers and entries:

* `DirectorySafe`: `ApartSpec => []DirectoryExplained`. `ImportInv` says that an entry with
  a source comes from one line,
  which is applied or a duplicate (`EntriesKnown`), that no two merges which stand fill
  one field, and that the one that does, or else the entry's own value, is what it holds
  (`MergesKnown`), that what a request read is still so (`Fresh`), and that overlapping
  applications make different entries (`NewApart`).
* `RowsSafe`: `ApartSpec => []RowsSettled`, from the same invariant: the row a review loads
  agrees with the candidate it loaded before, because nobody else is about that batch.
* `OwnFieldsSafe`: `Spec => []OwnFieldsKept`, however requests overlap: no entry loses a field
  it was created with. `OverlapInv` does not claim that what a request has read is still so, only
  what no other request can take away (`Remembers`, `Told`): a candidate exists as long as the
  batch is not normalized again, an entry for good, and what was blank in the file an entry
  came from is blank in it (`Original`). Which of two overlapping merges fills a blank field,
  and what an undo leaves then, is open: `RowsSettled` and `DirectoryExplained` do need
  `ApartSpec`.

`ClientProofs`, for any users, contexts, memberships, freezes and queued writes, and for one
handler at a time (`OneTask`):

* `ClientTypes`, `LeavesNothing` and `InContext`: `ClientTypeOK`, `SignedOutLeavesNothing` and
  `ServedInContext`. `ClientInv` says that what the stores show is the user of the cookie, of
  the request under way or of no cookie any more, and once they are in step its context too
  unless `stale`, except while a sign-in is between its two requests (`Follows`); what each
  await relies on (`Awaiting`): the answer being encrypted is the one shown, the one being
  decrypted belongs to the cookie's user, a drain posts items of its own scope; that a cached
  answer which can still be read belongs to the user of the cookie, whose key it needs (`Keys`),
  and that a cache holds answers to the user it is filed under (`CacheTrue`). For several
  handlers neither property holds (see above), and nothing is proved.

`OfflineProofs`, from the assumptions of `OfflineQueue`, with any number of forms, which end and
begin while drains run:

* `OfflineTypes` and `NothingDroppedSafe`: `TypeOK` and `NothingDropped`, for any number of pages
  and overlapping drains, with lost answers and crashes at any await. `QueueInv` says that one
  write has one item, that it is in one place (the queue and the drains, or one form:
  `FormsApart`), that what drains and forms have in hand is about something that exists
  (`DrainKnown`, `FormKnown`), and that local ids stand for rows that exist (`Mapped`).
* `CreatesMapped`: `CommittedCreateIsMapped`, for any number of pages and drains. `CreatedInv`
  says of a row whose answer is still due that it is of the kind of what was sent, is in no
  map yet, and is awaited by one drain only.
* `WantedSafe`: `OnlyWantedWritesApplied`, for one page that drains one at a time (`OneDrain`).
  `Wanted` says that what the drain has still to send is in the queue or was recalled.
* `MappingSafe`: `MappingKept`, for `OneDrain`. `MapInv` adds that the map of an open page is the
  stored one, and that an address whose create is at hand, in the queue, a drain or a form,
  has no row yet (`Creating`). The lemma `Sources` says where the items of the queue
  and the work of the forms come from in any step, so that this need not be shown
  action by action.
* `OnceSafe`: `AppliedOnceOrRefused`, for `OneDrain` if no answer is lost: what the server
  has applied is not to be sent any more by anybody (`Once`, `InPlay`), and what is being sent is
  no conflict (`Unconflicted`).

Model-checked only: `QueuedWritesSettle`, which is liveness, and the two violations.

## Not modelled

Prices and slot suggestions; the listing of the kitchen queues, the estimate of a quote, and
time in estimates (how far the slot is, which orders of the last 72 hours count); the address
book itself; directory and
repertoire beyond their caches; CSV exports and the reading of the audit trail; upload
checks. Within the modelled parts: CSRF tokens, inactive users and signatures of tokens in
the admission of requests; the resource columns of rules and the policy's filters of rows
and fields; drafts that refer to queued addresses; the counters and audit rows of imports;
the scores and signals of recommendations and the page that edits their settings; the tables
of a backup that cannot contradict each other, and memberships or stores that appear while
backups run; what the service worker caches. Seed data, configuration, byte formats and
rendering are left out for good: they have no control worth checking.

## Plan

1. (done) `OrderRules`, `Ordering`, `SlotBooking`; `OfflineQueue`; `ImportPipeline`.
2. (done) `BackupOps`; `Recommendations`.
3. (done) `RateLimit`, `ReplayGuard`, `SignIn`, `Access`; `ClientSession`.
4. (done) `KitchenQueue`: recalculation of ETAs with row locks taken by UPDATE.
5. Pure algorithms against reference definitions: `OrderPricing` and slot suggestions, the
   ranking of recommendations.
6. `AddressBook` with its default flag, the page that edits settings, references between
   entities in `OfflineQueue`.
7. (done) Proofs of every safety property of the runs, and of the implementation of
   `SlotBooking`.
8. (partly) Proofs for more than the runs state: what requests about one batch
   (`OverlapInv`) leave true is done; what several handlers of the browser do, which
   parts of `PoliteInv` survive when requests on one order overlap, and the same for
   `OneRowEach` without `ApartSpec`, is open.
