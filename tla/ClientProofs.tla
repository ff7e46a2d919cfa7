---------------------------- MODULE ClientProofs ----------------------------
(***************************************************************************)
(* What ClientSession promises for any users, contexts, memberships and    *)
(* queued writes while one handler is in flight at a time: the stores      *)
(* follow the cookie, what is read and written is filed under its user and *)
(* context, and who leaves leaves nothing behind.                          *)
(***************************************************************************)
EXTENDS ClientSession, TLAPS

OneTask == \E t : Tasks = {t}

\* The sessions the server may know the browser by: that of the cookie, and
\* that of the request in flight.
Known(job) == {cookie, job.sent} \cap Sessions

\* Between the two requests of a sign-in the cookie is ahead of the stores.
Entering(job) == job.pc = "loginMe" \/ (job.pc = "clearing" /\ job.of = "login")

\* Until a bootstrap ends the context store is behind the auth store.
Unsynced(job) == job.pc \in {"guard", "bootstrap", "caching", "restoring"}

\* The stores are about the user of the cookie, and but for a start from the
\* cache, or under a frozen membership, about its context too.
Follows(job) ==
    /\ job.sent \in Sessions => cookie \in {job.sent, Missing}
    /\ ~ Entering(job) /\ auth # Missing => \A c \in Known(job) : auth[1] = c[1]
    /\ ~ Entering(job) /\ ~ Unsynced(job) /\ auth # Missing =>
         \/ ShownScope = Missing
         \/ /\ ShownScope \in Sessions
            /\ stale \/ \A c \in Known(job) : ShownScope = c
    /\ job.pc # "clearing" /\ auth # Missing => auth[1] \notin left

\* An answer of /auth/me.
Answer(v) == v \in Identities /\ (v \in Sessions \/ v[2] = NoContext)

\* What each handler knows while it waits.
Awaiting(job) ==
    /\ job.pc = "guard" => context = NoContext
    /\ job.pc = "caching" =>
         /\ auth = job.got /\ auth # Missing /\ job.of \in {"guard", "bootstrap", "login"}
         /\ job.seal = "fresh" => cookie \in Sessions
         /\ stale \/ cookie \in {auth, Missing}
    /\ job.pc = "restoring" =>
         /\ job.of \in {"guard", "bootstrap"}
         /\ job.got # Missing =>
              Answer(job.got) /\ (cookie \in Sessions => cookie[1] = job.got[1])
    /\ job.pc \in {"caching", "restoring"} /\ job.of = "guard" => context = NoContext
    /\ job.of = "login" => job.page = "dashboard"
    /\ job.pc = "clearing" /\ job.of = "login" =>
         Answer(job.got) /\ job.sent \in Sessions /\ job.got[1] = job.sent[1]
    /\ job.pc = "loginMe" => job.page = "dashboard"
    /\ job.pc = "switch" => auth # Missing /\ <<auth[1], job.to>> \in Sessions
    /\ job.pc = "contexts" => auth = Missing \/ context = auth[2]
    /\ job.pc = "read" => /\ job.page \in Pages
                          /\ job.page # "search" => job.key = ShownScope
    /\ job.pc = "sealing" =>
         auth # Missing /\ job.item \in Items /\ ShownScope # Missing
    /\ job.pc = "post" =>
         /\ job.key = ShownScope /\ job.key \in Sessions
         /\ job.item \in Items /\ job.item \notin job.todo
         /\ queue[job.item] = job.key /\ \A i \in job.todo : queue[i] = job.key

\* What can be decrypted is an answer to the user of the cookie.
Keys ==
    \A u \in Users : cachedMe[u] \notin {Missing, Unreadable} =>
        Answer(<<u, cachedMe[u]>>) /\ cookie \in Sessions /\ cookie[1] = u

CacheTrue == \A s \in Scopes : cache[s] # Missing => s # Missing /\ cache[s][1] = s[1]

Stores ==
    /\ online \in BOOLEAN
    /\ frozen \subseteq Sessions
    /\ cookie \in Sessions \cup {Missing}
    /\ auth # Missing => Answer(auth)
    /\ context \in Contexts \cup {NoContext}
    /\ cachedMe \in [Users -> Contexts \cup {NoContext, Missing, Unreadable}]
    /\ lastUser \in Users \cup {Nobody}
    /\ cache \in [Scopes -> Sessions \cup {Missing}]
    /\ queue \in [Items -> Scopes]
    /\ page \in Pages \cup {"login"}
    /\ stale \in BOOLEAN
    /\ left \subseteq Users
    /\ Keys /\ CacheTrue
    /\ SignedOutLeavesNothing

ClientInv ==
    /\ Stores
    /\ task \in [Tasks -> Task]
    /\ \A t \in Tasks : Follows(task[t]) /\ Awaiting(task[t])

-----------------------------------------------------------------------------
LEMMA SessionParts ==
    ASSUME NEW s \in Sessions
    PROVE  /\ s[1] \in Users /\ s[2] \in Contexts /\ s = <<s[1], s[2]>>
           /\ s # Missing /\ s # Unsent /\ s[1] # Nobody /\ s[2] # NoContext
  <1>1. s \in Users \X Contexts
    BY SessionsAssumption
  <1> QED
    BY <1>1, SessionsAssumption

LEMMA Apart == /\ Missing \notin Sessions /\ Unsent \notin Sessions
               /\ Missing \notin Items /\ Missing \notin {Unsent, Unreadable}
               /\ Nobody \notin Users /\ NoContext \notin Contexts
               /\ Missing \notin Contexts \cup {NoContext}
               /\ Unreadable \notin Contexts \cup {NoContext}
  BY SessionsAssumption

LEMMA AnswerParts ==
    ASSUME NEW v, Answer(v)
    PROVE  /\ v[1] \in Users /\ v[1] # Nobody /\ v[2] \in Contexts \cup {NoContext}
           /\ v = <<v[1], v[2]>> /\ v # Missing /\ v \in Identities
           /\ v[2] # NoContext => v \in Sessions
  BY SessionsAssumption DEF Answer, Identities

LEMMA SessionAnswers ==
    ASSUME NEW c \in Sessions, NEW v \in Answers(c)
    PROVE  Answer(v) /\ v[1] = c[1]
  <1>1. \A s \in Sessions : Answer(s)
    BY SessionParts DEF Answer, Identities
  <1>2. Answer(<<c[1], NoContext>>)
    BY SessionParts DEF Answer, Identities
  <1>3. \/ v = c
        \/ v \in Sessions /\ v[1] = c[1]
        \/ v = <<c[1], NoContext>>
    BY DEF Answers
  <1> QED
    BY <1>1, <1>2, <1>3

\* Only a user whose context is known has a scope.
LEMMA ScopeShown ==
    /\ ShownScope # Missing => auth # Missing /\ ShownScope = <<auth[1], context>>
    /\ auth # Missing /\ context # NoContext => ShownScope = <<auth[1], context>>
    /\ auth = Missing \/ context = NoContext => ShownScope = Missing
  BY DEF ShownScope, Scope

\* The one handler is the one that steps.
LEMMA Sole ==
    ASSUME OneTask, NEW t \in Tasks, NEW next \in Task, task \in [Tasks -> Task],
           Becomes(t, next), Stores', Follows(next)', Awaiting(next)'
    PROVE  ClientInv'
  <1>1. task' = [task EXCEPT ![t] = next]
    BY DEF Becomes
  <1>2. task' \in [Tasks -> Task] /\ task'[t] = next
    BY <1>1
  <1>3. \A u \in Tasks : u = t
    BY DEF OneTask
  <1>4. \A u \in Tasks : task'[u] = next
    BY <1>2, <1>3
  <1>5. \A u \in Tasks : (Follows(task[u]) /\ Awaiting(task[u]))'
    <2> SUFFICES ASSUME NEW u \in Tasks PROVE (Follows(task[u]) /\ Awaiting(task[u]))'
      OBVIOUS
    <2>1. task'[u] = next
      BY <1>4
    <2> QED
      BY <2>1 DEF Follows, Awaiting, Known, Entering, Unsynced
  <1> QED
    BY <1>2, <1>5 DEF ClientInv

\* So is a step that looks at every handler.
LEMMA SoleBecomes ==
    ASSUME OneTask, NEW t \in Tasks, NEW next \in Task, task \in [Tasks -> Task],
           DOMAIN task' = Tasks, task' = [u \in Tasks |-> task'[u]], task'[t] = next
    PROVE  Becomes(t, next)
  <1>1. \A u \in Tasks : u = t
    BY DEF OneTask
  <1> QED
    BY <1>1 DEF Becomes

LEMMA DoneIdle ==
    /\ Done \in Task /\ Done.pc = "idle" /\ Done.of = "none" /\ Done.page = "login"
    /\ Done.sent = Missing /\ Done.key = Missing /\ Done.who = Nobody
    /\ Done.to = NoContext /\ Done.got = Missing /\ Done.seal = "none"
    /\ Done.todo = {} /\ Done.item = Missing
  BY DEF Done, Task, Scopes

LEMMA AwaitsFields ==
    ASSUME NEW pc \in {"guard", "bootstrap", "contexts", "read", "post", "switch",
                       "switchMe", "loginMe", "logout"},
           NEW p \in Pages \cup {"login"}, NEW c \in Sessions \cup {Missing},
           online \in BOOLEAN
    PROVE  /\ Awaits(pc, p, c) \in Task
           /\ Awaits(pc, p, c).pc = pc /\ Awaits(pc, p, c).page = p
           /\ Awaits(pc, p, c).sent \in {c, Unsent}
           /\ Awaits(pc, p, c).of = "none"
           /\ Awaits(pc, p, c).key = Missing /\ Awaits(pc, p, c).todo = {}
           /\ Awaits(pc, p, c).item = Missing
  <1>1. PICK sent : sent = Carried(c)
    OBVIOUS
  <1>2. sent \in {c, Unsent} /\ sent \in Sessions \cup {Missing, Unsent}
    BY <1>1 DEF Carried
  <1>3. Awaits(pc, p, c) = [Done EXCEPT !.pc = pc, !.page = p, !.sent = sent]
    BY <1>1 DEF Awaits
  <1>4. Awaits(pc, p, c) \in Task
    <2>1. pc \in {"idle", "guard", "reconnect", "bootstrap", "caching", "restoring",
                  "contexts", "read", "sealing", "post", "switch", "switchMe", "login",
                  "loginMe", "logout", "clearing"}
      OBVIOUS
    <2>2. PICK a : a = [Done EXCEPT !.pc = pc]
      OBVIOUS
    <2>3. a \in Task
      BY <2>1, <2>2, DoneIdle DEF Task
    <2>4. Awaits(pc, p, c) = [a EXCEPT !.page = p, !.sent = sent]
      BY <1>3, <2>2, <2>3, DoneIdle DEF Task
    <2> QED
      BY <1>2, <2>3, <2>4 DEF Task
  <1>5. /\ Awaits(pc, p, c).pc = pc /\ Awaits(pc, p, c).page = p
        /\ Awaits(pc, p, c).sent = sent
    BY <1>3, DoneIdle DEF Task
  <1>6. /\ Awaits(pc, p, c).of = Done.of
        /\ Awaits(pc, p, c).key = Done.key /\ Awaits(pc, p, c).todo = Done.todo
        /\ Awaits(pc, p, c).item = Done.item
    BY <1>3, DoneIdle DEF Task
  <1> QED
    BY <1>2, <1>4, <1>5, <1>6, DoneIdle

LEMMA InitClient == ClientInit => ClientInv
  <1> SUFFICES ASSUME ClientInit PROVE ClientInv
    OBVIOUS
  <1>1. Stores
    BY DEF ClientInit, Stores, Scopes, Pages, Keys, CacheTrue, SignedOutLeavesNothing
  <1>2. task \in [Tasks -> Task]
    BY DoneIdle DEF ClientInit
  <1>3. \A t \in Tasks : Follows(task[t]) /\ Awaiting(task[t])
    <2> SUFFICES ASSUME NEW t \in Tasks PROVE Follows(task[t]) /\ Awaiting(task[t])
      OBVIOUS
    <2>1. task[t] = Done
      BY DEF ClientInit
    <2> QED
      BY <2>1, DoneIdle, Apart
         DEF ClientInit, Follows, Awaiting, Known, Entering, Unsynced
  <1> QED
    BY <1>1, <1>2, <1>3 DEF ClientInv

-----------------------------------------------------------------------------
(* A handler that asks, or ends.                                           *)

LEMMA StoresKept ==
    ASSUME Stores, online' \in BOOLEAN, frozen' \subseteq Sessions,
           page' \in Pages \cup {"login"},
           UNCHANGED <<cookie, auth, context, cachedMe, lastUser, cache, queue, stale,
                       left>>
    PROVE  Stores'
  BY DEF Stores, Keys, CacheTrue, SignedOutLeavesNothing, UserOf

LEMMA FollowsFresh ==
    ASSUME NEW job, NEW next, Stores, Follows(job), ~ Entering(job),
           job.pc # "clearing", ~ Unsynced(job) \/ Unsynced(next),
           next.sent \in {cookie, Missing, Unsent},
           UNCHANGED <<cookie, auth, context, stale, left>>
    PROVE  Follows(next)'
  <1>1. ShownScope' = ShownScope
    BY DEF ShownScope
  <1> QED
    BY <1>1, Apart DEF Stores, Follows, Known, Entering, Unsynced

\* What is known of the handler that steps.
LEMMA Held ==
    ASSUME ClientInv, NEW t \in Tasks
    PROVE  /\ Stores /\ task \in [Tasks -> Task] /\ task[t] \in Task
           /\ Follows(task[t]) /\ Awaiting(task[t])
           /\ online \in BOOLEAN /\ frozen \subseteq Sessions
           /\ cookie \in Sessions \cup {Missing}
           /\ page \in Pages \cup {"login"}
  BY DEF ClientInv, Stores

\* A handler that is neither synchronising the stores nor clearing them.
Settled(job) == ~ Unsynced(job) /\ ~ Entering(job) /\ job.pc # "clearing"

\* A step that only sends the next request, or ends.
LEMMA Asks ==
    ASSUME OneTask, ClientInv, NEW t \in Tasks, NEW next \in Task,
           Settled(task[t]) \/ (Unsynced(task[t]) /\ Unsynced(next)), Becomes(t, next),
           online' \in BOOLEAN, page' \in Pages \cup {"login"},
           next.sent \in {cookie, Missing, Unsent}, Awaiting(next)',
           UNCHANGED <<frozen, cookie, auth, context, cachedMe, lastUser, cache, queue,
                       stale, left>>
    PROVE  ClientInv'
  <1>1. Stores'
    BY Held, StoresKept
  <1>2. Follows(next)'
    BY Held, FollowsFresh DEF Settled, Unsynced, Entering
  <1> QED
    BY <1>1, <1>2, Held, Sole

LEMMA EndsKeeps ==
    ASSUME OneTask, ClientInv, NEW t \in Tasks, Settled(task[t]), Ends(t),
           UNCHANGED <<online, frozen, cookie, auth, context, cachedMe, lastUser, cache,
                       queue, page, stale, left>>
    PROVE  ClientInv'
  <1>1. Awaiting(Done)'
    BY DoneIdle DEF Awaiting
  <1> QED
    BY <1>1, Asks, Held, DoneIdle DEF Ends

LEMMA IdleSettled ==
    ASSUME NEW t \in Tasks,
           task[t].pc \in {"idle", "reconnect", "contexts", "read", "sealing", "post",
                           "switch", "switchMe", "login", "logout"}
    PROVE  Settled(task[t])
  BY DEF Settled, Unsynced, Entering

LEMMA OpenPageKeeps ==
    ASSUME OneTask, ClientInv, NEW t \in Tasks, NEW p \in Pages, OpenPage(t, p)
    PROVE  ClientInv'
  <1>0. PICK next : next = Awaits("bootstrap", p, cookie)
    OBVIOUS
  <1>1. next \in Task /\ next.pc = "bootstrap" /\ next.sent \in {cookie, Unsent}
        /\ next.of = "none"
    BY <1>0, Held, AwaitsFields DEF Pages
  <1>2. Awaiting(next)'
    BY <1>1 DEF Awaiting
  <1>3. Becomes(t, next)
    BY <1>0 DEF OpenPage
  <1> QED
    BY <1>1, <1>2, <1>3, Asks, Held, IdleSettled DEF OpenPage, Idle, Pages

LEMMA ReadsFields ==
    ASSUME NEW p \in Pages, NEW s \in Scopes, ClientInv, NEW t \in Tasks
    PROVE  /\ Reads(p, s) \in Task /\ Reads(p, s).pc = "read" /\ Reads(p, s).page = p
           /\ Reads(p, s).sent \in {cookie, Unsent} /\ Reads(p, s).key = s
           /\ Reads(p, s).of = "none"
  <1> DEFINE a == Awaits("read", p, cookie)
  <1>1. a \in Task /\ a.pc = "read" /\ a.page = p /\ a.sent \in {cookie, Unsent}
        /\ a.of = "none"
    BY Held, AwaitsFields DEF Pages
  <1> HIDE DEF a
  <1>2. Reads(p, s) = [a EXCEPT !.key = s]
    BY DEF Reads, a
  <1> QED
    BY <1>1, <1>2 DEF Task

LEMMA SearchKeeps ==
    ASSUME OneTask, ClientInv, NEW t \in Tasks, Search(t)
    PROVE  ClientInv'
  <1>0. PICK next : next = Reads("search", Missing)
    OBVIOUS
  <1>1. next \in Task /\ next.pc = "read" /\ next.sent \in {cookie, Unsent}
        /\ next.page = "search" /\ next.of = "none"
    BY <1>0, ReadsFields DEF Pages, Scopes
  <1>2. Awaiting(next)'
    BY <1>1 DEF Awaiting, Pages
  <1>3. Becomes(t, next)
    BY <1>0 DEF Search
  <1> QED
    BY <1>1, <1>2, <1>3, Asks, Held, IdleSettled DEF Search, Idle

\* What the one handler knows of the scope shown.
LEMMA ShownScopeTyped ==
    ASSUME ClientInv, NEW t \in Tasks, Settled(task[t])
    PROVE  /\ ShownScope \in Scopes
           /\ ShownScope # Missing =>
                /\ ShownScope \in Sessions /\ auth # Missing /\ ShownScope[1] = auth[1]
                /\ ShownScope = <<auth[1], context>>
                /\ auth[1] \notin left
                /\ \A c \in Known(task[t]) : ShownScope[1] = c[1] /\ (stale \/ ShownScope = c)
  <1>1. Follows(task[t])
    BY Held
  <1> QED
    BY <1>1, ScopeShown DEF Follows, Settled, Scopes

LEMMA EnqueueKeeps ==
    ASSUME OneTask, ClientInv, NEW t \in Tasks, NEW i \in Items, Enqueue(t, i)
    PROVE  ClientInv'
  <1>1. PICK next : next = [Done EXCEPT !.pc = "sealing", !.page = "ordering", !.item = i]
    OBVIOUS
  <1>2. /\ next \in Task /\ next.pc = "sealing" /\ next.sent = Missing /\ next.of = "none"
        /\ next.item = i
    BY <1>1, DoneIdle DEF Task, Pages
  <1>3. Awaiting(next)'
    BY <1>2, ScopeShown DEF Awaiting, Enqueue, ShownScope
  <1>4. Becomes(t, next)
    BY <1>1 DEF Enqueue
  <1> QED
    BY <1>2, <1>3, <1>4, Asks, Held, IdleSettled DEF Enqueue, Idle

LEMMA EnqueuedKeeps ==
    ASSUME OneTask, ClientInv, NEW t \in Tasks, Enqueued(t)
    PROVE  ClientInv'
  <1>1. PICK i, s : i = task[t].item /\ s = <<auth[1], context>>
    OBVIOUS
  <1>2. Settled(task[t]) /\ i \in Items /\ queue' = [queue EXCEPT ![i] = s]
    BY <1>1, Held, IdleSettled DEF Enqueued, Awaiting
  <1>3. s \in Sessions /\ s[1] \notin left
    BY <1>1, <1>2, ShownScopeTyped, Held, SessionParts DEF Enqueued, Awaiting
  <1>4. Stores'
    <2>1. queue' \in [Items -> Scopes]
      BY <1>2, <1>3, Held DEF Stores, Scopes
    <2>2. SignedOutLeavesNothing'
      <3>1. \A j \in Items : queue'[j] = IF j = i THEN s ELSE queue[j]
        BY <1>2, Held DEF Stores
      <3>2. \A user \in left : UserOf(s) # user
        BY <1>3, SessionParts DEF UserOf
      <3> QED
        BY <3>1, <3>2, Held DEF Stores, SignedOutLeavesNothing, Enqueued
    <2> QED
      BY <2>1, <2>2, Held DEF Stores, Enqueued, Keys, CacheTrue
  <1>5. Follows(Done)'
    BY <1>2, Held, DoneIdle, FollowsFresh DEF Enqueued, Settled
  <1>6. Awaiting(Done)'
    BY DoneIdle DEF Awaiting
  <1> QED
    BY <1>4, <1>5, <1>6, DoneIdle, Held, Sole DEF Enqueued, Ends

LEMMA EnqueueFailedKeeps ==
    ASSUME OneTask, ClientInv, NEW t \in Tasks, EnqueueFailed(t)
    PROVE  ClientInv'
  BY EndsKeeps, IdleSettled DEF EnqueueFailed

\* A drain goes on with writes of its scope, which the page shows.
LEMMA DrainFields ==
    ASSUME ClientInv, NEW t \in Tasks, NEW s \in Scopes, NEW todo \in SUBSET Items,
           NEW next \in DrainNext(todo, s)
    PROVE  /\ next \in Task /\ next.sent \in {cookie, Unsent} /\ next.page = "ordering"
           /\ next.key = s /\ next.of = "none"
           /\ \/ next.pc = "read"
              \/ /\ next.pc = "post" /\ next.item \in todo
                 /\ next.todo = todo \ {next.item}
  <1>1. CASE todo = {}
    <2>1. next = Reads("ordering", s)
      BY <1>1 DEF DrainNext
    <2> QED
      BY <2>1, ReadsFields DEF Pages
  <1>2. CASE todo # {}
    <2> DEFINE a == Awaits("post", "ordering", cookie)
    <2>1. a \in Task /\ a.pc = "post" /\ a.page = "ordering" /\ a.sent \in {cookie, Unsent}
          /\ a.of = "none"
      BY Held, AwaitsFields DEF Pages
    <2> HIDE DEF a
    <2>2. PICK i \in todo :
            next = [a EXCEPT !.key = s, !.todo = todo \ {i}, !.item = i]
      BY <1>2 DEF DrainNext, a
    <2> QED
      BY <2>1, <2>2 DEF Task
  <1> QED
    BY <1>1, <1>2

LEMMA DrainAwaits ==
    ASSUME ClientInv, NEW t \in Tasks, NEW s \in Scopes, NEW todo \in SUBSET Items,
           NEW next \in DrainNext(todo, s), s = ShownScope',
           \A i \in todo : queue'[i] = s /\ s \in Sessions
    PROVE  Awaiting(next)'
  <1>1. /\ next.page = "ordering" /\ next.key = s /\ next.of = "none"
        /\ \/ next.pc = "read"
           \/ /\ next.pc = "post" /\ next.item \in todo
              /\ next.todo = todo \ {next.item}
    BY DrainFields
  <1> QED
    BY <1>1 DEF Awaiting, Pages

LEMMA SwitchContextKeeps ==
    ASSUME OneTask, ClientInv, NEW t \in Tasks, NEW k \in Contexts, SwitchContext(t, k)
    PROVE  ClientInv'
  <1>0. PICK a : a = Awaits("switch", page, cookie)
    OBVIOUS
  <1>1. a \in Task /\ a.pc = "switch" /\ a.sent \in {cookie, Unsent} /\ a.of = "none"
    BY <1>0, Held, AwaitsFields
  <1>2. PICK next : next = [a EXCEPT !.to = k]
    OBVIOUS
  <1>3. /\ next \in Task /\ next.pc = "switch" /\ next.sent \in {cookie, Unsent}
        /\ next.to = k /\ next.of = "none"
    BY <1>1, <1>2 DEF Task
  <1>4. Awaiting(next)'
    BY <1>3 DEF Awaiting, SwitchContext
  <1>5. Becomes(t, next)
    BY <1>0, <1>2 DEF SwitchContext
  <1> QED
    BY <1>3, <1>4, <1>5, Asks, Held, IdleSettled DEF SwitchContext, Idle

LEMMA ShownUser ==
    ASSUME Stores
    PROVE  UserOf(auth) \in Users \cup {Nobody}
  BY AnswerParts DEF Stores, UserOf

LEMMA SignInKeeps ==
    ASSUME OneTask, ClientInv, NEW t \in Tasks, NEW u \in Users, SignIn(t, u)
    PROVE  ClientInv'
  <1>2. PICK next : next = [Done EXCEPT !.pc = "login", !.to = u, !.who = UserOf(auth)]
    OBVIOUS
  <1>3. UserOf(auth) \in Users \cup {Nobody}
    BY Held, ShownUser
  <1>4. next \in Task /\ next.pc = "login" /\ next.sent = Missing /\ next.of = "none"
    BY <1>2, <1>3, DoneIdle DEF Task
  <1>5. Awaiting(next)'
    BY <1>4 DEF Awaiting
  <1>6. Becomes(t, next)
    BY <1>2 DEF SignIn
  <1> QED
    BY <1>4, <1>5, <1>6, Asks, Held, IdleSettled DEF SignIn, Idle

LEMMA SignOutKeeps ==
    ASSUME OneTask, ClientInv, NEW t \in Tasks, SignOut(t)
    PROVE  ClientInv'
  <1>0. PICK a : a = Awaits("logout", page, cookie)
    OBVIOUS
  <1>1. a \in Task /\ a.pc = "logout" /\ a.sent \in {cookie, Unsent} /\ a.of = "none"
    BY <1>0, Held, AwaitsFields
  <1>2. PICK next : next = [a EXCEPT !.who = UserOf(auth)]
    OBVIOUS
  <1>3. UserOf(auth) \in Users \cup {Nobody}
    BY Held, ShownUser
  <1>4. /\ next \in Task /\ next.pc = "logout" /\ next.sent \in {cookie, Unsent}
        /\ next.of = "none"
    BY <1>1, <1>2, <1>3 DEF Task
  <1>5. Awaiting(next)'
    BY <1>4 DEF Awaiting
  <1>6. Becomes(t, next)
    BY <1>0, <1>2 DEF SignOut
  <1> QED
    BY <1>4, <1>5, <1>6, Asks, Held, IdleSettled DEF SignOut, Idle

\* Drains of the scope shown.
LEMMA DrainsKeep ==
    ASSUME OneTask, ClientInv, NEW t \in Tasks, Settled(task[t]),
           NEW next \in Drains(ShownScope), Becomes(t, next),
           UNCHANGED <<online, frozen, cookie, auth, context, cachedMe, lastUser, cache,
                       queue, page, stale, left>>
    PROVE  ClientInv'
  <1>1. ShownScope \in Scopes /\ (ShownScope # Missing => ShownScope \in Sessions)
    BY ShownScopeTyped
  <1>2. PICK todo : todo = IF ShownScope = Missing \/ ~ online THEN {} ELSE Drainable(ShownScope)
    OBVIOUS
  <1>3. /\ todo \in SUBSET Items /\ next \in DrainNext(todo, ShownScope)
        /\ \A i \in todo : queue[i] = ShownScope /\ ShownScope \in Sessions
    BY <1>1, <1>2 DEF Drains, Drainable
  <1>4. PICK s : s = ShownScope
    OBVIOUS
  <1>5. s \in Scopes /\ s = ShownScope' /\ next \in DrainNext(todo, s)
        /\ \A i \in todo : queue'[i] = s /\ s \in Sessions
    BY <1>1, <1>3, <1>4 DEF ShownScope
  <1>6. Awaiting(next)'
    BY <1>3, <1>5, DrainAwaits
  <1>7. next \in Task /\ next.sent \in {cookie, Unsent}
    BY <1>3, <1>5, DrainFields
  <1> QED
    BY <1>6, <1>7, Asks, Held

LEMMA RetryKeeps ==
    ASSUME OneTask, ClientInv, NEW t \in Tasks, Retry(t)
    PROVE  ClientInv'
  BY DrainsKeep, IdleSettled DEF Retry, Idle

LEMMA HandleReconnectKeeps ==
    ASSUME OneTask, ClientInv, NEW t \in Tasks, HandleReconnect(t)
    PROVE  ClientInv'
  BY DrainsKeep, EndsKeeps, IdleSettled DEF HandleReconnect

LEMMA ReadFailedKeeps ==
    ASSUME OneTask, ClientInv, NEW t \in Tasks, ReadFailed(t)
    PROVE  ClientInv'
  BY EndsKeeps, IdleSettled DEF ReadFailed

LEMMA SwitchFailedKeeps ==
    ASSUME OneTask, ClientInv, NEW t \in Tasks, SwitchFailed(t)
    PROVE  ClientInv'
  BY EndsKeeps, IdleSettled DEF SwitchFailed

LEMMA PostFailedKeeps ==
    ASSUME OneTask, ClientInv, NEW t \in Tasks, PostFailed(t)
    PROVE  ClientInv'
  <1>1. PICK next \in DrainNext(task[t].todo, task[t].key) : Becomes(t, next)
    BY DEF PostFailed
  <1>2. PICK s, todo : s = task[t].key /\ todo = task[t].todo
    OBVIOUS
  <1>3. /\ s \in Scopes /\ s \in Sessions /\ todo \in SUBSET Items /\ s = ShownScope
        /\ \A i \in todo : queue[i] = s
    BY <1>2, Held DEF Awaiting, PostFailed, Task
  <1>4. s = ShownScope' /\ \A i \in todo : queue'[i] = s /\ s \in Sessions
    BY <1>3 DEF PostFailed, ShownScope
  <1>5. Awaiting(next)'
    BY <1>1, <1>2, <1>3, <1>4, DrainAwaits
  <1>6. next \in Task /\ next.sent \in {cookie, Unsent}
    BY <1>1, <1>2, <1>3, DrainFields
  <1> QED
    BY <1>1, <1>5, <1>6, Asks, Held, IdleSettled DEF PostFailed

\* A step of nobody.
LEMMA Rests ==
    ASSUME ClientInv, UNCHANGED task, Stores',
           UNCHANGED <<cookie, auth, context, queue, stale, left>>
    PROVE  ClientInv'
  <1>0. ShownScope' = ShownScope
    BY DEF ShownScope
  <1>1. \A t \in Tasks : (Follows(task[t]) /\ Awaiting(task[t]))'
    <2> SUFFICES ASSUME NEW t \in Tasks PROVE (Follows(task[t]) /\ Awaiting(task[t]))'
      OBVIOUS
    <2>1. Follows(task[t])'
      BY <1>0, Held DEF Follows, Known, Entering, Unsynced
    <2>2. Awaiting(task[t])'
      BY <1>0, Held DEF Awaiting
    <2> QED
      BY <2>1, <2>2
  <1> QED
    BY <1>1 DEF ClientInv

LEMMA GoOfflineKeeps ==
    ASSUME ClientInv, GoOffline
    PROVE  ClientInv'
  <1>1. Stores'
    BY StoresKept DEF GoOffline, ClientInv, Stores
  <1> QED
    BY <1>1, Rests DEF GoOffline

LEMMA SetFrozenKeeps ==
    ASSUME ClientInv, NEW s \in Freezable, SetFrozen(s)
    PROVE  ClientInv'
  <1>1. frozen' \subseteq Sessions
    BY SessionsAssumption DEF SetFrozen, ClientInv, Stores
  <1>2. Stores'
    BY <1>1, StoresKept DEF SetFrozen, ClientInv, Stores
  <1> QED
    BY <1>2, Rests DEF SetFrozen

LEMMA GoOnlineKeeps ==
    ASSUME OneTask, ClientInv, NEW t \in Tasks, GoOnline(t)
    PROVE  ClientInv'
  <1>1. CASE UNCHANGED task
    <2>1. Stores'
      BY StoresKept, Held DEF GoOnline, ClientInv, Stores
    <2> QED
      BY <1>1, <2>1, Rests DEF GoOnline
  <1>2. CASE Idle(t) /\ Becomes(t, [Done EXCEPT !.pc = "reconnect", !.page = "ordering"])
    <2>1. PICK next : next = [Done EXCEPT !.pc = "reconnect", !.page = "ordering"]
      OBVIOUS
    <2>2. next \in Task /\ next.pc = "reconnect" /\ next.sent = Missing /\ next.of = "none"
      BY <2>1, DoneIdle DEF Task, Pages
    <2>3. Awaiting(next)'
      BY <2>2 DEF Awaiting
    <2> QED
      BY <1>2, <2>1, <2>2, <2>3, Asks, Held, IdleSettled DEF GoOnline, Idle
  <1> QED
    BY <1>1, <1>2 DEF GoOnline


LEMMA OutdatedFields ==
    ASSUME NEW job \in Task
    PROVE  /\ Outdated(job) \in Task /\ Outdated(job).seal # "fresh"
           /\ Outdated(job).pc = job.pc /\ Outdated(job).of = job.of
           /\ Outdated(job).page = job.page /\ Outdated(job).sent = job.sent
           /\ Outdated(job).key = job.key /\ Outdated(job).to = job.to
           /\ Outdated(job).got = job.got /\ Outdated(job).todo = job.todo
           /\ Outdated(job).item = job.item
  <1>1. PICK seal : seal = IF job.seal = "fresh" THEN "old" ELSE job.seal
    OBVIOUS
  <1>2. seal \in {"none", "old"} /\ Outdated(job) = [job EXCEPT !.seal = seal]
    BY <1>1 DEF Outdated, Task
  <1> QED
    BY <1>2 DEF Task

LEMMA UnkeyedCached ==
    ASSUME NEW cached \in [Users -> Contexts \cup {NoContext, Missing, Unreadable}]
    PROVE  /\ Unkeyed(cached) \in [Users -> Contexts \cup {NoContext, Missing, Unreadable}]
           /\ \A u \in Users : /\ Unkeyed(cached)[u] \in {Missing, Unreadable}
                               /\ cached[u] = Missing => Unkeyed(cached)[u] = Missing
  BY DEF Unkeyed

LEMMA SessionExpiresKeeps ==
    ASSUME ClientInv, SessionExpires
    PROVE  ClientInv'
  <1>1. Stores'
    <2>1. /\ cachedMe' \in [Users -> Contexts \cup {NoContext, Missing, Unreadable}]
          /\ \A u \in Users : /\ cachedMe'[u] \in {Missing, Unreadable}
                              /\ cachedMe[u] = Missing => cachedMe'[u] = Missing
      BY UnkeyedCached DEF SessionExpires, ClientInv, Stores
    <2>2. SignedOutLeavesNothing'
      BY <2>1 DEF SessionExpires, ClientInv, Stores, SignedOutLeavesNothing, UserOf
    <2> QED
      BY <2>1, <2>2 DEF SessionExpires, ClientInv, Stores, Keys, CacheTrue
  <1>2. \A t \in Tasks : task'[t] \in Task /\ (Follows(task[t]) /\ Awaiting(task[t]))'
    <2> SUFFICES ASSUME NEW t \in Tasks
                 PROVE  task'[t] \in Task /\ (Follows(task[t]) /\ Awaiting(task[t]))'
      OBVIOUS
    <2>1. PICK job, next : job = task[t] /\ next = Outdated(job)
      OBVIOUS
    <2>2. task'[t] = next
      BY <2>1 DEF SessionExpires
    <2>3. /\ next \in Task /\ next.seal # "fresh"
          /\ next.pc = job.pc /\ next.of = job.of /\ next.page = job.page
          /\ next.sent = job.sent /\ next.key = job.key /\ next.to = job.to
          /\ next.got = job.got /\ next.todo = job.todo /\ next.item = job.item
      BY <2>1, Held, OutdatedFields
    <2>4. Follows(job) /\ Awaiting(job)
      BY <2>1, Held
    <2>5. ShownScope' = ShownScope /\ cookie' = Missing
          /\ UNCHANGED <<auth, context, stale, left, queue>>
      BY DEF SessionExpires, ShownScope
    <2>6. Follows(next)'
      BY <2>3, <2>4, <2>5, Apart DEF Follows, Known, Entering, Unsynced
    <2>7. Awaiting(next)'
      BY <2>3, <2>4, <2>5, Apart DEF Awaiting
    <2> QED
      BY <2>2, <2>3, <2>6, <2>7 DEF Follows, Awaiting, Known, Entering, Unsynced
  <1>3. task' \in [Tasks -> Task]
    BY <1>2 DEF SessionExpires
  <1> QED
    BY <1>1, <1>2, <1>3 DEF ClientInv

-----------------------------------------------------------------------------
(* The answers.                                                            *)

LEMMA ReloadKeeps ==
    ASSUME OneTask, ClientInv, NEW t \in Tasks, NEW p \in Pages \cup {"login"}, Reload(t, p)
    PROVE  ClientInv'
  <1>1. PICK next : next = Awaits("guard", p, cookie)
    OBVIOUS
  <1>2. next \in Task /\ next.pc = "guard" /\ next.sent \in {cookie, Unsent}
        /\ next.of = "none"
    BY <1>1, Held, AwaitsFields
  <1>3. Becomes(t, next)
    <2>1. task' = [u \in Tasks |-> task'[u]] /\ task'[t] = next
      BY <1>1 DEF Reload
    <2> QED
      BY <1>2, <2>1, Held, SoleBecomes
  <1>4. Stores'
    <2>1. SignedOutLeavesNothing' /\ CacheTrue' /\ Keys'
      BY Held DEF Reload, Stores, CacheTrue, Keys, SignedOutLeavesNothing, UserOf
    <2> QED
      BY <2>1, Held DEF Reload, Stores
  <1>5. Follows(next)'
    BY <1>2, Held, Apart DEF Reload, Follows, Known
  <1>6. Awaiting(next)'
    BY <1>2 DEF Awaiting, Reload
  <1> QED
    BY <1>2, <1>3, <1>4, <1>5, <1>6, Held, Sole

LEMMA ContextsLoadedKeeps ==
    ASSUME OneTask, ClientInv, NEW t \in Tasks, ContextsLoaded(t)
    PROVE  ClientInv'
  <1>0. Settled(task[t])
    BY IdleSettled DEF ContextsLoaded
  <1>1. PICK scope : scope = Scope(auth, context')
    OBVIOUS
  <1>2. auth # Missing => context' = auth[2] /\ context' = context
    BY Held DEF ContextsLoaded, Awaiting, ContextOf
  <1>3. /\ context' \in Contexts \cup {NoContext}
        /\ scope = ShownScope' /\ scope = ShownScope /\ scope \in Scopes
        /\ scope # Missing => scope \in Sessions
    <2>1. context' \in Contexts \cup {NoContext}
      BY <1>2, Held DEF ContextsLoaded, ContextOf, Stores
    <2>2. scope = ShownScope' /\ scope = ShownScope
      BY <1>1, <1>2 DEF ContextsLoaded, ShownScope, Scope
    <2> QED
      BY <1>0, <2>1, <2>2, ShownScopeTyped
  <1>4. PICK next : /\ Becomes(t, next) /\ next \in Task /\ next.sent \in {cookie, Unsent}
                    /\ Awaiting(next)' /\ next.pc \in {"read", "post"}
    <2>1. CASE task[t].page \in {"dashboard", "search"}
      <3>1. PICK key : key = IF task[t].page = "dashboard" THEN scope ELSE Missing
        OBVIOUS
      <3>2. PICK next : next = Reads(task[t].page, key)
        OBVIOUS
      <3>3. Becomes(t, next)
        BY <1>1, <2>1, <3>1, <3>2 DEF ContextsLoaded
      <3>4. /\ next \in Task /\ next.pc = "read" /\ next.sent \in {cookie, Unsent}
            /\ next.page = task[t].page /\ next.key = key /\ next.of = "none"
        BY <1>3, <2>1, <3>1, <3>2, ReadsFields DEF Pages, Scopes
      <3>5. Awaiting(next)'
        BY <1>3, <2>1, <3>1, <3>4 DEF Awaiting, Pages
      <3> QED
        BY <3>3, <3>4, <3>5
    <2>2. CASE task[t].page = "ordering"
      <3>1. PICK next \in Drains(scope) : Becomes(t, next)
        BY <1>1, <2>2 DEF ContextsLoaded
      <3>2. PICK todo : todo = IF scope = Missing \/ ~ online THEN {} ELSE Drainable(scope)
        OBVIOUS
      <3>3. /\ todo \in SUBSET Items /\ next \in DrainNext(todo, scope)
            /\ \A i \in todo : queue'[i] = scope /\ scope \in Sessions
        BY <1>3, <3>1, <3>2 DEF Drains, Drainable, ContextsLoaded
      <3>4. Awaiting(next)'
        BY <1>3, <3>3, DrainAwaits
      <3>5. next \in Task /\ next.sent \in {cookie, Unsent} /\ next.pc \in {"read", "post"}
        BY <1>3, <3>3, DrainFields
      <3> QED
        BY <3>1, <3>4, <3>5
    <2> QED
      BY <2>1, <2>2 DEF ContextsLoaded
  <1>5. Stores'
    BY <1>3, Held DEF ContextsLoaded, Stores, Keys, CacheTrue, SignedOutLeavesNothing, UserOf
  <1>6. Follows(next)'
    BY <1>0, <1>3, <1>4, Held, Apart
       DEF ContextsLoaded, Follows, Known, Settled, Unsynced, Entering, Stores
  <1> QED
    BY <1>4, <1>5, <1>6, Held, Sole

\* An answer is filed under the scope shown, which is of the user it is for.
LEMMA FiledIsShown ==
    ASSUME ClientInv, NEW t \in Tasks, task[t].pc = "read", task[t].sent \in Sessions,
           NEW s \in FiledUnder(t)
    PROVE  /\ s = ShownScope /\ s \in Sessions /\ s[1] \notin left
           /\ s[1] = task[t].sent[1] /\ (s = task[t].sent \/ stale)
  <1>1. s = ShownScope /\ s # Missing
    <2>1. CASE task[t].page = "ordering"
      <3>1. s = ShownScope /\ task[t].key = ShownScope /\ task[t].key # Missing
        BY <2>1, Held DEF FiledUnder, Awaiting
      <3> QED
        BY <3>1
    <2>2. CASE task[t].page \in {"dashboard", "search"}
      BY <2>2, Held DEF FiledUnder, Awaiting
    <2> QED
      BY <2>1, <2>2, Held DEF Awaiting, Pages
  <1>2. Settled(task[t]) /\ task[t].sent \in Known(task[t])
    BY IdleSettled DEF Known
  <1> QED
    BY <1>1, <1>2, ShownScopeTyped

LEMMA ReadAnsweredKeeps ==
    ASSUME OneTask, ClientInv, NEW t \in Tasks, ReadAnswered(t)
    PROVE  ClientInv'
  <1>1. task[t].sent \in Sessions /\ task[t].pc = "read"
    BY DEF ReadAnswered, Served
  <1>2. \A s \in Scopes : IF s \in FiledUnder(t) THEN cache'[s] = task[t].sent
                          ELSE cache'[s] = cache[s]
    BY DEF ReadAnswered
  <1>3. \A s \in FiledUnder(t) : /\ s \in Sessions /\ s[1] \notin left
                                 /\ s[1] = task[t].sent[1]
    BY <1>1, FiledIsShown
  <1>4. Stores'
    <2>1. cache' \in [Scopes -> Sessions \cup {Missing}]
      BY <1>1, Held DEF ReadAnswered, Stores
    <2>2. CacheTrue'
      BY <1>2, <1>3, Held, Apart DEF ReadAnswered, Stores, CacheTrue
    <2>3. SignedOutLeavesNothing'
      <3>0. SUFFICES \A user \in left : \A s \in Scopes :
                       /\ UserOf(cache'[s]) # user
                       /\ s \in Sessions /\ s[1] = user => cache'[s] = Missing
        BY Held DEF ReadAnswered, Stores, SignedOutLeavesNothing, Scopes
      <3> SUFFICES ASSUME NEW user \in left, NEW s \in Scopes
                   PROVE  /\ UserOf(cache'[s]) # user
                          /\ s \in Sessions /\ s[1] = user => cache'[s] = Missing
        OBVIOUS
      <3>2. CASE s \in FiledUnder(t)
        BY <1>1, <1>2, <1>3, <3>2, Apart DEF UserOf
      <3>3. CASE s \notin FiledUnder(t)
        BY <1>2, <3>3, Held DEF Stores, SignedOutLeavesNothing, UserOf
      <3> QED
        BY <3>2, <3>3
    <2> QED
      BY <2>1, <2>2, <2>3, Held DEF ReadAnswered, Stores, Keys
  <1>5. Follows(Done)'
    <2>1. Settled(task[t])
      BY <1>1, IdleSettled
    <2> QED
      BY <2>1, Held, DoneIdle, FollowsFresh DEF ReadAnswered, Settled
  <1>6. Awaiting(Done)'
    BY DoneIdle DEF Awaiting
  <1> QED
    BY <1>4, <1>5, <1>6, Held, DoneIdle, Sole DEF ReadAnswered, Ends

LEMMA PostedKeeps ==
    ASSUME OneTask, ClientInv, NEW t \in Tasks, Posted(t)
    PROVE  ClientInv'
  <1>1. PICK next \in DrainNext(task[t].todo, task[t].key) : Becomes(t, next)
    BY DEF Posted
  <1>2. PICK s, todo, i : s = task[t].key /\ todo = task[t].todo /\ i = task[t].item
    OBVIOUS
  <1>3. /\ s \in Scopes /\ s \in Sessions /\ todo \in SUBSET Items /\ s = ShownScope
        /\ i \in Items /\ i \notin todo /\ \A j \in todo : queue[j] = s
    BY <1>2, Held DEF Awaiting, Posted, Task
  <1>4. queue' = [queue EXCEPT ![i] = Missing] /\ queue \in [Items -> Scopes]
    BY <1>2, Held DEF Posted, Stores
  <1>5. s = ShownScope' /\ \A j \in todo : queue'[j] = s /\ s \in Sessions
    BY <1>3, <1>4 DEF Posted, ShownScope
  <1>6. Awaiting(next)'
    BY <1>1, <1>2, <1>3, <1>5, DrainAwaits
  <1>7. next \in Task /\ next.sent \in {cookie, Unsent}
    BY <1>1, <1>2, <1>3, DrainFields
  <1>8. Stores'
    <2>1. queue' \in [Items -> Scopes]
      BY <1>4 DEF Scopes
    <2>2. SignedOutLeavesNothing'
      BY <1>4, Held, Apart DEF Posted, Stores, SignedOutLeavesNothing, UserOf
    <2> QED
      BY <2>1, <2>2, Held DEF Posted, Stores, Keys, CacheTrue
  <1>9. Follows(next)'
    <2>1. Settled(task[t])
      BY IdleSettled DEF Posted
    <2> QED
      BY <1>7, <2>1, Held, FollowsFresh DEF Posted, Settled
  <1> QED
    BY <1>1, <1>6, <1>7, <1>8, <1>9, Held, Sole

\* Only the user who is shown returns.
LEMMA ShownStores ==
    ASSUME Stores, NEW v, Answer(v), auth' = v, left' = left \ {v[1]},
           context' \in Contexts \cup {NoContext}, stale' \in BOOLEAN,
           page' \in Pages \cup {"login"},
           UNCHANGED <<online, frozen, cookie, cachedMe, lastUser, cache, queue>>
    PROVE  Stores'
  <1>1. SignedOutLeavesNothing'
    BY DEF Stores, SignedOutLeavesNothing, UserOf
  <1>2. Keys' /\ CacheTrue'
    BY DEF Stores, Keys, CacheTrue
  <1> QED
    BY <1>1, <1>2 DEF Stores

\* A request answered by /auth/me: what it says is encrypted next.
LEMMA ShowsKeeps ==
    ASSUME OneTask, ClientInv, NEW t \in Tasks, NEW v, Answer(v),
           NEW of \in {"guard", "bootstrap", "login"}, Shows(t, v, of),
           task[t].sent \in Sessions, v[1] = task[t].sent[1],
           of = "guard" => context = NoContext,
           of = "login" => task[t].page = "dashboard",
           UNCHANGED <<online, frozen, cookie, context, cachedMe, lastUser, cache, queue,
                       page>>
    PROVE  ClientInv'
  <1>1. PICK p, seal : /\ p = task[t].page
                       /\ seal = IF cookie = Missing THEN "none" ELSE "fresh"
    OBVIOUS
  <1>2. PICK next : next = [Done EXCEPT !.pc = "caching", !.of = of, !.page = p,
                                        !.got = v, !.seal = seal]
    OBVIOUS
  <1>3. Becomes(t, next)
    BY <1>1, <1>2 DEF Shows
  <1>4. /\ next \in Task /\ next.pc = "caching" /\ next.of = of /\ next.page = p
        /\ next.got = v /\ next.sent = Missing /\ next.seal = seal
    <2>1. p \in Pages \cup {"login"} /\ seal \in {"none", "fresh", "old"}
          /\ v \in Identities /\ of \in {"none", "guard", "bootstrap", "login", "logout"}
      BY <1>1, Held, AnswerParts DEF Task
    <2>2. PICK a : a = [Done EXCEPT !.pc = "caching", !.of = of]
      OBVIOUS
    <2>3. a \in Task /\ a.pc = "caching" /\ a.of = of /\ a.sent = Missing
      BY <2>1, <2>2, DoneIdle DEF Task
    <2>4. PICK b : b = [a EXCEPT !.page = p]
      OBVIOUS
    <2>5. b \in Task /\ b.pc = "caching" /\ b.of = of /\ b.sent = Missing /\ b.page = p
      BY <2>1, <2>3, <2>4 DEF Task
    <2>6. next = [b EXCEPT !.got = v, !.seal = seal]
      <3>1. next = [Done EXCEPT !.pc = "caching", !.of = of, !.page = p,
                                !.got = v, !.seal = seal]
        BY <1>2
      <3>2. b = [Done EXCEPT !.pc = "caching", !.of = of, !.page = p]
        BY <2>2, <2>4, DoneIdle DEF Task
      <3> QED
        BY <3>1, <3>2, DoneIdle DEF Task
    <2>7. PICK c : c = [b EXCEPT !.got = v]
      OBVIOUS
    <2>8. /\ c \in Task /\ c.pc = "caching" /\ c.of = of /\ c.sent = Missing
          /\ c.page = p /\ c.got = v
      BY <2>1, <2>5, <2>7 DEF Task
    <2>9. next = [c EXCEPT !.seal = seal]
      BY <2>5, <2>6, <2>7 DEF Task
    <2> QED
      BY <2>1, <2>8, <2>9 DEF Task
  <1>5. /\ auth' = v /\ stale' = (v # task[t].sent) /\ left' = left \ {v[1]}
        /\ v # Missing /\ cookie \in {task[t].sent, Missing}
    BY AnswerParts, Held DEF Shows, Follows
  <1>6. Stores'
    BY <1>5, ShownStores, Held DEF Stores
  <1>7. Follows(next)'
    BY <1>4, <1>5, Apart DEF Follows, Known, Entering, Unsynced
  <1>8. Awaiting(next)'
    BY <1>1, <1>4, <1>5, Held DEF Awaiting
  <1> QED
    BY <1>3, <1>4, <1>6, <1>7, <1>8, Held, Sole

LEMMA MeAnsweredKeeps ==
    ASSUME OneTask, ClientInv, NEW t \in Tasks, MeAnswered(t)
    PROVE  ClientInv'
  <1>1. PICK v \in Answers(task[t].sent) : Shows(t, v, task[t].pc)
    BY DEF MeAnswered
  <1>2. /\ task[t].sent \in Sessions /\ task[t].pc \in {"guard", "bootstrap"}
        /\ task[t].pc = "guard" => context = NoContext
    BY Held DEF MeAnswered, Answerable, Bootstraps, Awaiting
  <1>3. Answer(v) /\ v[1] = task[t].sent[1]
    BY <1>2, SessionAnswers
  <1> QED
    BY <1>1, <1>2, <1>3, ShowsKeeps DEF MeAnswered

LEMMA SignedInKeeps ==
    ASSUME OneTask, ClientInv, NEW t \in Tasks, SignedIn(t)
    PROVE  ClientInv'
  <1>1. PICK v \in Answers(task[t].sent) : Shows(t, v, "login")
    BY DEF SignedIn
  <1>2. task[t].sent \in Sessions /\ task[t].page = "dashboard"
    BY Held DEF SignedIn, Answerable, Awaiting
  <1>3. Answer(v) /\ v[1] = task[t].sent[1]
    BY <1>2, SessionAnswers
  <1> QED
    BY <1>1, <1>2, <1>3, ShowsKeeps DEF SignedIn

LEMMA ReplacedKeeps ==
    ASSUME OneTask, ClientInv, NEW t \in Tasks, Replaced(t)
    PROVE  ClientInv'
  <1>1. PICK v : v = task[t].got
    OBVIOUS
  <1>2. /\ Answer(v) /\ task[t].sent \in Sessions /\ v[1] = task[t].sent[1]
        /\ task[t].page = "dashboard" /\ Shows(t, v, "login")
    BY <1>1, Held DEF Replaced, Awaiting
  <1> QED
    BY <1>2, ShowsKeeps DEF Replaced

\* What follows a bootstrap or a sign-in: the next page, or its contexts.
LEMMA GoesOnKeeps ==
    ASSUME OneTask, ClientInv, NEW t \in Tasks, GoesOn(t), Unsynced(task[t]),
           task[t].of = "guard" => context = NoContext,
           task[t].of = "login" => task[t].page = "dashboard" /\ auth' # Missing,
           auth' # Missing => auth'[1] \notin left',
           \A c \in {cookie} \cap Sessions : auth' # Missing => auth'[1] = c[1],
           stale' \/ auth' \in {cookie, Missing} \/ cookie = Missing,
           auth' # Missing => Answer(auth'), UNCHANGED <<online, frozen, cookie>>,
           (context' \in Contexts \cup {NoContext} /\ page' \in Pages \cup {"login"})
             => Stores'
    PROVE  ClientInv'
  <1>1. PICK p : p = task[t].page /\ p \in Pages \cup {"login"}
    BY Held DEF Task
  <1>2. /\ cookie' = cookie /\ cookie \in Sessions \cup {Missing}
        /\ context \in Contexts \cup {NoContext}
    BY Held DEF Stores
  <1>3. CASE task[t].of \in {"guard", "login"} /\ Opens(t, p)
    <2>1. PICK next : next = IF page' = "login" THEN Done ELSE Awaits("bootstrap", p, cookie)
      OBVIOUS
    <2>2. /\ page' \in Pages \cup {"login"} /\ Becomes(t, next) /\ context' = context
          /\ page' = IF auth' = Missing THEN "login" ELSE p
      BY <1>1, <1>3, <2>1 DEF Opens
    <2>3. /\ next \in Task /\ next.sent \in {cookie, Missing, Unsent} /\ next.of = "none"
          /\ next.pc = IF page' = "login" THEN "idle" ELSE "bootstrap"
      BY <1>1, <2>1, Held, DoneIdle, AwaitsFields
    <2>4. Stores'
      BY <1>2, <2>2, Held DEF Stores
    <2>5. next.pc = "idle" /\ auth' # Missing => context' = NoContext
      BY <1>1, <1>3, <2>2, <2>3 DEF Pages
    <2>6. Follows(next)'
      <3>1. next.pc = "idle" => ShownScope' = Missing
        BY <2>5 DEF ShownScope, Scope
      <3> QED
        BY <1>2, <2>3, <3>1, Apart DEF Follows, Known, Entering, Unsynced
    <2>7. Awaiting(next)'
      BY <2>3 DEF Awaiting
    <2> QED
      BY <2>2, <2>3, <2>4, <2>6, <2>7, Held, Sole
  <1>4. CASE task[t].of = "bootstrap" /\ Syncs(t)
    <2>1. PICK next : next = Awaits("contexts", p, cookie)
      OBVIOUS
    <2>2. Becomes(t, next) /\ context' = ContextOf(auth') /\ page' = page
      BY <1>1, <1>4, <2>1 DEF Syncs
    <2>3. /\ next \in Task /\ next.sent \in {cookie, Unsent} /\ next.of = "none"
          /\ next.pc = "contexts"
      BY <1>1, <2>1, Held, AwaitsFields
    <2>4. context' \in Contexts \cup {NoContext} /\ page' \in Pages \cup {"login"}
      BY <2>2, AnswerParts, Held DEF ContextOf
    <2>5. Stores'
      BY <2>4
    <2>6. Follows(next)'
      <3>1. auth' # Missing => ShownScope' = Missing \/ (ShownScope' = auth' /\ auth' \in Sessions)
        BY <2>2, AnswerParts DEF ShownScope, Scope, ContextOf
      <3> QED
        BY <1>2, <2>3, <3>1, Apart DEF Follows, Known, Entering, Unsynced
    <2>7. Awaiting(next)'
      BY <2>2, <2>3 DEF Awaiting, ContextOf
    <2> QED
      BY <2>2, <2>3, <2>5, <2>6, <2>7, Held, Sole
  <1> QED
    BY <1>1, <1>3, <1>4 DEF GoesOn

LEMMA MeCachedKeeps ==
    ASSUME OneTask, ClientInv, NEW t \in Tasks, MeCached(t)
    PROVE  ClientInv'
  <1>1. PICK v : v = task[t].got
    OBVIOUS
  <1>2. /\ auth = v /\ Answer(v) /\ v # Missing /\ auth[1] \notin left
        /\ task[t].seal = "fresh" => cookie \in Sessions
        /\ stale \/ cookie \in {auth, Missing}
        /\ \A c \in {cookie} \cap Sessions : auth[1] = c[1]
        /\ task[t].of = "guard" => context = NoContext
        /\ task[t].of = "login" => task[t].page = "dashboard"
    <2>1. /\ auth = v /\ v # Missing
          /\ stale \/ cookie \in {auth, Missing}
          /\ task[t].seal = "fresh" => cookie \in Sessions
          /\ task[t].of = "guard" => context = NoContext
          /\ task[t].of = "login" => task[t].page = "dashboard"
      BY <1>1, Held DEF MeCached, Awaiting
    <2>2. auth # Missing => Answer(auth)
      BY DEF ClientInv, Stores
    <2>3. Follows(task[t]) /\ auth # Missing
      BY <2>1, Held
    <2>4. auth[1] \notin left /\ \A c \in Known(task[t]) : auth[1] = c[1]
      BY <2>3 DEF MeCached, Follows, Entering
    <2>5. \A c \in {cookie} \cap Sessions : auth[1] = c[1]
      BY <2>4 DEF Known
    <2>6. Answer(v)
      BY <2>1, <2>2, Zenon
    <2> QED
      BY <2>1, <2>4, <2>5, <2>6, Zenon
  <1>3. /\ cachedMe' \in [Users -> Contexts \cup {NoContext, Missing, Unreadable}]
        /\ \A u \in Users : u # v[1] => cachedMe'[u] = cachedMe[u]
        /\ cachedMe'[v[1]] \in {v[2], Missing, Unreadable}
        /\ cachedMe'[v[1]] \notin {Missing, Unreadable} => cookie \in Sessions
        /\ lastUser' \in {v[1], lastUser, Nobody}
    <2>1. v[1] \in Users /\ v[2] \in Contexts \cup {NoContext}
      BY <1>2, AnswerParts
    <2>2. CASE /\ cachedMe' = [cachedMe EXCEPT ![v[1]] =
                      IF task[t].seal = "fresh" THEN v[2] ELSE Unreadable]
               /\ lastUser' = v[1]
      BY <1>2, <2>1, <2>2, Held DEF Stores
    <2>3. CASE /\ cachedMe' = WithoutMe(v[1])
               /\ lastUser' = IF lastUser = v[1] THEN Nobody ELSE lastUser
      BY <2>1, <2>3, Held DEF Stores, WithoutMe
    <2> QED
      BY <1>1, <2>2, <2>3 DEF MeCached
  <1>4. Keys'
    <2> SUFFICES ASSUME NEW u \in Users, cachedMe'[u] \notin {Missing, Unreadable}
                 PROVE  Answer(<<u, cachedMe'[u]>>) /\ cookie \in Sessions /\ cookie[1] = u
      BY DEF Keys, MeCached
    <2>1. CASE u = v[1]
      <3>1. cachedMe'[u] = v[2] /\ cookie \in Sessions
        BY <1>3, <2>1
      <3> QED
        BY <1>2, <2>1, <3>1, AnswerParts
    <2>2. CASE u # v[1]
      BY <1>3, <2>2, Held DEF Stores, Keys
    <2> QED
      BY <2>1, <2>2
  <1>5. SignedOutLeavesNothing'
    BY <1>2, <1>3, Held, Apart DEF MeCached, Stores, SignedOutLeavesNothing, UserOf
  <1>6. (context' \in Contexts \cup {NoContext} /\ page' \in Pages \cup {"login"}) => Stores'
    BY <1>2, <1>3, <1>4, <1>5, AnswerParts, Held DEF MeCached, Stores, CacheTrue
  <1> QED
    BY <1>2, <1>6, GoesOnKeeps DEF MeCached, Unsynced

LEMMA MeUnansweredKeeps ==
    ASSUME OneTask, ClientInv, NEW t \in Tasks, MeUnanswered(t)
    PROVE  ClientInv'
  <1>1. PICK v \in {Missing} \cup {<<u, cachedMe[u]>> : u \in {lastUser} \ {Nobody}} :
            /\ v # Missing => Restorable
            /\ Becomes(t, [Done EXCEPT !.pc = "restoring", !.of = task[t].pc,
                               !.page = task[t].page, !.who = lastUser, !.got = v])
    BY DEF MeUnanswered
  <1>2. PICK of, p, who : of = task[t].pc /\ p = task[t].page /\ who = lastUser
    OBVIOUS
  <1>3. /\ of \in {"guard", "bootstrap"} /\ p \in Pages \cup {"login"}
        /\ who \in Users \cup {Nobody} /\ (of = "guard" => context = NoContext)
    BY <1>2, Held DEF MeUnanswered, Bootstraps, Task, Stores, Awaiting
  <1>4. v # Missing => Answer(v) /\ cookie \in Sessions /\ cookie[1] = v[1]
    <2> SUFFICES ASSUME v # Missing PROVE Answer(v) /\ cookie \in Sessions /\ cookie[1] = v[1]
      OBVIOUS
    <2>1. v = <<lastUser, cachedMe[lastUser]>> /\ lastUser \in Users
      BY <1>1, <1>2, <1>3
    <2>2. cachedMe[lastUser] \notin {Missing, Unreadable}
      BY <1>1, Apart DEF Restorable
    <2> QED
      BY <2>1, <2>2, Held DEF Stores, Keys
  <1>5. PICK next : next = [Done EXCEPT !.pc = "restoring", !.of = of, !.page = p,
                                        !.who = who, !.got = v]
    OBVIOUS
  <1>6. /\ next \in Task /\ next.pc = "restoring" /\ next.of = of /\ next.sent = Missing
        /\ next.got = v
    <2>1. PICK a : a = [Done EXCEPT !.pc = "restoring", !.of = of]
      OBVIOUS
    <2>2. a \in Task /\ a.pc = "restoring" /\ a.of = of /\ a.sent = Missing
      BY <1>3, <2>1, DoneIdle DEF Task
    <2>3. PICK b : b = [a EXCEPT !.page = p]
      OBVIOUS
    <2>4. b \in Task /\ b.pc = "restoring" /\ b.of = of /\ b.sent = Missing
      BY <1>3, <2>2, <2>3 DEF Task
    <2>5. next = [b EXCEPT !.who = who, !.got = v]
      <3>1. next = [Done EXCEPT !.pc = "restoring", !.of = of, !.page = p,
                                !.who = who, !.got = v]
        BY <1>5
      <3>2. b = [Done EXCEPT !.pc = "restoring", !.of = of, !.page = p]
        BY <2>1, <2>3, DoneIdle DEF Task
      <3> QED
        BY <3>1, <3>2, DoneIdle DEF Task
    <2>6. v \in Identities \cup {Missing}
      BY <1>4, AnswerParts
    <2>7. PICK c : c = [b EXCEPT !.who = who]
      OBVIOUS
    <2>8. c \in Task /\ c.pc = "restoring" /\ c.of = of /\ c.sent = Missing
      BY <1>3, <2>4, <2>7 DEF Task
    <2>9. next = [c EXCEPT !.got = v]
      BY <2>4, <2>5, <2>7 DEF Task
    <2> QED
      BY <2>6, <2>8, <2>9 DEF Task
  <1>7. Awaiting(next)'
    BY <1>3, <1>4, <1>6 DEF Awaiting, MeUnanswered
  <1>8. Becomes(t, next)
    BY <1>1, <1>2, <1>5
  <1>9. Unsynced(task[t]) /\ Unsynced(next)
    BY <1>2, <1>3, <1>6 DEF Unsynced
  <1> QED
    BY <1>6, <1>7, <1>8, <1>9, Asks, Held DEF MeUnanswered

LEMMA MeRestoredKeeps ==
    ASSUME OneTask, ClientInv, NEW t \in Tasks, MeRestored(t)
    PROVE  ClientInv'
  <1>1. PICK v : v = task[t].got
    OBVIOUS
  <1>2. /\ Answer(v) /\ auth' = v /\ v # Missing /\ left' = left \ {v[1]}
        /\ stale' = (cookie # v) /\ Unsynced(task[t])
        /\ \A c \in {cookie} \cap Sessions : v[1] = c[1]
        /\ task[t].of # "login" /\ (task[t].of = "guard" => context = NoContext)
    BY <1>1, Held DEF MeRestored, Awaiting, Unsynced
  <1>3. (context' \in Contexts \cup {NoContext} /\ page' \in Pages \cup {"login"}) => Stores'
    BY <1>2, ShownStores, Held DEF MeRestored, Stores
  <1> QED
    BY <1>2, <1>3, GoesOnKeeps DEF MeRestored

\* Answers that are removed are missed by nobody.
LEMMA FewerCached ==
    ASSUME Stores, cachedMe' \in [Users -> Contexts \cup {NoContext, Missing, Unreadable}],
           \A u \in Users : \/ cachedMe'[u] = Missing
                            \/ cachedMe'[u] = cachedMe[u] /\ cookie' = cookie
                            \/ cachedMe'[u] = Unreadable /\ cachedMe[u] # Missing,
           lastUser' \in {lastUser, Nobody},
           auth' # Missing => Answer(auth'), cookie' \in Sessions \cup {Missing},
           context' \in Contexts \cup {NoContext}, page' \in Pages \cup {"login"},
           stale' \in BOOLEAN,
           UNCHANGED <<online, frozen, cache, queue, left>>
    PROVE  Stores'
  <1>1. Keys'
    BY DEF Stores, Keys
  <1>2. SignedOutLeavesNothing'
    <2>1. Nobody \notin left
      BY Apart DEF Stores
    <2> QED
      BY <2>1 DEF Stores, SignedOutLeavesNothing, UserOf
  <1> QED
    BY <1>1, <1>2 DEF Stores, CacheTrue

LEMMA MeFailedKeeps ==
    ASSUME OneTask, ClientInv, NEW t \in Tasks, MeFailed(t)
    PROVE  ClientInv'
  <1>1. /\ auth' = Missing /\ stale' = FALSE /\ Unsynced(task[t]) /\ lastUser' = Nobody
        /\ task[t].of # "login" /\ (task[t].of = "guard" => context = NoContext)
    BY Held DEF MeFailed, Awaiting, Unsynced
  <1>2. /\ cachedMe' \in [Users -> Contexts \cup {NoContext, Missing, Unreadable}]
        /\ \A u \in Users : cachedMe'[u] \in {Missing, cachedMe[u]}
    BY Held DEF MeFailed, Stores
  <1>3. (context' \in Contexts \cup {NoContext} /\ page' \in Pages \cup {"login"}) => Stores'
    BY <1>1, <1>2, FewerCached, Held DEF MeFailed
  <1> QED
    BY <1>1, <1>3, GoesOnKeeps DEF MeFailed


LEMMA ContextSwitchedKeeps ==
    ASSUME OneTask, ClientInv, NEW t \in Tasks, ContextSwitched(t)
    PROVE  ClientInv'
  <1>1. PICK s : s = <<task[t].sent[1], task[t].to>>
    OBVIOUS
  <1>2. PICK next : next = Awaits("switchMe", task[t].page, s)
    OBVIOUS
  <1>3. /\ s \in Sessions /\ cookie' = s /\ context' = s[2] /\ Becomes(t, next)
        /\ task[t].sent \in Sessions /\ s[1] = task[t].sent[1]
    BY <1>1, <1>2 DEF ContextSwitched, Answerable, SwitchesTo
  <1>4. next \in Task /\ next.pc = "switchMe" /\ next.sent \in {s, Unsent} /\ next.of = "none"
    <2>1. task[t].page \in Pages \cup {"login"}
      BY Held DEF Task
    <2> QED
      BY <1>2, <1>3, <2>1, Held, AwaitsFields
  <1>5. auth # Missing /\ auth[1] = s[1] /\ auth[1] \notin left
        /\ (cookie \in Sessions => cookie[1] = s[1])
    BY <1>3, IdleSettled, Held DEF ContextSwitched, Awaiting, Follows, Known, Settled
  <1>6. Stores'
    <2>1. Keys'
      BY <1>3, <1>5, Held DEF ContextSwitched, Stores, Keys
    <2>2. SignedOutLeavesNothing' /\ CacheTrue'
      BY Held DEF ContextSwitched, Stores, SignedOutLeavesNothing, UserOf, CacheTrue
    <2> QED
      BY <1>3, <2>1, <2>2, SessionParts, Held DEF ContextSwitched, Stores
  <1>7. Follows(next)'
    <2>1. ShownScope' = <<s[1], s[2]>>
      BY <1>3, <1>5, SessionParts DEF ContextSwitched, ShownScope, Scope
    <2>2. ShownScope' = s
      BY <1>3, <2>1, SessionParts
    <2> QED
      BY <1>3, <1>4, <1>5, <2>2, Apart DEF ContextSwitched, Follows, Known, Entering
  <1>8. Awaiting(next)'
    BY <1>4 DEF Awaiting
  <1> QED
    BY <1>3, <1>4, <1>6, <1>7, <1>8, Held, Sole

LEMMA SwitchShownKeeps ==
    ASSUME OneTask, ClientInv, NEW t \in Tasks, SwitchShown(t)
    PROVE  ClientInv'
  <1>1. PICK v \in Answers(task[t].sent) :
          /\ auth' = v /\ context' = v[2] /\ stale' = (v # task[t].sent)
          /\ left' = left \ {v[1]}
    BY DEF SwitchShown
  <1>2. /\ task[t].sent \in Sessions /\ cookie \in {task[t].sent, Missing}
        /\ Answer(v) /\ v[1] = task[t].sent[1]
    BY <1>1, Held, SessionAnswers DEF SwitchShown, Answerable, Follows
  <1>3. PICK next : next = IF task[t].page = "search" THEN Reads("search", Missing)
                           ELSE Awaits("bootstrap", task[t].page, cookie)
    OBVIOUS
  <1>4. /\ next \in Task /\ next.sent \in {cookie, Unsent} /\ next.of = "none"
        /\ next.pc = "bootstrap" \/ (next.pc = "read" /\ next.page = "search")
    <2>1. task[t].page \in Pages \cup {"login"}
      BY Held DEF Task
    <2>2. Reads("search", Missing) \in Task /\ Reads("search", Missing).pc = "read"
          /\ Reads("search", Missing).page = "search"
          /\ Reads("search", Missing).sent \in {cookie, Unsent}
          /\ Reads("search", Missing).of = "none"
      BY ReadsFields DEF Pages, Scopes
    <2> QED
      BY <1>3, <2>1, <2>2, Held, AwaitsFields
  <1>5. Becomes(t, next)
    BY <1>3 DEF SwitchShown
  <1>6. Stores'
    BY <1>1, <1>2, AnswerParts, ShownStores, Held DEF SwitchShown, Stores
  <1>7. Follows(next)'
    <2>1. ShownScope' = Missing \/ (ShownScope' = v /\ v \in Sessions)
      BY <1>1, <1>2, AnswerParts DEF ShownScope, Scope
    <2>2. cookie' = cookie /\ Known(next)' \subseteq {task[t].sent}
      BY <1>2, <1>4, Apart DEF SwitchShown, Known
    <2>3. auth'[1] \notin left' /\ auth'[1] = task[t].sent[1]
          /\ (stale' \/ v = task[t].sent)
      BY <1>1, <1>2
    <2>4. next.pc \notin {"clearing", "loginMe"}
      BY <1>4
    <2>5. next.sent \in Sessions => cookie' \in {next.sent, Missing}
      BY <1>4, <2>2, Apart
    <2> QED
      BY <2>1, <2>2, <2>3, <2>4, <2>5 DEF Follows, Entering
  <1>8. Awaiting(next)'
    BY <1>4 DEF Awaiting, Pages
  <1> QED
    BY <1>4, <1>5, <1>6, <1>7, <1>8, Held, Sole

\* What the browser keeps when a user's artifacts are cleared.
LEMMA Emptied ==
    ASSUME Stores, NEW user \in Users
    PROVE  /\ CacheWithout(user) \in [Scopes -> Sessions \cup {Missing}]
           /\ QueueWithout(user) \in [Items -> Scopes]
           /\ \A s \in Scopes : /\ CacheWithout(user)[s] \in {cache[s], Missing}
                                /\ UserOf(CacheWithout(user)[s]) # user
                                /\ s # Missing /\ s[1] = user => CacheWithout(user)[s] = Missing
           /\ \A i \in Items : /\ QueueWithout(user)[i] \in {queue[i], Missing}
                               /\ UserOf(QueueWithout(user)[i]) # user
  <1>1. \A s \in Scopes : cache[s] \in Sessions \cup {Missing}
                          /\ (cache[s] # Missing => s # Missing /\ cache[s][1] = s[1])
    BY DEF Stores, CacheTrue
  <1>2. \A i \in Items : queue[i] \in Scopes
    BY DEF Stores
  <1>3. user # Nobody /\ Missing \in Scopes
    BY Apart DEF Scopes
  <1> QED
    BY <1>1, <1>2, <1>3 DEF CacheWithout, QueueWithout, UserOf

\* Clearing a user's artifacts leaves the stores as they should be.
LEMMA ClearsStores ==
    ASSUME Stores, NEW user \in Users, NEW cached, ClearArtifacts(user, cached),
           cached \in [Users -> Contexts \cup {NoContext, Missing, Unreadable}],
           cached[user] = Missing,
           \A u \in Users : \/ cached[u] = Missing
                            \/ cached[u] = cachedMe[u] /\ cookie' = cookie
                            \/ cached[u] = Unreadable /\ cachedMe[u] # Missing,
           cookie' \in {cookie, Missing},
           UNCHANGED <<online, frozen, auth, context, page, stale>>
    PROVE  Stores'
  <1>1. /\ cachedMe' = cached /\ lastUser' \in {lastUser, Nobody} /\ lastUser' # user
        /\ cache' = CacheWithout(user) /\ queue' = QueueWithout(user)
        /\ left' = left \cup {user}
    BY Apart DEF ClearArtifacts
  <1>2. /\ cache' \in [Scopes -> Sessions \cup {Missing}] /\ queue' \in [Items -> Scopes]
        /\ \A s \in Scopes : /\ cache'[s] \in {cache[s], Missing}
                             /\ UserOf(cache'[s]) # user
                             /\ s # Missing /\ s[1] = user => cache'[s] = Missing
        /\ \A i \in Items : queue'[i] \in {queue[i], Missing} /\ UserOf(queue'[i]) # user
    BY <1>1, Emptied
  <1>3. CacheTrue'
    BY <1>2 DEF Stores, CacheTrue
  <1>4. Keys'
    BY <1>1, Apart DEF Stores, Keys
  <1>5. SignedOutLeavesNothing'
    <2> SUFFICES ASSUME NEW u \in left \cup {user}
                 PROVE  /\ cachedMe'[u] = Missing /\ lastUser' # u
                        /\ \A s \in Scopes : UserOf(cache'[s]) # u
                        /\ \A s \in Sessions : s[1] = u => cache'[s] = Missing
                        /\ \A i \in Items : UserOf(queue'[i]) # u
      BY <1>1 DEF SignedOutLeavesNothing
    <2>1. u \in Users /\ u # Nobody
      BY Apart DEF Stores
    <2>2. CASE u = user
      BY <1>1, <1>2, <2>2, SessionParts DEF Scopes
    <2>3. CASE u \in left
      <3>1. /\ cachedMe[u] = Missing /\ lastUser # u
            /\ \A s \in Scopes : UserOf(cache[s]) # u
            /\ \A s \in Sessions : s[1] = u => cache[s] = Missing
            /\ \A i \in Items : UserOf(queue[i]) # u
        BY <2>3 DEF Stores, SignedOutLeavesNothing
      <3>2. cachedMe'[u] = Missing /\ lastUser' # u
        BY <1>1, <2>1, <3>1, Apart
      <3>3. UserOf(Missing) = Nobody
        BY DEF UserOf
      <3>4. \A s \in Scopes : UserOf(cache'[s]) # u
        BY <1>2, <2>1, <3>1, <3>3
      <3>5. \A s \in Sessions : s[1] = u => cache'[s] = Missing
        BY <1>2, <3>1 DEF Scopes
      <3>6. \A i \in Items : UserOf(queue'[i]) # u
        BY <1>2, <2>1, <3>1, <3>3
      <3> QED
        BY <3>2, <3>4, <3>5, <3>6
    <2> QED
      BY <2>2, <2>3
  <1> QED
    BY <1>1, <1>2, <1>3, <1>4, <1>5, Apart DEF Stores

LEMMA WithoutMeFields ==
    ASSUME Stores, NEW user
    PROVE  /\ WithoutMe(user) \in [Users -> Contexts \cup {NoContext, Missing, Unreadable}]
           /\ \A u \in Users : /\ WithoutMe(user)[u] \in {cachedMe[u], Missing}
                               /\ u = user => WithoutMe(user)[u] = Missing
  BY DEF Stores, WithoutMe

LEMMA LoggedOutKeeps ==
    ASSUME OneTask, ClientInv, NEW t \in Tasks, LoggedOut(t)
    PROVE  ClientInv'
  <1>1. PICK user, job : user = task[t].who /\ job = task[t]
    OBVIOUS
  <1>2. /\ user \in Users \cup {Nobody} /\ job \in Task /\ job.pc = "logout"
        /\ Settled(job) /\ Follows(job)
    BY <1>1, Held, IdleSettled DEF LoggedOut, Task
  <1>3. PICK answered \in BOOLEAN :
          /\ cookie' = IF answered THEN Missing ELSE cookie
          /\ \/ user # Nobody /\ ClearArtifacts(user,
                   IF answered THEN Unkeyed(WithoutMe(user)) ELSE WithoutMe(user))
             \/ /\ user = Nobody /\ lastUser' = Nobody
                /\ cachedMe' = IF answered THEN Unkeyed(WithoutMe(lastUser))
                               ELSE WithoutMe(lastUser)
                /\ UNCHANGED <<cache, queue, left>>
          /\ task' = [u \in Tasks |->
                 IF u # t THEN IF answered THEN Outdated(task[u]) ELSE task[u]
                 ELSE [task[t] EXCEPT !.pc = "clearing", !.of = "logout",
                                      !.page = IF answered THEN "login" ELSE @]]
    BY <1>1 DEF LoggedOut, Answerable
  <1>4. PICK p : p = IF answered THEN "login" ELSE job.page
    OBVIOUS
  <1>5. PICK next : next = [job EXCEPT !.pc = "clearing", !.of = "logout", !.page = p]
    OBVIOUS
  <1>6. /\ next \in Task /\ next.pc = "clearing" /\ next.of = "logout"
        /\ next.sent = job.sent
    <2>1. p \in Pages \cup {"login"}
      BY <1>2, <1>4 DEF Task
    <2> QED
      BY <1>2, <1>5, <2>1 DEF Task
  <1>7. Becomes(t, next)
    <2>1. task' = [u \in Tasks |-> task'[u]] /\ task'[t] = next
      BY <1>1, <1>3, <1>4, <1>5, <1>2 DEF Task
    <2> QED
      BY <1>6, <2>1, Held, SoleBecomes
  <1>8. Stores'
    <2> DEFINE kept(gone) == IF answered THEN Unkeyed(WithoutMe(gone)) ELSE WithoutMe(gone)
    <2>1. ASSUME NEW gone
          PROVE  /\ kept(gone) \in [Users -> Contexts \cup {NoContext, Missing, Unreadable}]
                 /\ \A u \in Users :
                      /\ \/ kept(gone)[u] = Missing
                         \/ kept(gone)[u] = cachedMe[u] /\ cookie' = cookie
                         \/ kept(gone)[u] = Unreadable /\ cachedMe[u] # Missing
                      /\ u = gone => kept(gone)[u] = Missing
      <3>1. /\ WithoutMe(gone) \in [Users -> Contexts \cup {NoContext, Missing, Unreadable}]
            /\ \A u \in Users : /\ WithoutMe(gone)[u] \in {cachedMe[u], Missing}
                                /\ u = gone => WithoutMe(gone)[u] = Missing
        BY Held, WithoutMeFields
      <3> QED
        BY <1>3, <3>1, UnkeyedCached
    <2> HIDE DEF kept
    <2>2. CASE user # Nobody
      <3>1. user \in Users /\ ClearArtifacts(user, kept(user))
        BY <1>2, <1>3, <2>2 DEF kept
      <3>2. UNCHANGED <<online, frozen, auth, context, page, stale>>
            /\ cookie' \in {cookie, Missing}
        BY <1>3 DEF LoggedOut
      <3> QED
        BY <2>1, <3>1, <3>2, ClearsStores, Held
    <2>3. CASE user = Nobody
      <3>1. /\ cachedMe' = kept(lastUser) /\ lastUser' = Nobody
            /\ UNCHANGED <<cache, queue, left>>
        BY <1>3, <2>3 DEF kept
      <3>2. /\ UNCHANGED <<online, frozen, auth, context, page, stale>>
            /\ cookie' \in {cookie, Missing}
        BY <1>3 DEF LoggedOut
      <3>3. /\ cookie' \in Sessions \cup {Missing} /\ (auth' # Missing => Answer(auth'))
            /\ context' \in Contexts \cup {NoContext} /\ page' \in Pages \cup {"login"}
            /\ stale' \in BOOLEAN
        BY <3>2, Held DEF Stores
      <3>4. /\ cachedMe' \in [Users -> Contexts \cup {NoContext, Missing, Unreadable}]
            /\ \A u \in Users : \/ cachedMe'[u] = Missing
                                \/ cachedMe'[u] = cachedMe[u] /\ cookie' = cookie
                                \/ cachedMe'[u] = Unreadable /\ cachedMe[u] # Missing
        BY <2>1, <3>1
      <3> QED
        BY <3>1, <3>2, <3>3, <3>4, FewerCached, Held
    <2> QED
      BY <2>2, <2>3
  <1>9. Follows(next)'
    <2>1. ShownScope' = ShownScope /\ cookie' \in {cookie, Missing}
          /\ UNCHANGED <<auth, stale>>
      BY <1>3 DEF LoggedOut, ShownScope
    <2> QED
      BY <1>2, <1>6, <2>1, Apart DEF Follows, Known, Settled, Entering, Unsynced
  <1>10. Awaiting(next)'
    BY <1>6 DEF Awaiting
  <1> QED
    BY <1>6, <1>7, <1>8, <1>9, <1>10, Held, Sole

\* Nobody is shown any more.
LEMMA ShowsNobody ==
    ASSUME OneTask, ClientInv, NEW t \in Tasks, Ends(t), auth' = Missing, stale' = FALSE,
           page' \in Pages \cup {"login"},
           UNCHANGED <<online, frozen, cookie, context, cachedMe, lastUser, cache, queue, left>>
    PROVE  ClientInv'
  <1>1. Stores'
    <2>1. Keys' /\ CacheTrue'
      BY Held DEF Stores, Keys, CacheTrue
    <2>2. SignedOutLeavesNothing'
      BY Held DEF Stores, SignedOutLeavesNothing, UserOf
    <2> QED
      BY <2>1, <2>2, Held DEF Stores
  <1>2. Follows(Done)' /\ Awaiting(Done)'
    BY DoneIdle, Apart DEF Follows, Awaiting
  <1> QED
    BY <1>1, <1>2, DoneIdle, Held, Sole DEF Ends

LEMMA SignedOutKeeps ==
    ASSUME OneTask, ClientInv, NEW t \in Tasks, SignedOut(t)
    PROVE  ClientInv'
  <1>1. page' \in Pages \cup {"login"}
    BY Held DEF SignedOut
  <1> QED
    BY <1>1, ShowsNobody DEF SignedOut

LEMMA SignInFailedKeeps ==
    ASSUME OneTask, ClientInv, NEW t \in Tasks, SignInFailed(t)
    PROVE  ClientInv'
  <1>1. page' \in Pages \cup {"login"}
    BY Held DEF SignInFailed
  <1> QED
    BY <1>1, ShowsNobody DEF SignInFailed

\* The new cookie is another user's, perhaps: what could be decrypted until
\* then cannot be any more.
LEMMA LoggedInKeeps ==
    ASSUME OneTask, ClientInv, NEW t \in Tasks, NEW s \in Sessions, LoggedIn(t, s)
    PROVE  ClientInv'
  <1>1. PICK a, who : a = Awaits("loginMe", "dashboard", s) /\ who = task[t].who
    OBVIOUS
  <1>2. PICK next : next = [a EXCEPT !.who = who]
    OBVIOUS
  <1>3. /\ a \in Task /\ a.pc = "loginMe" /\ a.page = "dashboard" /\ a.sent \in {s, Unsent}
        /\ a.of = "none" /\ who \in Users \cup {Nobody}
    BY <1>1, Held, AwaitsFields DEF Pages, Task
  <1>4. /\ next \in Task /\ next.pc = "loginMe" /\ next.page = "dashboard"
        /\ next.sent \in {s, Unsent} /\ next.of = "none"
    BY <1>2, <1>3 DEF Task
  <1>5. Becomes(t, next)
    <2>1. task' = [u \in Tasks |-> task'[u]] /\ task'[t] = next
      BY <1>1, <1>2 DEF LoggedIn
    <2> QED
      BY <1>4, <2>1, Held, SoleBecomes
  <1>6. Stores'
    <2>1. /\ cachedMe' \in [Users -> Contexts \cup {NoContext, Missing, Unreadable}]
          /\ \A u \in Users : /\ cachedMe'[u] \in {Missing, Unreadable}
                              /\ cachedMe[u] = Missing => cachedMe'[u] = Missing
      BY UnkeyedCached, Held DEF LoggedIn, Stores
    <2>2. SignedOutLeavesNothing'
      BY <2>1, Held DEF LoggedIn, Stores, SignedOutLeavesNothing, UserOf
    <2> QED
      BY <2>1, <2>2, Held DEF LoggedIn, Stores, Keys, CacheTrue
  <1>7. Follows(next)'
    <2>1. auth # Missing => auth[1] \notin left
      BY Held DEF LoggedIn, Follows
    <2>2. Entering(next)
      BY <1>4 DEF Entering
    <2> QED
      BY <1>4, <2>1, <2>2, Apart DEF LoggedIn, Follows, Entering
  <1>8. Awaiting(next)'
    BY <1>4 DEF Awaiting
  <1> QED
    BY <1>4, <1>5, <1>6, <1>7, <1>8, Held, Sole

LEMMA ReplacesKeeps ==
    ASSUME OneTask, ClientInv, NEW t \in Tasks, Replaces(t)
    PROVE  ClientInv'
  <1>1. PICK v \in Answers(task[t].sent) :
          Becomes(t, [task[t] EXCEPT !.pc = "clearing", !.of = "login", !.got = v])
    BY DEF Replaces
  <1>2. PICK job, user : job = task[t] /\ user = task[t].who
    OBVIOUS
  <1>3. /\ job \in Task /\ job.sent \in Sessions /\ job.page = "dashboard"
        /\ Answer(v) /\ v \in Identities /\ v[1] = job.sent[1] /\ user \in Users
        /\ cookie \in {job.sent, Missing}
    BY <1>1, <1>2, SessionAnswers, AnswerParts, Held
       DEF Replaces, Answerable, Awaiting, Task, Follows
  <1>4. PICK next : next = [job EXCEPT !.pc = "clearing", !.of = "login", !.got = v]
    OBVIOUS
  <1>5. /\ next \in Task /\ next.pc = "clearing" /\ next.of = "login" /\ next.got = v
        /\ next.sent = job.sent /\ next.page = "dashboard"
    BY <1>3, <1>4 DEF Task
  <1>6. Becomes(t, next)
    BY <1>1, <1>2, <1>4
  <1>7. Stores'
    <2>1. ClearArtifacts(user, WithoutMe(user))
          /\ UNCHANGED <<online, frozen, cookie, auth, context, page, stale>>
      BY <1>2 DEF Replaces
    <2>2. /\ WithoutMe(user) \in [Users -> Contexts \cup {NoContext, Missing, Unreadable}]
          /\ WithoutMe(user)[user] = Missing
          /\ \A u \in Users : WithoutMe(user)[u] \in {cachedMe[u], Missing}
      BY <1>3, Held, WithoutMeFields
    <2> QED
      BY <1>3, <2>1, <2>2, ClearsStores, Held
  <1>8. Follows(next)'
    <2>1. Entering(next) /\ cookie' = cookie
      BY <1>5 DEF Entering, Replaces
    <2> QED
      BY <1>3, <1>5, <2>1 DEF Follows, Entering
  <1>9. Awaiting(next)'
    BY <1>3, <1>5 DEF Awaiting
  <1> QED
    BY <1>5, <1>6, <1>7, <1>8, <1>9, Held, Sole

-----------------------------------------------------------------------------
LEMMA NextClient ==
    ASSUME OneTask, ClientInv, [ClientNext]_clientVars
    PROVE  ClientInv'
  <1>1. CASE ClientNext
    BY <1>1, ReloadKeeps, OpenPageKeeps, SearchKeeps, EnqueueKeeps, EnqueuedKeeps,
       EnqueueFailedKeeps, RetryKeeps, GoOfflineKeeps, GoOnlineKeeps, HandleReconnectKeeps,
       SessionExpiresKeeps, SetFrozenKeeps, SwitchContextKeeps, SignInKeeps, SignOutKeeps,
       MeAnsweredKeeps, MeCachedKeeps, MeUnansweredKeeps, MeRestoredKeeps, MeFailedKeeps,
       ContextsLoadedKeeps, ReadAnsweredKeeps, ReadFailedKeeps, PostedKeeps,
       PostFailedKeeps, ContextSwitchedKeeps, SwitchShownKeeps, SwitchFailedKeeps,
       LoggedOutKeeps, SignedOutKeeps, LoggedInKeeps, SignedInKeeps, ReplacesKeeps,
       ReplacedKeeps, SignInFailedKeeps, Zenon DEF ClientNext
  <1>2. CASE UNCHANGED clientVars
    <2>1. Stores'
      BY <1>2, StoresKept DEF clientVars, ClientInv, Stores
    <2> QED
      BY <1>2, <2>1, Rests DEF clientVars
  <1> QED
    BY <1>1, <1>2

LEMMA ClientInvariant == OneTask => (ClientSpec => []ClientInv)
  <1> SUFFICES ASSUME OneTask PROVE ClientSpec => []ClientInv
    OBVIOUS
  <1>1. ClientInv /\ [ClientNext]_clientVars => ClientInv'
    BY NextClient
  <1> QED
    BY <1>1, InitClient, PTL DEF ClientSpec

\* The stores, the storage and the handler keep their types: in particular no
\* write is queued, and no answer filed, under a user and a context that are
\* not a membership.
THEOREM ClientTypes == OneTask => (ClientSpec => []ClientTypeOK)
  <1> SUFFICES ASSUME OneTask PROVE ClientSpec => []ClientTypeOK
    OBVIOUS
  <1>1. ClientInv => ClientTypeOK
    BY AnswerParts DEF ClientInv, Stores, ClientTypeOK
  <1> QED
    BY <1>1, ClientInvariant, PTL

\* A user who signed out, or was shown when another signed in, leaves nothing
\* behind in the browser until he is signed in again, whichever request of a
\* sign-in or a sign-out fails (signOut, signIn, clearUserOfflineArtifacts).
THEOREM LeavesNothing == OneTask => (ClientSpec => []SignedOutLeavesNothing)
  <1> SUFFICES ASSUME OneTask PROVE ClientSpec => []SignedOutLeavesNothing
    OBVIOUS
  <1>1. ClientInv => SignedOutLeavesNothing
    BY DEF ClientInv, Stores
  <1> QED
    BY <1>1, ClientInvariant, PTL

-----------------------------------------------------------------------------
(* What is filed and committed.                                            *)

Serves ==
    /\ \A s \in Scopes : cache'[s] \notin {cache[s], Missing} =>
           s # Missing /\ cache'[s][1] = s[1] /\ (cache'[s] = s \/ stale)
    /\ \A t \in Tasks : Posted(t) =>
           LET scope == queue[task[t].item] IN
           task[t].sent[1] = scope[1] /\ (task[t].sent = scope \/ stale)

\* Only the answer to a page's read adds to the cache.
LEMMA CacheOnlyLoses ==
    ASSUME ClientInv, ClientNext, ~ \E t \in Tasks : ReadAnswered(t), NEW s \in Scopes
    PROVE  cache'[s] \in {cache[s], Missing}
  <1>1. CASE \E t \in Tasks : LoggedOut(t)
    BY <1>1 DEF LoggedOut, ClearArtifacts, CacheWithout
  <1>2. CASE \E t \in Tasks : Replaces(t)
    BY <1>2 DEF Replaces, ClearArtifacts, CacheWithout
  <1>3. CASE cache' = cache
    BY <1>3
  <1> QED
    BY <1>1, <1>2, <1>3
       DEF ClientNext, Reload, OpenPage, Search, Enqueue, Enqueued, EnqueueFailed, Retry,
           GoOffline, GoOnline, HandleReconnect, SessionExpires, SetFrozen, SwitchContext,
           SignIn, SignOut, MeAnswered, MeCached, MeUnanswered, MeRestored, MeFailed,
           ContextsLoaded, ReadFailed, Posted, PostFailed, ContextSwitched, SwitchShown,
           SwitchFailed, SignedOut, LoggedIn, SignedIn, Replaced, SignInFailed

LEMMA StepServes ==
    ASSUME OneTask, ClientInv, [ClientNext]_clientVars
    PROVE  Serves
  <1>1. ASSUME NEW s \in Scopes, cache'[s] \notin {cache[s], Missing}
        PROVE  s # Missing /\ cache'[s][1] = s[1] /\ (cache'[s] = s \/ stale)
    <2>1. ClientNext
      BY <1>1 DEF clientVars
    <2>2. PICK t \in Tasks : ReadAnswered(t)
      BY <1>1, <2>1, CacheOnlyLoses
    <2>3. cache'[s] = IF s \in FiledUnder(t) THEN task[t].sent ELSE cache[s]
      BY <2>2 DEF ReadAnswered
    <2>4. s \in FiledUnder(t) /\ cache'[s] = task[t].sent
      BY <1>1, <2>3
    <2>5. task[t].pc = "read" /\ task[t].sent \in Sessions
      BY <2>2 DEF ReadAnswered, Served
    <2> QED
      BY <2>4, <2>5, FiledIsShown, Apart
  <1>2. ASSUME NEW t \in Tasks, Posted(t)
        PROVE  /\ task[t].sent[1] = queue[task[t].item][1]
               /\ task[t].sent = queue[task[t].item] \/ stale
    <2>1. task[t].pc = "post" /\ task[t].sent \in Sessions
      BY <1>2 DEF Posted, Served
    <2>2. queue[task[t].item] = ShownScope /\ ShownScope \in Sessions
      BY <2>1, Held DEF Awaiting
    <2>3. Settled(task[t]) /\ task[t].sent \in Known(task[t]) /\ ShownScope # Missing
      BY <2>1, <2>2, IdleSettled, Apart DEF Known
    <2> QED
      BY <2>2, <2>3, ShownScopeTyped
  <1> QED
    BY <1>1, <1>2 DEF Serves

\* Answers are filed, and queued writes committed, for the user the server took
\* them for, and under his context too, but after a start from an old cached
\* session or an answer given while the membership was frozen (scopeKey and
\* processScope against the session token).
THEOREM InContext == OneTask => (ClientSpec => ServedInContext)
  <1> SUFFICES ASSUME OneTask PROVE ClientSpec => ServedInContext
    OBVIOUS
  <1>1. ClientInv /\ [ClientNext]_clientVars => [Serves]_clientVars
    BY StepServes
  <1>2. ClientSpec => [][Serves]_clientVars
    BY <1>1, ClientInvariant, PTL DEF ClientSpec
  <1> QED
    BY <1>2 DEF ServedInContext, Serves
=============================================================================
