---------------------------- MODULE ClientSession ----------------------------
(***************************************************************************)
(* Who the browser believes to be signed in, in which context, and what it *)
(* keeps for being offline: the stores of web/src/stores/auth.ts and       *)
(* context.ts, the caches of offline/readCache.ts, the scopes of the write *)
(* queue, and the handlers of the views that use them.                     *)
(*                                                                         *)
(* The server knows the user and the context from the cookie alone; the    *)
(* browser files what it reads, and what it wants to write, under the      *)
(* scope its stores show, user and context.  Nothing in a request names    *)
(* the scope.  A handler is a task that awaits one thing at a time, an     *)
(* answer, an encryption or a decryption; what it does between two awaits  *)
(* is one step.  A request carries the cookie of the moment it is sent,    *)
(* and its answer arrives whole, as the server would give it then, or not  *)
(* at all.                                                                 *)
(*                                                                         *)
(* Three pages stand for all: "dashboard" takes the scope before it asks,  *)
(* "search" (directory and repertoire) when the answer is there, and       *)
(* "ordering" drains the queue first.                                      *)
(*                                                                         *)
(* Left out: what the pages show, filters (one per page), the second       *)
(* fetch of a page, statuses of queued writes (OfflineQueue), ciphertexts  *)
(* except for whether they can be read, permissions, and the service       *)
(* worker, which keeps no answers of the API.                              *)
(***************************************************************************)
EXTENDS FiniteSets

CONSTANTS
    Sessions,       \* <<user, context>>: the memberships
    Freezable,      \* those an administrator may freeze
    Tasks,          \* handlers that can be in flight at once
    Items,          \* queued writes
    Nobody,         \* null as a user
    NoContext,      \* null as a context
    Missing,        \* no cookie, no session shown, no scope, no data, no item
    Unsent,         \* the cookie of a request that could not be sent
    Unreadable      \* a cached answer whose key is gone

Users == {s[1] : s \in Sessions}
Contexts == {s[2] : s \in Sessions}

ASSUME SessionsAssumption ==
    /\ Sessions = {s \in Users \X Contexts : s \in Sessions}
    /\ Freezable \subseteq Sessions
    /\ Nobody \notin Users
    /\ NoContext \notin Contexts
    /\ Missing \notin Users \X (Contexts \cup {NoContext})
    /\ {Missing, Unsent} \cap (Sessions \cup Items) = {}
    /\ {Missing, Unreadable} \cap (Contexts \cup {NoContext}) = {}
    /\ Missing \notin {Unsent, Unreadable}

VARIABLES
    online,     \* navigator.onLine
    frozen,     \* the memberships an administrator has frozen
    cookie,     \* the session of the cookie, or Missing
    auth,       \* user and activeContext of the auth store, or Missing
    context,    \* activeContext of the context store
    cachedMe,   \* context in the cached /auth/me answer of each user
    lastUser,   \* last_user_id
    cache,      \* whose answer the read cache holds for each scope
    queue,      \* context_key of each queued write, or Missing
    page,       \* the mounted view
    task,       \* what each handler awaits
    stale,      \* history: shown is an answer with another context than the
                \* cookie's: cached, or given while that one was frozen
    left        \* history: whom a sign-out, or the sign-in of another while he
                \* was shown, cleared, and who has not returned

clientVars == <<online, frozen, cookie, auth, context, cachedMe, lastUser, cache,
                queue, page, task, stale, left>>

-----------------------------------------------------------------------------
Pages == {"dashboard", "search", "ordering"}

Scopes == Sessions \cup {Missing}

\* What /auth/me answers: a user, and a context or none.
Identities == Users \X (Contexts \cup {NoContext})

\* sent is the cookie of the awaited request, key the scope taken before it,
\* who and to the user and context of a sign-in, a sign-out or a switch, todo
\* the items a drain has still to post and item the one it posts or the write
\* being encrypted.  "caching" awaits the encryption of the answer got, under a
\* key that is still the browser's if seal is "fresh", "restoring" the
\* decryption of a cached one, "clearing" notifyAuthBoundaryChange; of is the
\* handler they belong to.
Task == [pc : {"idle", "guard", "reconnect", "bootstrap", "caching", "restoring",
               "contexts", "read", "sealing", "post", "switch", "switchMe", "login",
               "loginMe", "logout", "clearing"},
         of : {"none", "guard", "bootstrap", "login", "logout"},
         page : Pages \cup {"login"},
         sent : Sessions \cup {Missing, Unsent}, key : Scopes,
         who : Users \cup {Nobody}, to : Users \cup Contexts \cup {NoContext},
         got : Identities \cup {Missing}, seal : {"none", "fresh", "old"},
         todo : SUBSET Items, item : Items \cup {Missing}]

Done == [pc |-> "idle", of |-> "none", page |-> "login", sent |-> Missing,
         key |-> Missing, who |-> Nobody, to |-> NoContext, got |-> Missing,
         seal |-> "none", todo |-> {}, item |-> Missing]

\* Faulty variant: only the context is looked at.
ScopeWithoutUser(a, k) == IF k = NoContext THEN Missing ELSE <<IF a = Missing THEN Nobody ELSE a[1], k>>

\* scopeKey, where a is the auth store's session and k the context store's.
Scope(a, k) == IF a = Missing \/ k = NoContext THEN Missing ELSE <<a[1], k>>

ShownScope == Scope(auth, context)

UserOf(a) == IF a = Missing THEN Nobody ELSE a[1]

ContextOf(a) == IF a = Missing THEN NoContext ELSE a[2]

\* What a request sent under cookie c carries.
Carried(c) == IF online THEN c ELSE Unsent

Answerable(t) == task[t].sent \in Sessions

\* Every route but those of the session refuses a frozen membership.
Served(t) == task[t].sent \in Sessions \ frozen

\* What /auth/me answers under cookie c: its membership, or the first of the
\* user's that is not frozen, or no context.
Answers(c) ==
    LET open == {s \in Sessions \ frozen : s[1] = c[1]} IN
    IF c \notin frozen THEN {c}
    ELSE IF open # {} THEN open ELSE {<<c[1], NoContext>>}

Becomes(t, next) == task' = [task EXCEPT ![t] = next]

Ends(t) == Becomes(t, Done)

\* A task on page p that awaits the answer to a request under cookie c.
Awaits(pc, p, c) == [Done EXCEPT !.pc = pc, !.page = p, !.sent = Carried(c)]

\* A page's read request; key is the scope of the moment.
Reads(p, scope) == [Awaits("read", p, cookie) EXCEPT !.key = scope]

\* Faulty variant: every item of the user.
DrainableByUser(scope) ==
    {i \in Items : queue[i] # Missing /\ queue[i][1] = scope[1]}

\* listForScope
Drainable(scope) == {i \in Items : queue[i] = scope}

\* processScope goes to an item of todo, and the page reads when none is left.
DrainNext(todo, scope) ==
    IF todo = {} THEN {Reads("ordering", scope)}
    ELSE {[Awaits("post", "ordering", cookie) EXCEPT
              !.key = scope, !.todo = todo \ {i}, !.item = i] : i \in todo}

\* drainQueuedWrites and refreshData
Drains(scope) ==
    DrainNext(IF scope = Missing \/ ~ online THEN {} ELSE Drainable(scope), scope)

-----------------------------------------------------------------------------
(* readCache.ts                                                            *)

\* loadCachedAuthMe finds an answer and can decrypt it.
Restorable == lastUser # Nobody /\ cachedMe[lastUser] \in Contexts \cup {NoContext}

\* The keys are derived from the CSRF cookie, which every sign-in renews.
Unkeyed(cached) == [u \in Users |-> IF cached[u] = Missing THEN Missing ELSE Unreadable]

Outdated(job) == [job EXCEPT !.seal = IF @ = "fresh" THEN "old" ELSE @]

\* clearCachedAuthMe
WithoutMe(user) == [u \in Users |-> IF u = user THEN Missing ELSE cachedMe[u]]

\* clearScopedReadCacheForUser
CacheWithout(user) == [s \in Scopes |->
    IF s # Missing /\ s[1] = user THEN Missing ELSE cache[s]]

\* Faulty variant: the queue is left alone.
QueueKept(user) == queue

\* removeForUser
QueueWithout(user) == [i \in Items |->
    IF queue[i] # Missing /\ queue[i][1] = user THEN Missing ELSE queue[i]]

ClientInit ==
    /\ online = TRUE
    /\ frozen = {}
    /\ cookie = Missing
    /\ auth = Missing
    /\ context = NoContext
    /\ cachedMe = [u \in Users |-> Missing]
    /\ lastUser = Nobody
    /\ cache = [s \in Scopes |-> Missing]
    /\ queue = [i \in Items |-> Missing]
    /\ page = "login"
    /\ task = [t \in Tasks |-> Done]
    /\ stale = FALSE
    /\ left = {}

Idle(t) == task[t].pc = "idle"

-----------------------------------------------------------------------------
(* What the user and the browser do                                        *)

\* The page is loaded anew: the stores are empty and the router asks who is
\* signed in before it mounts anything.  Handlers in flight die.
Reload(t, p) ==
    /\ task' = [u \in Tasks |-> IF u = t THEN Awaits("guard", p, cookie) ELSE Done]
    /\ auth' = Missing /\ context' = NoContext /\ stale' = FALSE
    /\ page' = "login"
    /\ UNCHANGED <<online, frozen, cookie, cachedMe, lastUser, cache, queue, left>>

\* Navigation to a view, which begins with bootstrapWorkspace.
OpenPage(t, p) ==
    /\ Idle(t) /\ auth # Missing
    /\ page' = p
    /\ Becomes(t, Awaits("bootstrap", p, cookie))
    /\ UNCHANGED <<online, frozen, cookie, auth, context, cachedMe, lastUser, cache,
                   queue, stale, left>>

\* onSearch asks at once, without a bootstrap.
Search(t) ==
    /\ Idle(t) /\ page = "search"
    /\ Becomes(t, Reads("search", Missing))
    /\ UNCHANGED <<online, frozen, cookie, auth, context, cachedMe, lastUser, cache,
                   queue, page, stale, left>>

\* A form's write that cannot be sent now is encrypted first.
Enqueue(t, i) ==
    /\ Idle(t) /\ page = "ordering" /\ ShownScope # Missing
    /\ queue[i] = Missing
    /\ \A u \in Tasks : task[u].item # i /\ i \notin task[u].todo
    /\ Becomes(t, [Done EXCEPT !.pc = "sealing", !.page = "ordering", !.item = i])
    /\ UNCHANGED <<online, frozen, cookie, auth, context, cachedMe, lastUser, cache,
                   queue, page, stale, left>>

\* It is queued for the user and the context shown then.
Enqueued(t) ==
    /\ task[t].pc = "sealing" /\ auth # Missing
    /\ queue' = [queue EXCEPT ![task[t].item] = <<auth[1], context>>]
    /\ Ends(t)
    /\ UNCHANGED <<online, frozen, cookie, auth, context, cachedMe, lastUser, cache,
                   page, stale, left>>

\* There is no key to encrypt it with, or nobody to queue it for.
EnqueueFailed(t) ==
    /\ task[t].pc = "sealing"
    /\ Ends(t)
    /\ UNCHANGED <<online, frozen, cookie, auth, context, cachedMe, lastUser, cache,
                   queue, page, stale, left>>

\* handleRetryQueuedMutation
Retry(t) ==
    /\ Idle(t) /\ page = "ordering" /\ online /\ ShownScope # Missing
    /\ \E next \in Drains(ShownScope) : Becomes(t, next)
    /\ UNCHANGED <<online, frozen, cookie, auth, context, cachedMe, lastUser, cache,
                   queue, page, stale, left>>

GoOffline ==
    /\ online
    /\ online' = FALSE
    /\ UNCHANGED <<frozen, cookie, auth, context, cachedMe, lastUser, cache, queue,
                   page, task, stale, left>>

\* The online event, which the ordering page listens to.
GoOnline(t) ==
    /\ ~ online
    /\ online' = TRUE
    /\ \/ page # "ordering" /\ UNCHANGED task
       \/ page = "ordering" /\ Idle(t)
          /\ Becomes(t, [Done EXCEPT !.pc = "reconnect", !.page = "ordering"])
    /\ UNCHANGED <<frozen, cookie, auth, context, cachedMe, lastUser, cache, queue,
                   page, stale, left>>

\* handleReconnect: no bootstrap, only the queue and the page's data.
HandleReconnect(t) ==
    /\ task[t].pc = "reconnect"
    /\ IF ShownScope = Missing THEN Ends(t)
       ELSE \E next \in Drains(ShownScope) : Becomes(t, next)
    /\ UNCHANGED <<online, frozen, cookie, auth, context, cachedMe, lastUser, cache,
                   queue, page, stale, left>>

\* The cookies reach their age.
SessionExpires ==
    /\ cookie # Missing
    /\ cookie' = Missing
    /\ cachedMe' = Unkeyed(cachedMe)
    /\ task' = [t \in Tasks |-> Outdated(task[t])]
    /\ UNCHANGED <<online, frozen, auth, context, lastUser, cache, queue, page,
                   stale, left>>

\* An administrator freezes a membership, or lifts the freeze.
SetFrozen(s) ==
    /\ frozen' = IF s \in frozen THEN frozen \ {s} ELSE frozen \cup {s}
    /\ UNCHANGED <<online, cookie, auth, context, cachedMe, lastUser, cache, queue,
                   page, task, stale, left>>

SwitchContext(t, k) ==
    /\ Idle(t) /\ page # "login" /\ auth # Missing
    /\ <<auth[1], k>> \in Sessions
    /\ Becomes(t, [Awaits("switch", page, cookie) EXCEPT !.to = k])
    /\ UNCHANGED <<online, frozen, cookie, auth, context, cachedMe, lastUser, cache,
                   queue, page, stale, left>>

SignIn(t, u) ==
    /\ Idle(t) /\ page = "login"
    /\ Becomes(t, [Done EXCEPT !.pc = "login", !.to = u, !.who = UserOf(auth)])
    /\ UNCHANGED <<online, frozen, cookie, auth, context, cachedMe, lastUser, cache,
                   queue, page, stale, left>>

SignOut(t) ==
    /\ Idle(t) /\ page # "login"
    /\ Becomes(t, [Awaits("logout", page, cookie) EXCEPT !.who = UserOf(auth)])
    /\ UNCHANGED <<online, frozen, cookie, auth, context, cachedMe, lastUser, cache,
                   queue, page, stale, left>>

-----------------------------------------------------------------------------
(* The answers                                                             *)

\* hydrateFromMe with answer v, whose encryption is then awaited.
Shows(t, v, of) ==
    /\ auth' = v
    /\ stale' = (v # task[t].sent)
    /\ left' = left \ {v[1]}
    /\ Becomes(t, [Done EXCEPT !.pc = "caching", !.of = of, !.page = task[t].page,
                    !.got = v, !.seal = IF cookie = Missing THEN "none" ELSE "fresh"])

\* The router opens page p, which bootstraps again, or the login page.
Opens(t, p) ==
    /\ page' = IF auth' = Missing THEN "login" ELSE p
    /\ Becomes(t, IF page' = "login" THEN Done ELSE Awaits("bootstrap", p, cookie))
    /\ UNCHANGED context

\* syncFromAuthStore, and the contexts are asked for.
Syncs(t) ==
    /\ context' = ContextOf(auth')
    /\ Becomes(t, Awaits("contexts", task[t].page, cookie))
    /\ UNCHANGED page

\* What follows bootstrap, or signIn.
GoesOn(t) ==
    \/ task[t].of \in {"guard", "login"} /\ Opens(t, task[t].page)
    \/ task[t].of = "bootstrap" /\ Syncs(t)

Bootstraps(t) == task[t].pc \in {"guard", "bootstrap"}

\* bootstrap with an answer.
MeAnswered(t) ==
    /\ Bootstraps(t) /\ Answerable(t)
    /\ \E v \in Answers(task[t].sent) : Shows(t, v, task[t].pc)
    /\ UNCHANGED <<online, frozen, cookie, context, cachedMe, lastUser, cache, queue,
                   page>>

\* cacheAuthMe stores the encrypted answer; without a key it removes what is
\* there.  The CSRF cookie may be gone before the session's.
MeCached(t) ==
    LET user == task[t].got[1] IN
    /\ task[t].pc = "caching"
    /\ \/ /\ task[t].seal # "none"
          /\ cachedMe' = [cachedMe EXCEPT ![user] =
                 IF task[t].seal = "fresh" THEN task[t].got[2] ELSE Unreadable]
          /\ lastUser' = user
       \/ /\ cachedMe' = WithoutMe(user)
          /\ lastUser' = IF lastUser = user THEN Nobody ELSE lastUser
    /\ UNCHANGED <<online, frozen, cookie, auth, cache, queue, stale, left>>
    /\ GoesOn(t)

\* bootstrap without an answer: the cached one of the last user is decrypted.
MeUnanswered(t) ==
    /\ Bootstraps(t)
    /\ \E v \in {Missing} \cup {<<u, cachedMe[u]>> : u \in {lastUser} \ {Nobody}} :
        /\ v # Missing => Restorable
        /\ Becomes(t, [Done EXCEPT !.pc = "restoring", !.of = task[t].pc,
                        !.page = task[t].page, !.who = lastUser, !.got = v])
    /\ UNCHANGED <<online, frozen, cookie, auth, context, cachedMe, lastUser, cache,
                   queue, page, stale, left>>

\* Offline it takes the place of the answer.
MeRestored(t) ==
    /\ task[t].pc = "restoring" /\ ~ online /\ task[t].got # Missing
    /\ auth' = task[t].got
    /\ stale' = (cookie # task[t].got)
    /\ left' = left \ {task[t].got[1]}
    /\ GoesOn(t)
    /\ UNCHANGED <<online, frozen, cookie, cachedMe, lastUser, cache, queue>>

\* Or nobody is signed in; what could not be decrypted is removed.
MeFailed(t) ==
    /\ task[t].pc = "restoring" /\ (online \/ task[t].got = Missing)
    /\ auth' = Missing /\ stale' = FALSE
    /\ cachedMe' = [u \in Users |->
           IF u = lastUser \/ (u = task[t].who /\ task[t].got = Missing)
           THEN Missing ELSE cachedMe[u]]
    /\ lastUser' = Nobody
    /\ GoesOn(t)
    /\ UNCHANGED <<online, frozen, cookie, cache, queue, left>>

\* loadContexts: an answer sets the context to the auth store's; then the
\* page loads its data.
ContextsLoaded(t) ==
    /\ task[t].pc = "contexts"
    /\ \/ Answerable(t) /\ context' = ContextOf(auth)
       \/ UNCHANGED context
    /\ LET p == task[t].page
           scope == Scope(auth, context')
       IN
       \/ p = "dashboard" /\ Becomes(t, Reads(p, scope))
       \/ p = "search" /\ Becomes(t, Reads(p, Missing))
       \/ p = "ordering" /\ \E next \in Drains(scope) : Becomes(t, next)
    /\ UNCHANGED <<online, frozen, cookie, auth, cachedMe, lastUser, cache, queue,
                   page, stale, left>>

\* The scopes a page files the answer to its read request under.
FiledUnder(t) ==
    CASE task[t].page = "dashboard" -> {task[t].key} \ {Missing}
      [] task[t].page = "search"    -> {ShownScope} \ {Missing}
      [] task[t].page = "ordering"  -> IF task[t].key = Missing THEN {}
                                       ELSE {ShownScope}

\* cacheScopedRead, cacheOrderingSnapshot
ReadAnswered(t) ==
    /\ task[t].pc = "read" /\ Served(t)
    /\ cache' = [s \in Scopes |-> IF s \in FiledUnder(t) THEN task[t].sent
                                  ELSE cache[s]]
    /\ Ends(t)
    /\ UNCHANGED <<online, frozen, cookie, auth, context, cachedMe, lastUser, queue,
                   page, stale, left>>

\* The page shows what it has cached, or an error.
ReadFailed(t) ==
    /\ task[t].pc = "read"
    /\ Ends(t)
    /\ UNCHANGED <<online, frozen, cookie, auth, context, cachedMe, lastUser, cache,
                   queue, page, stale, left>>

\* A queued write is committed, under the session of the cookie it carried.
Posted(t) ==
    /\ task[t].pc = "post" /\ Served(t)
    /\ queue' = [queue EXCEPT ![task[t].item] = Missing]
    /\ \E next \in DrainNext(task[t].todo, task[t].key) : Becomes(t, next)
    /\ UNCHANGED <<online, frozen, cookie, auth, context, cachedMe, lastUser, cache,
                   page, stale, left>>

\* It is refused or fails: it stays, and the drain goes on.
PostFailed(t) ==
    /\ task[t].pc = "post"
    /\ \E next \in DrainNext(task[t].todo, task[t].key) : Becomes(t, next)
    /\ UNCHANGED <<online, frozen, cookie, auth, context, cachedMe, lastUser, cache,
                   queue, page, stale, left>>

\* Faulty variant: the context store waits for the answer of me().
SwitchesLater(k) == context

\* What the context store shows once the server has switched to k.
SwitchesTo(k) == k

\* setActiveContext answers with a new cookie, and me() is asked under it.
ContextSwitched(t) ==
    LET s == <<task[t].sent[1], task[t].to>> IN
    /\ task[t].pc = "switch" /\ Answerable(t) /\ s \in Sessions \ frozen
    /\ cookie' = s
    /\ context' = SwitchesTo(s[2])
    /\ Becomes(t, Awaits("switchMe", task[t].page, s))
    /\ UNCHANGED <<online, frozen, auth, cachedMe, lastUser, cache, queue, page,
                   stale, left>>

\* me() after a switch: the stores follow, the cached answer does not.  The
\* search page reads, the others load themselves anew.
SwitchShown(t) ==
    LET p == task[t].page IN
    /\ task[t].pc = "switchMe" /\ Answerable(t)
    /\ \E v \in Answers(task[t].sent) :
        /\ auth' = v /\ context' = v[2]
        /\ stale' = (v # task[t].sent)
        /\ left' = left \ {v[1]}
    /\ Becomes(t, IF p = "search" THEN Reads(p, Missing)
                  ELSE Awaits("bootstrap", p, cookie))
    /\ UNCHANGED <<online, frozen, cookie, cachedMe, lastUser, cache, queue, page>>

SwitchFailed(t) ==
    /\ task[t].pc \in {"switch", "switchMe"}
    /\ Ends(t)
    /\ UNCHANGED <<online, frozen, cookie, auth, context, cachedMe, lastUser, cache,
                   queue, page, stale, left>>

\* clearUserOfflineArtifacts, as far as notifyAuthBoundaryChange; cached is
\* what is left of the cached answers.
ClearArtifacts(user, cached) ==
    /\ cachedMe' = cached
    /\ lastUser' = IF lastUser = user THEN Nobody ELSE lastUser
    /\ cache' = CacheWithout(user)
    /\ queue' = QueueWithout(user)
    /\ left' = left \cup {user}

\* logout answers or fails: the browser forgets the user all the same, but
\* only an answer removes the cookie and leads to the login page.
LoggedOut(t) ==
    LET user == task[t].who IN
    /\ task[t].pc = "logout"
    /\ \E answered \in {Answerable(t), FALSE} :
        LET cached(kept) == IF answered THEN Unkeyed(kept) ELSE kept IN
        /\ cookie' = IF answered THEN Missing ELSE cookie
        /\ \/ user # Nobody /\ ClearArtifacts(user, cached(WithoutMe(user)))
           \/ /\ user = Nobody
              /\ cachedMe' = cached(WithoutMe(lastUser)) /\ lastUser' = Nobody
              /\ UNCHANGED <<cache, queue, left>>
        /\ task' = [u \in Tasks |->
               IF u # t THEN IF answered THEN Outdated(task[u]) ELSE task[u]
               ELSE [task[t] EXCEPT !.pc = "clearing", !.of = "logout",
                                    !.page = IF answered THEN "login" ELSE @]]
    /\ UNCHANGED <<online, frozen, auth, context, page, stale>>

SignedOut(t) ==
    /\ task[t].pc = "clearing" /\ task[t].of = "logout"
    /\ auth' = Missing /\ stale' = FALSE
    /\ page' = IF task[t].page = "login" THEN "login" ELSE page
    /\ Ends(t)
    /\ UNCHANGED <<online, frozen, cookie, context, cachedMe, lastUser, cache, queue,
                   left>>

\* POST /auth/login answers with new cookies for a membership that is not
\* frozen, and me() is asked under them.
LoggedIn(t, s) ==
    /\ task[t].pc = "login" /\ online /\ s[1] = task[t].to /\ s \notin frozen
    /\ cookie' = s
    /\ cachedMe' = Unkeyed(cachedMe)
    /\ task' = [u \in Tasks |->
           IF u # t THEN Outdated(task[u])
           ELSE [Awaits("loginMe", "dashboard", s) EXCEPT !.who = task[t].who]]
    /\ UNCHANGED <<online, frozen, auth, context, lastUser, cache, queue, page, stale,
                   left>>

\* The answer is shown and cached, and the dashboard opens.
SignedIn(t) ==
    /\ task[t].pc = "loginMe" /\ Answerable(t)
    /\ task[t].who \in {Nobody, task[t].sent[1]}
    /\ \E v \in Answers(task[t].sent) : Shows(t, v, "login")
    /\ UNCHANGED <<online, frozen, cookie, context, cachedMe, lastUser, cache, queue,
                   page>>

\* It is another user than the one shown before, who is cleared first.
Replaces(t) ==
    /\ task[t].pc = "loginMe" /\ Answerable(t)
    /\ task[t].who \notin {Nobody, task[t].sent[1]}
    /\ ClearArtifacts(task[t].who, WithoutMe(task[t].who))
    /\ \E v \in Answers(task[t].sent) :
        Becomes(t, [task[t] EXCEPT !.pc = "clearing", !.of = "login", !.got = v])
    /\ UNCHANGED <<online, frozen, cookie, auth, context, page, stale>>

Replaced(t) ==
    /\ task[t].pc = "clearing" /\ task[t].of = "login"
    /\ Shows(t, task[t].got, "login")
    /\ UNCHANGED <<online, frozen, cookie, context, cachedMe, lastUser, cache, queue,
                   page>>

\* Neither request of a sign-in need succeed: with the second one the cookie
\* is new already, and nobody is shown or cleared.
SignInFailed(t) ==
    /\ task[t].pc \in {"login", "loginMe"}
    /\ auth' = Missing /\ stale' = FALSE
    /\ Ends(t)
    /\ UNCHANGED <<online, frozen, cookie, context, cachedMe, lastUser, cache, queue,
                   page, left>>

ClientNext ==
    \/ \E t \in Tasks, p \in Pages \cup {"login"} : Reload(t, p)
    \/ \E t \in Tasks, p \in Pages : OpenPage(t, p)
    \/ \E t \in Tasks : Search(t)
    \/ \E t \in Tasks, i \in Items : Enqueue(t, i)
    \/ \E t \in Tasks : Enqueued(t)
    \/ \E t \in Tasks : EnqueueFailed(t)
    \/ \E t \in Tasks : Retry(t)
    \/ GoOffline
    \/ \E t \in Tasks : GoOnline(t)
    \/ \E t \in Tasks : HandleReconnect(t)
    \/ SessionExpires
    \/ \E s \in Freezable : SetFrozen(s)
    \/ \E t \in Tasks, k \in Contexts : SwitchContext(t, k)
    \/ \E t \in Tasks, u \in Users : SignIn(t, u)
    \/ \E t \in Tasks : SignOut(t)
    \/ \E t \in Tasks : MeAnswered(t)
    \/ \E t \in Tasks : MeCached(t)
    \/ \E t \in Tasks : MeUnanswered(t)
    \/ \E t \in Tasks : MeRestored(t)
    \/ \E t \in Tasks : MeFailed(t)
    \/ \E t \in Tasks : ContextsLoaded(t)
    \/ \E t \in Tasks : ReadAnswered(t)
    \/ \E t \in Tasks : ReadFailed(t)
    \/ \E t \in Tasks : Posted(t)
    \/ \E t \in Tasks : PostFailed(t)
    \/ \E t \in Tasks : ContextSwitched(t)
    \/ \E t \in Tasks : SwitchShown(t)
    \/ \E t \in Tasks : SwitchFailed(t)
    \/ \E t \in Tasks : LoggedOut(t)
    \/ \E t \in Tasks : SignedOut(t)
    \/ \E t \in Tasks, s \in Sessions : LoggedIn(t, s)
    \/ \E t \in Tasks : SignedIn(t)
    \/ \E t \in Tasks : Replaces(t)
    \/ \E t \in Tasks : Replaced(t)
    \/ \E t \in Tasks : SignInFailed(t)

ClientSpec == ClientInit /\ [][ClientNext]_clientVars

-----------------------------------------------------------------------------
\* The stores, the storage and the tasks have their types.
ClientTypeOK ==
    /\ online \in BOOLEAN
    /\ frozen \subseteq Sessions
    /\ cookie \in Sessions \cup {Missing}
    /\ auth \in Identities \cup {Missing}
    /\ context \in Contexts \cup {NoContext}
    /\ cachedMe \in [Users -> Contexts \cup {NoContext, Missing, Unreadable}]
    /\ lastUser \in Users \cup {Nobody}
    /\ cache \in [Scopes -> Sessions \cup {Missing}]
    /\ queue \in [Items -> Scopes]
    /\ page \in Pages \cup {"login"}
    /\ task \in [Tasks -> Task]
    /\ stale \in BOOLEAN
    /\ left \subseteq Users

\* Who signed out, online or offline, and who was shown when another signed in,
\* leaves nothing behind in the browser: no cached session, readable or not, no
\* answer to one of his requests, no answer under his scope and no queued write,
\* until he is signed in again - by himself, or by the cookie a failed logout
\* left.  A user who is no longer shown when the other signs in - his session
\* expired, or a first sign-in of the other failed half-way - is not cleared:
\* he is not in left (signOut, signIn, clearUserOfflineArtifacts).
SignedOutLeavesNothing ==
    \A user \in left :
        /\ cachedMe[user] = Missing /\ lastUser # user
        /\ \A s \in Scopes : UserOf(cache[s]) # user
        /\ \A s \in Sessions : s[1] = user => cache[s] = Missing
        /\ \A i \in Items : UserOf(queue[i]) # user

\* What the server answers is filed under the user it was answered for, and a
\* queued write is committed for the user it was queued by, whoever signed in,
\* half-way or not, in between; and under and in the right context too, although
\* no request names one: the stores have followed the cookie by then, whichever
\* of the requests around a switch failed.  The exceptions for the context are
\* a start without network that fell back on a /auth/me answer from before a
\* switch, and an answer given while the cookie's membership was frozen, which
\* the stores keep when it no longer is (scopeKey and processScope against the
\* session token).
ServedInContext ==
    [][/\ \A s \in Scopes : cache'[s] \notin {cache[s], Missing} =>
              s # Missing /\ cache'[s][1] = s[1] /\ (cache'[s] = s \/ stale)
       /\ \A t \in Tasks : Posted(t) =>
              LET scope == queue[task[t].item] IN
              task[t].sent[1] = scope[1] /\ (task[t].sent = scope \/ stale)]_clientVars
=============================================================================
