------------------------------ MODULE RateLimit ------------------------------
(***************************************************************************)
(* The per-minute request budget: rate_limit_middleware of api/app/main.py *)
(* and api/app/core/rate_limit.py over the table api_rate_limit_buckets.   *)
(*                                                                         *)
(* Before a request reaches its handler, the middleware charges it to the  *)
(* bucket of its device address and then, if it carries a valid session,   *)
(* to the bucket of its user.  A bucket counts one scope in one window and *)
(* the window is that of the time read on arrival.  Each charge is a       *)
(* transaction of its own: SELECT ... FOR UPDATE, then either an INSERT,   *)
(* which the unique constraint on (scope, window) can refuse, or an UPDATE *)
(* that writes the count computed in the program.  A row lock lasts until  *)
(* the commit.  The INSERT and its commit are one step, since nothing can  *)
(* see the row between them and a second INSERT waits for the first.       *)
(*                                                                         *)
(* Left out: the headers and the 429 body, and OPTIONS and health paths,   *)
(* which are not charged.                                                  *)
(***************************************************************************)
EXTENDS Integers

CONSTANTS
    Callers,            \* the requests that can be in the middleware at once
    Devices,            \* values of extract_device_ip
    Accounts,           \* the sub of a session token
    NoAccount,          \* no valid session cookie
    IpLimit,            \* rate_limit_ip_per_min
    UserLimit,          \* rate_limit_user_per_min
    Lag,                \* for how many windows one request stays in here
    MaxWindow,          \* bound: windows 0 .. MaxWindow pass
    NoCaller            \* a row lock nobody holds

ASSUME LimitsAssumption == IpLimit \in Nat \ {0} /\ UserLimit \in Nat \ {0}

ASSUME WindowsAssumption == MaxWindow \in Nat

\* prune_before is two minutes behind the window being charged: a request
\* that stays longer than that may find its bucket pruned.
ASSUME LagAssumption == Lag \in 0 .. 2

ASSUME ScopesAssumption ==
    /\ Devices \cap Accounts = {}
    /\ NoAccount \notin Accounts \cup Devices
    /\ NoCaller \notin Callers

VARIABLES
    window,     \* the current minute
    buckets,    \* request_count of each bucket, 0 where there is no row
    rowLock,    \* who holds the row lock of each bucket
    caller,     \* what each request in the middleware is doing
    letThrough  \* history: charges of each bucket that did not exceed it

rateVars == <<window, buckets, rowLock, caller, letThrough>>

-----------------------------------------------------------------------------
Scopes == Devices \cup Accounts

Windows == 0 .. MaxWindow

Buckets == Scopes \X Windows

LimitOf(scope) == IF scope \in Devices THEN IpLimit ELSE UserLimit

Charging == {"select", "insert", "update"}

\* at is the window of the time read on arrival, scope the bucket being
\* charged, try the attempt, seen the request_count of the locked row.
Caller == [pc : Charging \cup {"done", "refused"},
           device : Devices, account : Accounts \cup {NoAccount},
           scope : Scopes, at : Windows, try : {1, 2}, seen : Nat]

\* Not in the middleware: not yet arrived, passed on to its handler, or gone.
Outside(device) == [pc |-> "done", device |-> device, account |-> NoAccount,
                    scope |-> device, at |-> 0, try |-> 1, seen |-> 0]

BucketOf(c) == <<caller[c].scope, caller[c].at>>

\* _prune_old_windows: the older rows of the same scope.
Pruned(bucket) == {b \in Buckets : b[1] = bucket[1] /\ b[2] < bucket[2] - 2}

\* Faulty variant: a SELECT without FOR UPDATE.
LockableAlways(c, bucket) == TRUE

\* SELECT ... FOR UPDATE waits while another transaction holds the row.
Lockable(c, bucket) == rowLock[bucket] \in {NoCaller, c}

\* The DELETE of old windows waits for their rows as well.
PruneWaits(c, bucket) == \E b \in Pruned(bucket) : ~ Lockable(c, b)

-----------------------------------------------------------------------------
RateInit ==
    /\ window = 0
    /\ buckets = [b \in Buckets |-> 0]
    /\ rowLock = [b \in Buckets |-> NoCaller]
    /\ caller \in [Callers -> {Outside(device) : device \in Devices}]
    /\ letThrough = [b \in Buckets |-> 0]

\* A request arrives: the time, the device and the session's user are read.
Arrive(c, device, account) ==
    /\ caller[c].pc \notin Charging
    /\ caller' = [caller EXCEPT ![c] =
          [pc |-> "select", device |-> device, account |-> account,
           scope |-> device, at |-> window, try |-> 1, seen |-> 0]]
    /\ UNCHANGED <<window, buckets, rowLock, letThrough>>

\* The SELECT of _consume_scope.
SelectBucket(c) ==
    LET bucket == BucketOf(c) IN
    /\ caller[c].pc = "select"
    /\ Lockable(c, bucket)
    /\ IF buckets[bucket] = 0
       THEN /\ caller' = [caller EXCEPT ![c].pc = "insert"]
            /\ UNCHANGED rowLock
       ELSE /\ caller' = [caller EXCEPT ![c].pc = "update",
                                        ![c].seen = buckets[bucket]]
            /\ rowLock' = [rowLock EXCEPT ![bucket] = c]
    /\ UNCHANGED <<window, buckets, letThrough>>

\* enforce_rate_limits after a charge within the limit: the user's bucket is
\* next, or the request goes on to its handler.
AfterCharge(c) ==
    IF caller[c].scope = caller[c].device /\ caller[c].account # NoAccount
    THEN [caller[c] EXCEPT !.pc = "select", !.scope = caller[c].account,
                           !.try = 1, !.seen = 0]
    ELSE Outside(caller[c].device)

\* The bucket holds count, its scope's old windows are gone, the lock too.
CommitCharge(c, bucket, count) ==
    /\ ~ PruneWaits(c, bucket)
    /\ buckets' = [b \in Buckets |-> IF b = bucket THEN count
                                     ELSE IF b \in Pruned(bucket) THEN 0
                                     ELSE buckets[b]]
    /\ letThrough' = [letThrough EXCEPT ![bucket] = @ + 1]
    /\ caller' = [caller EXCEPT ![c] = AfterCharge(c)]
    /\ rowLock' = [rowLock EXCEPT ![bucket] = NoCaller]

\* Faulty variant: no second attempt.
OnlyTry == 1

\* How often _consume_scope tries.
Tries == 2

\* The INSERT: refused when another request created the row meanwhile; after
\* the second such race the request is refused for safety.
InsertBucket(c) ==
    LET bucket == BucketOf(c) IN
    /\ caller[c].pc = "insert"
    /\ \/ /\ buckets[bucket] = 0
          /\ CommitCharge(c, bucket, 1)
       \/ /\ buckets[bucket] # 0
          /\ caller' = [caller EXCEPT ![c] =
                IF @.try < Tries THEN [@ EXCEPT !.pc = "select", !.try = 2]
                ELSE [@ EXCEPT !.pc = "refused", !.account = NoAccount]]
          /\ UNCHANGED <<buckets, rowLock, letThrough>>
    /\ UNCHANGED window

\* The row was locked: refused at the limit, charged below it.
UpdateBucket(c) ==
    LET bucket == BucketOf(c) IN
    /\ caller[c].pc = "update"
    /\ \/ /\ caller[c].seen >= LimitOf(caller[c].scope)
          /\ caller' = [caller EXCEPT ![c].pc = "refused",
                                      ![c].account = NoAccount]
          /\ rowLock' = [rowLock EXCEPT ![bucket] = NoCaller]
          /\ UNCHANGED <<buckets, letThrough>>
       \/ /\ caller[c].seen < LimitOf(caller[c].scope)
          /\ CommitCharge(c, bucket, caller[c].seen + 1)
    /\ UNCHANGED window

\* The database or the process fails under the request: its transaction is
\* rolled back and its lock released.  Earlier charges stay.
AbortCharge(c) ==
    /\ caller[c].pc \in Charging
    /\ caller' = [caller EXCEPT ![c] = Outside(@.device)]
    /\ rowLock' = [b \in Buckets |-> IF rowLock[b] = c THEN NoCaller
                                     ELSE rowLock[b]]
    /\ UNCHANGED <<window, buckets, letThrough>>

\* A minute passes.  Nobody stays in the middleware for more than Lag windows.
NextWindow ==
    /\ window < MaxWindow
    /\ \A c \in Callers :
          caller[c].pc \in Charging => window + 1 - caller[c].at <= Lag
    /\ window' = window + 1
    /\ UNCHANGED <<buckets, rowLock, caller, letThrough>>

RateNext ==
    \/ \E c \in Callers, device \in Devices,
          account \in Accounts \cup {NoAccount} : Arrive(c, device, account)
    \/ \E c \in Callers : SelectBucket(c)
    \/ \E c \in Callers : InsertBucket(c)
    \/ \E c \in Callers : UpdateBucket(c)
    \/ \E c \in Callers : AbortCharge(c)
    \/ NextWindow

RateSpec == RateInit /\ [][RateNext]_rateVars

-----------------------------------------------------------------------------
\* Buckets, locks and requests have their types.
RateTypeOK ==
    /\ window \in Windows
    /\ buckets \in [Buckets -> Nat]
    /\ rowLock \in [Buckets -> Callers \cup {NoCaller}]
    /\ caller \in [Callers -> Caller]
    /\ letThrough \in [Buckets -> Nat]

\* No device and no user gets more charges through in a window than its limit.
LimitKept == \A b \in Buckets : letThrough[b] <= LimitOf(b[1])

\* A request that was refused found the full number of charges in its bucket.
RefusedOnlyWhenFull ==
    \A c \in Callers : caller[c].pc = "refused" =>
        letThrough[BucketOf(c)] >= LimitOf(caller[c].scope)

\* However many requests race for a bucket, at the start of its minute or at
\* its end, the budget is what is let through, neither more nor less: the row
\* lock and the unique constraint of _consume_scope stop every charge beyond
\* it, and the second attempt sees to it that the race for the first request
\* of a minute costs nobody a place ("fail closed" is never reached).
BudgetExact == LimitKept /\ RefusedOnlyWhenFull
=============================================================================
