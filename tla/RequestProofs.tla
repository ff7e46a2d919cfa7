---------------------------- MODULE RequestProofs ----------------------------
(***************************************************************************)
(* What the parts that a request passes promise for any number of          *)
(* requests, devices, nonces, users, contexts, settings and rules, and for *)
(* limits, windows and lengths of a lock of any size.                      *)
(***************************************************************************)
EXTENDS MCRequests, KitchenProofs

-----------------------------------------------------------------------------
(* The rate limit.                                                         *)

\* A request is charged in a window that is neither ahead nor long gone.
InTime == \A c \in Callers : caller[c].pc \in Charging =>
              caller[c].at <= window /\ window <= caller[c].at + Lag

\* Who is about to write a bucket has locked its row since it was read.
Holds(c) == /\ rowLock[BucketOf(c)] = c
            /\ caller[c].seen = buckets[BucketOf(c)]
            /\ caller[c].seen # 0

LocksHeld ==
    /\ \A c \in Callers : caller[c].pc = "update" => Holds(c)
    /\ \A b \in Buckets, c \in Callers : rowLock[b] = c =>
          caller[c].pc = "update" /\ BucketOf(c) = b

\* A row counts what was let through; one without a row was never charged, or
\* was pruned when its window was long gone.
Counted == \A b \in Buckets :
    /\ buckets[b] # 0 => buckets[b] = letThrough[b]
    /\ buckets[b] = 0 => letThrough[b] = 0 \/ b[2] + 2 < window

\* The second attempt is made for a row that is there, and finds it.
SecondTry == \A c \in Callers : caller[c].pc \in Charging /\ caller[c].try = 2 =>
                 buckets[BucketOf(c)] # 0 /\ caller[c].pc # "insert"

RateInv == /\ RateTypeOK /\ InTime /\ LocksHeld /\ Counted /\ SecondTry
           /\ LimitKept /\ RefusedOnlyWhenFull

-----------------------------------------------------------------------------
\* The fields of a request, and its bucket.
LEMMA CallerFields ==
  ASSUME RateTypeOK, NEW c \in Callers
  PROVE  /\ caller[c] \in Caller
         /\ caller[c].device \in Devices
         /\ caller[c].account \in Accounts \cup {NoAccount}
         /\ caller[c].scope \in Scopes
         /\ caller[c].at \in Windows
         /\ caller[c].try \in {1, 2}
         /\ caller[c].seen \in Nat
         /\ BucketOf(c) \in Buckets
         /\ BucketOf(c)[1] = caller[c].scope
         /\ BucketOf(c)[2] = caller[c].at
  BY DEF RateTypeOK, Caller, BucketOf, Buckets

LEMMA OutsideTyped ==
  ASSUME NEW device \in Devices
  PROVE  Outside(device) \in Caller /\ Outside(device).pc = "done"
<1>1. 0 \in Windows
  BY WindowsAssumption DEF Windows
<1> QED BY <1>1 DEF Outside, Caller, Charging, Scopes

LEMMA LimitPositive ==
  ASSUME NEW scope
  PROVE  LimitOf(scope) \in Nat /\ LimitOf(scope) >= 1
  BY LimitsAssumption DEF LimitOf

LEMMA RateInitInv == RateInit => RateInv
<1> SUFFICES ASSUME RateInit PROVE RateInv
  OBVIOUS
<1> USE DEF RateInit
<1>1. \A c \in Callers : caller[c] \in Caller /\ caller[c].pc = "done"
  BY OutsideTyped
<1>2. RateTypeOK
  BY <1>1, WindowsAssumption, OutsideTyped DEF RateTypeOK, Windows
<1>3. InTime /\ SecondTry /\ RefusedOnlyWhenFull
  BY <1>1 DEF InTime, SecondTry, RefusedOnlyWhenFull, Charging
<1>4. LocksHeld
  BY <1>1, ScopesAssumption DEF LocksHeld
<1>5. Counted /\ LimitKept
  BY LimitPositive DEF Counted, LimitKept
<1> QED BY <1>2, <1>3, <1>4, <1>5 DEF RateInv

-----------------------------------------------------------------------------
\* Nothing that is being charged is pruned, and no row another has locked is.
LEMMA PruneSpares ==
  ASSUME RateInv, NEW c \in Callers, caller[c].pc \in Charging,
         ~ PruneWaits(c, BucketOf(c)), NEW b \in Pruned(BucketOf(c))
  PROVE  /\ b \in Buckets
         /\ b[2] + 2 < window
         /\ rowLock[b] = NoCaller
         /\ \A d \in Callers : caller[d].pc \in Charging => BucketOf(d) # b
<1>1. b \in Buckets /\ b[2] \in Windows
  BY DEF Pruned, Buckets
<1>2. b[2] < caller[c].at - 2
  BY CallerFields DEF Pruned, RateInv
<1>3. caller[c].at \in Nat /\ window \in Nat /\ b[2] \in Nat
  BY <1>1, CallerFields DEF RateInv, RateTypeOK, Windows
<1>4. b[2] + 2 < window
  BY <1>2, <1>3 DEF RateInv, InTime
<1>5. ASSUME NEW d \in Callers, caller[d].pc \in Charging PROVE BucketOf(d) # b
  <2>1. window <= caller[d].at + Lag /\ caller[d].at \in Nat
    BY <1>5, CallerFields DEF RateInv, InTime, Windows
  <2>2. Lag <= 2 /\ Lag \in Nat
    BY LagAssumption
  <2>3. b[2] # caller[d].at
    BY <1>3, <1>4, <2>1, <2>2
  <2> QED BY <2>3, CallerFields DEF RateInv
<1>6. rowLock[b] \in {NoCaller, c}
  BY DEF PruneWaits, Lockable
<1>7. rowLock[b] # c
  BY <1>1, <1>5 DEF RateInv, LocksHeld
<1> QED BY <1>1, <1>4, <1>5, <1>6, <1>7

\* A charge that commits: the count is the next one and within the limit.
LEMMA CommitStep ==
  ASSUME RateInv, NEW c \in Callers, caller[c].pc \in Charging,
         CommitCharge(c, BucketOf(c), letThrough[BucketOf(c)] + 1),
         rowLock[BucketOf(c)] \in {NoCaller, c},
         letThrough[BucketOf(c)] < LimitOf(caller[c].scope),
         UNCHANGED window
  PROVE  RateInv'
<1> DEFINE bucket == BucketOf(c)
           next == AfterCharge(c)
<1>1. /\ bucket \in Buckets /\ bucket[1] = caller[c].scope
      /\ letThrough[bucket] \in Nat
  BY CallerFields DEF RateInv, RateTypeOK
<1>2. /\ next \in Caller /\ next.pc \in {"select", "done"}
      /\ next.pc = "select" => next.at = caller[c].at /\ next.try = 1
  <2>1. CASE caller[c].scope = caller[c].device /\ caller[c].account # NoAccount
    <3>1. next = [caller[c] EXCEPT !.pc = "select", !.scope = caller[c].account,
                                   !.try = 1, !.seen = 0]
      BY <2>1 DEF AfterCharge
    <3>2. caller[c].account \in Scopes
      BY <2>1, CallerFields DEF RateInv, Scopes
    <3>3. caller[c] \in Caller
      BY CallerFields DEF RateInv
    <3>4. next.pc = "select" /\ next.at = caller[c].at /\ next.try = 1
      BY <3>1, <3>3 DEF Caller
    <3>5. next \in Caller
      <4>1. "select" \in Charging \cup {"done", "refused"} /\ 1 \in {1, 2} /\ 0 \in Nat
        BY DEF Charging
      <4> HIDE DEF next
      <4>2. next = [pc |-> "select", device |-> caller[c].device,
                    account |-> caller[c].account, scope |-> caller[c].account,
                    at |-> caller[c].at, try |-> 1, seen |-> 0]
        BY <3>1, <3>3 DEF Caller
      <4> QED BY <3>2, <4>1, <4>2, CallerFields DEF RateInv, Caller
    <3> QED BY <3>4, <3>5
  <2>2. CASE ~ (caller[c].scope = caller[c].device /\ caller[c].account # NoAccount)
    <3>1. next = Outside(caller[c].device)
      BY <2>2 DEF AfterCharge
    <3> QED BY <3>1, OutsideTyped, CallerFields DEF RateInv
  <2> QED BY <2>1, <2>2
<1> HIDE DEF bucket, next
<1>3. /\ ~ PruneWaits(c, bucket)
      /\ buckets' = [b \in Buckets |-> IF b = bucket THEN letThrough[bucket] + 1
                                       ELSE IF b \in Pruned(bucket) THEN 0
                                       ELSE buckets[b]]
      /\ letThrough' = [letThrough EXCEPT ![bucket] = @ + 1]
      /\ caller' = [caller EXCEPT ![c] = next]
      /\ rowLock' = [rowLock EXCEPT ![bucket] = NoCaller]
  BY DEF CommitCharge, bucket, next
<1>4. /\ caller'[c] = next
      /\ \A d \in Callers \ {c} : caller'[d] = caller[d] /\ BucketOf(d)' = BucketOf(d)
  BY <1>3 DEF RateInv, RateTypeOK, BucketOf
<1>5. /\ rowLock'[bucket] = NoCaller
      /\ \A b \in Buckets \ {bucket} : rowLock'[b] = rowLock[b]
  BY <1>1, <1>3 DEF RateInv, RateTypeOK
<1>6. /\ letThrough'[bucket] = letThrough[bucket] + 1
      /\ \A b \in Buckets \ {bucket} : letThrough'[b] = letThrough[b]
  BY <1>1, <1>3 DEF RateInv, RateTypeOK
<1>7. /\ buckets'[bucket] = letThrough[bucket] + 1
      /\ \A b \in Buckets \ {bucket} :
            \/ b \in Pruned(bucket) /\ buckets'[b] = 0
            \/ b \notin Pruned(bucket) /\ buckets'[b] = buckets[b]
  BY <1>1, <1>3
<1>8. RateTypeOK'
  <2>1. buckets' \in [Buckets -> Nat]
    BY <1>1, <1>3 DEF RateInv, RateTypeOK
  <2>2. letThrough' \in [Buckets -> Nat]
    BY <1>1, <1>3 DEF RateInv, RateTypeOK
  <2>3. caller' \in [Callers -> Caller]
    BY <1>2, <1>3 DEF RateInv, RateTypeOK
  <2> QED BY <1>3, <2>1, <2>2, <2>3 DEF RateInv, RateTypeOK
<1>9. InTime'
  BY <1>2, <1>4 DEF RateInv, InTime, Charging
<1>10. \A b \in Pruned(bucket) :
          /\ b \in Buckets /\ b[2] + 2 < window /\ rowLock[b] = NoCaller
          /\ \A d \in Callers : caller[d].pc \in Charging => BucketOf(d) # b
  BY <1>3, PruneSpares DEF bucket
<1>11. LocksHeld'
  <2>1. ASSUME NEW d \in Callers, caller'[d].pc = "update" PROVE Holds(d)'
    <3>1. d # c
      BY <1>2, <1>4, <2>1
    <3>2. Holds(d) /\ BucketOf(d) \in Buckets /\ caller[d].pc \in Charging
      BY <1>4, <2>1, <3>1, CallerFields DEF RateInv, LocksHeld, Charging
    <3>3. BucketOf(d) # bucket
      BY <3>1, <3>2, ScopesAssumption DEF Holds, bucket
    <3>4. BucketOf(d) \notin Pruned(bucket)
      BY <1>10, <3>2
    <3> QED BY <1>4, <1>5, <1>7, <3>1, <3>2, <3>3, <3>4 DEF Holds
  <2>2. ASSUME NEW b \in Buckets, NEW d \in Callers, rowLock'[b] = d
        PROVE  caller'[d].pc = "update" /\ BucketOf(d)' = b
    <3>1. b # bucket /\ rowLock[b] = d
      BY <1>5, <2>2, ScopesAssumption
    <3>2. caller[d].pc = "update" /\ BucketOf(d) = b
      BY <3>1 DEF RateInv, LocksHeld
    <3>3. d # c
      BY <3>1, <3>2 DEF bucket
    <3> QED BY <1>4, <3>2, <3>3
  <2> QED BY <2>1, <2>2 DEF LocksHeld
<1>12. Counted'
  BY <1>1, <1>6, <1>7, <1>10 DEF RateInv, Counted
<1>13. SecondTry'
  <2> SUFFICES ASSUME NEW d \in Callers, caller'[d].pc \in Charging,
                      caller'[d].try = 2
               PROVE  buckets'[BucketOf(d)'] # 0 /\ caller'[d].pc # "insert"
    BY DEF SecondTry
  <2>1. d # c
    BY <1>2, <1>4 DEF Charging
  <2>2. /\ caller[d].pc \in Charging /\ caller[d].pc # "insert"
        /\ BucketOf(d) \in Buckets /\ buckets[BucketOf(d)] # 0
        /\ caller'[d].pc = caller[d].pc /\ BucketOf(d)' = BucketOf(d)
    BY <1>4, <2>1, CallerFields DEF RateInv, SecondTry
  <2>3. BucketOf(d) \notin Pruned(bucket)
    BY <1>10, <2>2
  <2> QED BY <1>1, <1>7, <2>2, <2>3
<1>14. LimitKept'
  BY <1>1, <1>6, LimitPositive DEF RateInv, LimitKept, RateTypeOK, bucket
<1>15. RefusedOnlyWhenFull'
  <2> SUFFICES ASSUME NEW d \in Callers, caller'[d].pc = "refused"
               PROVE  letThrough'[BucketOf(d)'] >= LimitOf(caller'[d].scope)
    BY DEF RefusedOnlyWhenFull
  <2>1. d # c /\ caller'[d] = caller[d] /\ BucketOf(d)' = BucketOf(d)
    BY <1>2, <1>4
  <2>2. letThrough[BucketOf(d)] >= LimitOf(caller[d].scope)
    BY <2>1 DEF RateInv, RefusedOnlyWhenFull
  <2>3. BucketOf(d) \in Buckets
    BY CallerFields DEF RateInv
  <2> QED BY <1>1, <1>6, <2>1, <2>2, <2>3, LimitPositive DEF RateInv, RateTypeOK
<1> QED BY <1>8, <1>9, <1>11, <1>12, <1>13, <1>14, <1>15 DEF RateInv

\* A step that moves one request and leaves counts, locks and time alone.
LEMMA MoveStep ==
  ASSUME RateInv, NEW c \in Callers, NEW next \in Caller,
         caller' = [caller EXCEPT ![c] = next],
         UNCHANGED <<window, buckets, rowLock, letThrough>>,
         caller[c].pc # "update", next.pc # "update",
         next.pc \in Charging =>
            /\ next.at <= window /\ window <= next.at + Lag
            /\ next.try = 2 => /\ buckets[<<next.scope, next.at>>] # 0
                              /\ next.pc # "insert",
         next.pc = "refused" =>
            letThrough[<<next.scope, next.at>>] >= LimitOf(next.scope)
  PROVE  RateInv'
<1>1. /\ caller'[c] = next /\ BucketOf(c)' = <<next.scope, next.at>>
      /\ \A d \in Callers \ {c} : caller'[d] = caller[d] /\ BucketOf(d)' = BucketOf(d)
  BY DEF RateInv, RateTypeOK, BucketOf
<1>2. RateTypeOK'
  BY DEF RateInv, RateTypeOK
<1>3. InTime'
  BY <1>1 DEF RateInv, InTime
<1>4. LocksHeld'
  <2>1. ASSUME NEW d \in Callers, caller'[d].pc = "update" PROVE Holds(d)'
    BY <1>1, <2>1 DEF RateInv, LocksHeld, Holds
  <2>2. ASSUME NEW b \in Buckets, NEW d \in Callers, rowLock'[b] = d
        PROVE  caller'[d].pc = "update" /\ BucketOf(d)' = b
    BY <1>1, <2>2 DEF RateInv, LocksHeld
  <2> QED BY <2>1, <2>2 DEF LocksHeld
<1>5. SecondTry'
  BY <1>1 DEF RateInv, SecondTry
<1>6. RefusedOnlyWhenFull'
  BY <1>1 DEF RateInv, RefusedOnlyWhenFull
<1>7. Counted' /\ LimitKept'
  BY DEF RateInv, Counted, LimitKept
<1> QED BY <1>2, <1>3, <1>4, <1>5, <1>6, <1>7 DEF RateInv

\* A step that releases the lock of a request, if it has one, and charges
\* nothing: the request is refused at the limit, or gone.
LEMMA ReleaseStep ==
  ASSUME RateInv, NEW c \in Callers, NEW next \in Caller,
         caller' = [caller EXCEPT ![c] = next],
         rowLock' = [b \in Buckets |-> IF rowLock[b] = c THEN NoCaller
                                       ELSE rowLock[b]],
         UNCHANGED <<window, buckets, letThrough>>,
         next.pc \notin Charging,
         next.pc = "refused" =>
            letThrough[<<next.scope, next.at>>] >= LimitOf(next.scope)
  PROVE  RateInv'
<1>1. /\ caller'[c] = next /\ BucketOf(c)' = <<next.scope, next.at>>
      /\ \A d \in Callers \ {c} : caller'[d] = caller[d] /\ BucketOf(d)' = BucketOf(d)
  BY DEF RateInv, RateTypeOK, BucketOf
<1>2. RateTypeOK'
  BY DEF RateInv, RateTypeOK
<1>3. InTime'
  BY <1>1 DEF RateInv, InTime
<1>4. LocksHeld'
  <2>1. ASSUME NEW d \in Callers, caller'[d].pc = "update" PROVE Holds(d)'
    <3>1. d # c /\ Holds(d)
      BY <1>1, <2>1 DEF RateInv, LocksHeld, Charging
    <3>2. rowLock'[BucketOf(d)] = d
      BY <3>1, CallerFields DEF RateInv, Holds
    <3> QED BY <1>1, <3>1, <3>2 DEF Holds
  <2>2. ASSUME NEW b \in Buckets, NEW d \in Callers, rowLock'[b] = d
        PROVE  caller'[d].pc = "update" /\ BucketOf(d)' = b
    <3>1. d # c /\ rowLock[b] = d
      BY <2>2, ScopesAssumption
    <3> QED BY <1>1, <3>1 DEF RateInv, LocksHeld
  <2> QED BY <2>1, <2>2 DEF LocksHeld
<1>5. SecondTry'
  BY <1>1 DEF RateInv, SecondTry
<1>6. RefusedOnlyWhenFull'
  BY <1>1 DEF RateInv, RefusedOnlyWhenFull
<1>7. Counted' /\ LimitKept'
  BY DEF RateInv, Counted, LimitKept
<1> QED BY <1>2, <1>3, <1>4, <1>5, <1>6, <1>7 DEF RateInv

-----------------------------------------------------------------------------
LEMMA RateStepInv == RateInv /\ [RateNext]_rateVars => RateInv'
<1> SUFFICES ASSUME RateInv, [RateNext]_rateVars PROVE RateInv'
  OBVIOUS
<1>0. CASE UNCHANGED rateVars
  BY <1>0 DEF rateVars, RateInv, RateTypeOK, InTime, LocksHeld, Holds, Counted,
              SecondTry, LimitKept, RefusedOnlyWhenFull, BucketOf
<1>1. ASSUME NEW c \in Callers, NEW device \in Devices,
             NEW account_ \in Accounts \cup {NoAccount}, Arrive(c, device, account_)
      PROVE  RateInv'
  <2> DEFINE next == [pc |-> "select", device |-> device, account |-> account_,
                      scope |-> device, at |-> window, try |-> 1, seen |-> 0]
  <2>1. next \in Caller
    BY DEF RateInv, RateTypeOK, Caller, Charging, Scopes
  <2>2. window <= window /\ window <= window + Lag
    BY LagAssumption DEF RateInv, RateTypeOK, Windows
  <2>3. /\ next.pc = "select" /\ next.at = window /\ next.try = 1
        /\ caller' = [caller EXCEPT ![c] = next]
        /\ UNCHANGED <<window, buckets, rowLock, letThrough>>
        /\ caller[c].pc # "update"
    BY <1>1 DEF Arrive, Charging
  <2> HIDE DEF next
  <2>4. next.pc # "update" /\ next.pc # "refused" /\ next.try # 2
    BY <2>3
  <2>5. next.at <= window /\ window <= next.at + Lag
    BY <2>2, <2>3
  <2> QED BY <2>1, <2>3, <2>4, <2>5, MoveStep
<1>2. ASSUME NEW c \in Callers, SelectBucket(c) PROVE RateInv'
  <2> DEFINE bucket == BucketOf(c)
  <2>0. /\ caller[c] \in Caller /\ bucket \in Buckets /\ caller[c].pc = "select"
        /\ bucket = <<caller[c].scope, caller[c].at>>
    BY <1>2, CallerFields DEF RateInv, SelectBucket, BucketOf
  <2>1. CASE buckets[bucket] = 0
    <3> DEFINE next == [caller[c] EXCEPT !.pc = "insert"]
    <3>1. caller' = [caller EXCEPT ![c] = next]
      BY <1>2, <2>1 DEF SelectBucket
    <3>2. /\ next \in Caller /\ next.pc = "insert" /\ next.scope = caller[c].scope
          /\ next.at = caller[c].at /\ next.try = caller[c].try
      BY <2>0 DEF Caller, Charging
    <3>3. caller[c].try # 2
      BY <2>0, <2>1 DEF RateInv, SecondTry, Charging
    <3>4. caller[c].at <= window /\ window <= caller[c].at + Lag
      BY <2>0 DEF RateInv, InTime, Charging
    <3>5. UNCHANGED <<window, buckets, rowLock, letThrough>>
      BY <1>2, <2>1 DEF SelectBucket
    <3> HIDE DEF next
    <3> QED BY <2>0, <3>1, <3>2, <3>3, <3>4, <3>5, MoveStep
  <2>2. CASE buckets[bucket] # 0
    <3> DEFINE next == [caller[c] EXCEPT !.pc = "update", !.seen = buckets[bucket]]
    <3>1. /\ caller' = [caller EXCEPT ![c] = next]
          /\ rowLock' = [rowLock EXCEPT ![bucket] = c]
          /\ UNCHANGED <<window, buckets, letThrough>>
          /\ rowLock[bucket] \in {NoCaller, c}
      BY <1>2, <2>2 DEF SelectBucket, Lockable
    <3>2. /\ next \in Caller /\ next.pc = "update" /\ next.scope = caller[c].scope
          /\ next.at = caller[c].at /\ next.seen = buckets[bucket]
      <4>1. buckets[bucket] \in Nat
        BY <2>0 DEF RateInv, RateTypeOK
      <4> QED BY <2>0, <4>1 DEF Caller, Charging
    <3> HIDE DEF next
    <3>3. /\ caller'[c] = next /\ BucketOf(c)' = bucket
          /\ \A d \in Callers \ {c} : caller'[d] = caller[d] /\ BucketOf(d)' = BucketOf(d)
      BY <2>0, <3>1, <3>2 DEF RateInv, RateTypeOK, BucketOf
    <3>4. /\ rowLock'[bucket] = c
          /\ \A b \in Buckets \ {bucket} : rowLock'[b] = rowLock[b]
      BY <2>0, <3>1 DEF RateInv, RateTypeOK
    <3>5. RateTypeOK'
      BY <3>1, <3>2 DEF RateInv, RateTypeOK
    <3>6. InTime' /\ SecondTry'
      <4>1. caller[c].at <= window /\ window <= caller[c].at + Lag
        BY <2>0 DEF RateInv, InTime, Charging
      <4>2. InTime'
        BY <3>1, <3>2, <3>3, <4>1 DEF RateInv, InTime
      <4>3. SecondTry'
        BY <2>2, <3>1, <3>2, <3>3 DEF RateInv, SecondTry
      <4> QED BY <4>2, <4>3
    <3>7. LocksHeld'
      <4>1. ASSUME NEW d \in Callers, caller'[d].pc = "update" PROVE Holds(d)'
        <5>1. CASE d = c
          BY <2>2, <3>1, <3>2, <3>3, <3>4, <5>1 DEF Holds
        <5>2. CASE d # c
          <6>1. Holds(d) /\ BucketOf(d) \in Buckets
            BY <3>3, <4>1, <5>2, CallerFields DEF RateInv, LocksHeld
          <6>2. BucketOf(d) # bucket
            BY <3>1, <5>2, <6>1, ScopesAssumption DEF Holds
          <6> QED BY <3>1, <3>3, <3>4, <5>2, <6>1, <6>2 DEF Holds
        <5> QED BY <5>1, <5>2
      <4>2. ASSUME NEW b \in Buckets, NEW d \in Callers, rowLock'[b] = d
            PROVE  caller'[d].pc = "update" /\ BucketOf(d)' = b
        <5>1. CASE b = bucket
          BY <3>2, <3>3, <3>4, <4>2, <5>1
        <5>2. CASE b # bucket
          <6>1. caller[d].pc = "update" /\ BucketOf(d) = b
            BY <3>4, <4>2, <5>2 DEF RateInv, LocksHeld
          <6> QED BY <2>0, <3>3, <6>1
        <5> QED BY <5>1, <5>2
      <4> QED BY <4>1, <4>2 DEF LocksHeld
    <3>8. RefusedOnlyWhenFull'
      BY <3>1, <3>2, <3>3 DEF RateInv, RefusedOnlyWhenFull
    <3>9. Counted' /\ LimitKept'
      BY <3>1 DEF RateInv, Counted, LimitKept
    <3> QED BY <3>5, <3>6, <3>7, <3>8, <3>9 DEF RateInv
  <2> QED BY <2>1, <2>2
<1>3. ASSUME NEW c \in Callers, InsertBucket(c) PROVE RateInv'
  <2> DEFINE bucket == BucketOf(c)
  <2>0. /\ caller[c] \in Caller /\ bucket \in Buckets /\ caller[c].pc = "insert"
        /\ bucket = <<caller[c].scope, caller[c].at>>
        /\ caller[c].at <= window /\ window <= caller[c].at + Lag
        /\ caller[c].at \in Nat /\ window \in Nat
    BY <1>3, CallerFields
    DEF RateInv, InsertBucket, BucketOf, InTime, Charging, RateTypeOK, Windows
  <2>1. CASE buckets[bucket] = 0
    <3>1. letThrough[bucket] = 0
      BY <2>0, <2>1, LagAssumption, CallerFields DEF RateInv, Counted
    <3>2. rowLock[bucket] = NoCaller
      <4>1. ASSUME rowLock[bucket] # NoCaller PROVE FALSE
        <5>1. rowLock[bucket] \in Callers
          BY <2>0, <4>1 DEF RateInv, RateTypeOK
        <5>2. Holds(rowLock[bucket]) /\ BucketOf(rowLock[bucket]) = bucket
          BY <2>0, <5>1 DEF RateInv, LocksHeld
        <5> QED BY <2>1, <5>2 DEF Holds
      <4> QED BY <4>1
    <3>3. CommitCharge(c, bucket, letThrough[bucket] + 1) /\ UNCHANGED window
      BY <1>3, <2>1, <3>1 DEF InsertBucket
    <3>4. letThrough[bucket] < LimitOf(caller[c].scope)
      BY <3>1, LimitPositive
    <3>5. caller[c].pc \in Charging
      BY <2>0 DEF Charging
    <3> QED BY <3>2, <3>3, <3>4, <3>5, CommitStep
  <2>2. CASE buckets[bucket] # 0
    <3> DEFINE next == [caller[c] EXCEPT !.pc = "select", !.try = 2]
    <3>1. caller[c].try = 1
      BY <2>0, CallerFields DEF RateInv, SecondTry, Charging
    <3>2. /\ caller' = [caller EXCEPT ![c] = next]
          /\ UNCHANGED <<window, buckets, rowLock, letThrough>>
      BY <1>3, <2>2, <3>1 DEF InsertBucket, Tries
    <3>3. /\ next \in Caller /\ next.pc = "select" /\ next.scope = caller[c].scope
          /\ next.at = caller[c].at
      BY <2>0 DEF Caller, Charging
    <3> HIDE DEF next
    <3> QED BY <2>0, <2>2, <3>2, <3>3, MoveStep
  <2> QED BY <2>1, <2>2
<1>4. ASSUME NEW c \in Callers, UpdateBucket(c) PROVE RateInv'
  <2> DEFINE bucket == BucketOf(c)
  <2>0. /\ caller[c] \in Caller /\ bucket \in Buckets /\ caller[c].pc = "update"
        /\ bucket = <<caller[c].scope, caller[c].at>>
        /\ Holds(c)
    BY <1>4, CallerFields DEF RateInv, UpdateBucket, BucketOf, LocksHeld
  <2>1. caller[c].seen = letThrough[bucket] /\ rowLock[bucket] = c
    BY <2>0 DEF RateInv, Counted, Holds
  <2>2. CASE caller[c].seen >= LimitOf(caller[c].scope)
    <3> DEFINE next == [caller[c] EXCEPT !.pc = "refused", !.account = NoAccount]
    <3>1. /\ caller' = [caller EXCEPT ![c] = next]
          /\ rowLock' = [rowLock EXCEPT ![bucket] = NoCaller]
          /\ UNCHANGED <<window, buckets, letThrough>>
      <4>1. ~ (caller[c].seen < LimitOf(caller[c].scope))
        BY <2>2, LimitPositive, CallerFields DEF RateInv
      <4> QED BY <1>4, <4>1 DEF UpdateBucket
    <3>2. /\ next \in Caller /\ next.pc = "refused" /\ next.scope = caller[c].scope
          /\ next.at = caller[c].at
      BY <2>0 DEF Caller, Charging
    <3> HIDE DEF next
    <3>3. \A b \in Buckets : rowLock[b] = c => b = bucket
      BY DEF RateInv, LocksHeld
    <3>4. rowLock' = [b \in Buckets |-> IF rowLock[b] = c THEN NoCaller
                                        ELSE rowLock[b]]
      BY <2>0, <2>1, <3>1, <3>3 DEF RateInv, RateTypeOK
    <3> QED BY <2>0, <2>1, <2>2, <3>1, <3>2, <3>4, ReleaseStep DEF Charging
  <2>3. CASE ~ (caller[c].seen >= LimitOf(caller[c].scope))
    <3>1. CommitCharge(c, bucket, letThrough[bucket] + 1) /\ UNCHANGED window
      BY <1>4, <2>1, <2>3 DEF UpdateBucket
    <3>2. letThrough[bucket] < LimitOf(caller[c].scope)
      BY <2>1, <2>3, LimitPositive, CallerFields DEF RateInv
    <3>3. caller[c].pc \in Charging
      BY <2>0 DEF Charging
    <3> QED BY <2>1, <3>1, <3>2, <3>3, CommitStep
  <2> QED BY <2>2, <2>3
<1>5. ASSUME NEW c \in Callers, AbortCharge(c) PROVE RateInv'
  <2>1. Outside(caller[c].device) \in Caller /\ Outside(caller[c].device).pc = "done"
    BY OutsideTyped, CallerFields DEF RateInv
  <2> QED BY <1>5, <2>1, ReleaseStep DEF AbortCharge, Charging
<1>6. CASE NextWindow
  <2>1. /\ window' = window + 1 /\ window \in Windows /\ window < MaxWindow
        /\ UNCHANGED <<buckets, rowLock, caller, letThrough>>
        /\ \A c \in Callers : BucketOf(c)' = BucketOf(c)
    BY <1>6 DEF NextWindow, RateInv, RateTypeOK, BucketOf
  <2>2. RateTypeOK'
    BY <2>1, WindowsAssumption DEF RateInv, RateTypeOK, Windows
  <2>3. InTime'
    <3> SUFFICES ASSUME NEW c \in Callers, caller[c].pc \in Charging
                 PROVE  caller[c].at <= window + 1 /\ window + 1 <= caller[c].at + Lag
      BY <2>1 DEF InTime
    <3>1. window + 1 - caller[c].at <= Lag /\ caller[c].at <= window
      BY <1>6 DEF NextWindow, RateInv, InTime
    <3>2. caller[c].at \in Nat /\ window \in Nat /\ Lag \in Nat
      BY <2>1, LagAssumption, CallerFields DEF RateInv, Windows
    <3> QED BY <3>1, <3>2
  <2>4. Counted'
    <3>1. \A b \in Buckets : b[2] \in Nat
      BY DEF Buckets, Windows
    <3>2. window \in Nat
      BY <2>1 DEF Windows
    <3> QED BY <2>1, <3>1, <3>2 DEF RateInv, Counted
  <2>5. LocksHeld' /\ SecondTry' /\ LimitKept' /\ RefusedOnlyWhenFull'
    BY <2>1 DEF RateInv, LocksHeld, Holds, SecondTry, LimitKept, RefusedOnlyWhenFull
  <2> QED BY <2>2, <2>3, <2>4, <2>5 DEF RateInv
<1> QED BY <1>0, <1>1, <1>2, <1>3, <1>4, <1>5, <1>6 DEF RateNext

\* However requests race for the rows of a window, a scope gets exactly its
\* limit through and is refused only then: the second attempt of
\* _consume_scope always finds a row, so "fail closed" is never reached.
THEOREM BudgetSafe == RateSpec => []BudgetExact
<1>1. RateSpec => []RateInv
  BY RateInitInv, RateStepInv, PTL DEF RateSpec
<1>2. RateInv => BudgetExact
  BY DEF RateInv, BudgetExact
<1> QED BY <1>1, <1>2, PTL

-----------------------------------------------------------------------------
(* The replay guard.                                                       *)

\* The table holds what was accepted last, and what it no longer holds was
\* accepted more than a window ago.
TableCurrent ==
    \A n \in Nonces :
        /\ stored[n] # NotStored => stored[n] = accepted[n]
        /\ accepted[n] # NotAccepted /\ stored[n] = NotStored =>
               now > accepted[n] + ReplayWindow

\* A request in hand passed the window at the time that was read for it.
InHandTimely ==
    \A h \in Receivers : receiver[h].busy =>
        /\ receiver[h].read <= now
        /\ stamped[receiver[h].nonce] # Unsent
        /\ Distance(receiver[h].read, stamped[receiver[h].nonce]) <= ReplayWindow

ReplayInv == ReplayTypeOK /\ TableCurrent /\ InHandTimely

LEMMA WaitingTyped == Waiting \in Receiver
<1>1. (CHOOSE n \in Nonces : TRUE) \in Nonces
  BY ReplayAssumption
<1>2. 0 \in Times
  BY ReplayAssumption DEF Times
<1> QED BY <1>1, <1>2 DEF Waiting, Receiver

LEMMA ReplayInitInv == ReplayInit => ReplayInv
<1> SUFFICES ASSUME ReplayInit PROVE ReplayInv
  OBVIOUS
<1> USE DEF ReplayInit
<1>1. receiver \in [Receivers -> Receiver]
  BY WaitingTyped
<1>2. 0 \in Times
  BY ReplayAssumption DEF Times
<1>3. ReplayTypeOK
  BY <1>1, <1>2 DEF ReplayTypeOK
<1>4. TableCurrent
  BY DEF TableCurrent
<1>5. InHandTimely
  BY DEF InHandTimely, Waiting
<1> QED BY <1>3, <1>4, <1>5 DEF ReplayInv

\* A thread that waits again holds no request.
LEMMA RestStep ==
  ASSUME ReplayInv, NEW h \in Receivers,
         receiver' = [receiver EXCEPT ![h] = Waiting], UNCHANGED <<now, stamped>>
  PROVE  receiver' \in [Receivers -> Receiver] /\ InHandTimely'
<1>1. receiver' \in [Receivers -> Receiver]
  BY WaitingTyped DEF ReplayInv, ReplayTypeOK
<1>2. ~ Waiting.busy
  BY DEF Waiting
<1>3. InHandTimely'
  BY <1>2 DEF ReplayInv, ReplayTypeOK, InHandTimely
<1> QED BY <1>1, <1>3

\* A nonce that can be stored again was accepted more than a window ago.
LEMMA StoredLate ==
  ASSUME ReplayInv, NEW h \in Receivers, receiver[h].busy,
         Remaining(receiver[h].read)[receiver[h].nonce] = NotStored,
         accepted[receiver[h].nonce] # NotAccepted
  PROVE  now > accepted[receiver[h].nonce] + ReplayWindow
<1> DEFINE n == receiver[h].nonce
           read == receiver[h].read
<1>1. n \in Nonces /\ read \in Times /\ read <= now
  BY DEF ReplayInv, ReplayTypeOK, Receiver, InHandTimely
<1>2. CASE stored[n] = NotStored
  BY <1>1, <1>2 DEF ReplayInv, TableCurrent
<1>3. CASE stored[n] # NotStored
  <2>1. Forgotten(n, read)
    BY <1>1, <1>3 DEF Remaining
  <2>2. accepted[n] < read - ReplayWindow
    BY <2>1, <1>1, <1>3 DEF Forgotten, ReplayInv, TableCurrent
  <2>3. accepted[n] \in Int /\ now \in Int /\ read \in Int /\ ReplayWindow \in Int
    BY <1>1, ReplayAssumption DEF ReplayInv, ReplayTypeOK, Times, NotAccepted
  <2> QED BY <2>2, <2>3, <1>1
<1> QED BY <1>2, <1>3

LEMMA StoreStep ==
  ASSUME ReplayInv, NEW h \in Receivers, StoreNonce(h)
  PROVE  ReplayInv'
<1> DEFINE nonce == receiver[h].nonce
           read == receiver[h].read
<1> USE DEF ReplayInv
<1>1. nonce \in Nonces /\ read \in Times /\ read <= now
  BY DEF ReplayTypeOK, Receiver, InHandTimely, StoreNonce
<1>2. receiver' \in [Receivers -> Receiver] /\ InHandTimely'
  BY RestStep DEF StoreNonce
<1>3. \A n \in Nonces :
        /\ stored'[n] = IF n = nonce THEN read
                        ELSE IF Forgotten(n, read) THEN NotStored ELSE stored[n]
        /\ accepted'[n] = IF n = nonce THEN read ELSE accepted[n]
  BY <1>1 DEF StoreNonce, Remaining, ReplayTypeOK
<1>4. stored' \in [Nonces -> Times \cup {NotStored}]
      /\ accepted' \in [Nonces -> Times \cup {NotAccepted}]
  <2>1. Remaining(read) \in [Nonces -> Times \cup {NotStored}]
    BY DEF Remaining, ReplayTypeOK
  <2>2. /\ stored' = [Remaining(read) EXCEPT ![nonce] = read]
        /\ accepted' = [accepted EXCEPT ![nonce] = read]
    BY DEF StoreNonce
  <2> QED BY <2>1, <2>2, <1>1 DEF ReplayTypeOK
<1>5. ASSUME NEW n \in Nonces
      PROVE  /\ stored'[n] # NotStored => stored'[n] = accepted'[n]
             /\ accepted'[n] # NotAccepted /\ stored'[n] = NotStored =>
                    now' > accepted'[n] + ReplayWindow
  <2>0. now' = now
    BY DEF StoreNonce
  <2>1. CASE n = nonce
    BY <2>1, <1>1, <1>3 DEF NotStored, Times
  <2>2. CASE n # nonce /\ ~ Forgotten(n, read)
    BY <2>0, <2>2, <1>3 DEF TableCurrent
  <2>3. CASE n # nonce /\ Forgotten(n, read)
    <3>1. stored'[n] = NotStored /\ accepted'[n] = accepted[n]
      BY <2>3, <1>3
    <3>2. CASE stored[n] = NotStored
      BY <2>0, <3>1, <3>2 DEF TableCurrent
    <3>3. CASE stored[n] # NotStored
      <4>1. accepted[n] < read - ReplayWindow
        BY <2>3, <3>3 DEF Forgotten, TableCurrent
      <4>2. accepted[n] \in Int /\ now \in Int /\ read \in Int /\ ReplayWindow \in Int
        BY <1>1, ReplayAssumption DEF ReplayTypeOK, Times, NotAccepted
      <4> QED BY <2>0, <3>1, <4>1, <4>2, <1>1
    <3> QED BY <3>2, <3>3
  <2> QED BY <2>1, <2>2, <2>3
<1>6. TableCurrent'
  BY <1>5 DEF TableCurrent
<1>7. ReplayTypeOK'
  BY <1>2, <1>4 DEF ReplayTypeOK, StoreNonce
<1> QED BY <1>2, <1>6, <1>7

LEMMA ReplayStepInv == ReplayInv /\ [ReplayNext]_replayVars => ReplayInv'
<1> SUFFICES ASSUME ReplayInv, [ReplayNext]_replayVars PROVE ReplayInv'
  OBVIOUS
<1> USE DEF ReplayInv
<1>1. CASE UNCHANGED replayVars
  BY <1>1 DEF replayVars, ReplayTypeOK, TableCurrent, InHandTimely
<1>2. ASSUME NEW nonce \in Nonces, NEW stamp \in Stamps, Send(nonce, stamp)
      PROVE  ReplayInv'
  <2>1. ReplayTypeOK'
    BY <1>2 DEF Send, ReplayTypeOK
  <2>2. InHandTimely'
    BY <1>2 DEF Send, ReplayTypeOK, InHandTimely, Receiver
  <2>3. TableCurrent'
    BY <1>2 DEF Send, TableCurrent
  <2> QED BY <2>1, <2>2, <2>3
<1>3. ASSUME NEW h \in Receivers, NEW nonce \in Nonces, Deliver(h, nonce)
      PROVE  ReplayInv'
  <2> DEFINE new == [busy |-> TRUE, nonce |-> nonce, read |-> now]
  <2>1. new \in Receiver
    BY DEF Receiver, ReplayTypeOK
  <2>2. receiver' = [receiver EXCEPT ![h] = new]
    BY <1>3 DEF Deliver
  <2>3. ReplayTypeOK'
    BY <1>3, <2>1, <2>2 DEF Deliver, ReplayTypeOK
  <2>4. now <= now
    BY DEF ReplayTypeOK, Times
  <2>5. InHandTimely'
    BY <1>3, <2>2, <2>4 DEF Deliver, ReplayTypeOK, InHandTimely
  <2>6. TableCurrent'
    BY <1>3 DEF Deliver, TableCurrent
  <2> QED BY <2>3, <2>5, <2>6
<1>4. ASSUME NEW h \in Receivers, StoreNonce(h) PROVE ReplayInv'
  BY <1>4, StoreStep
<1>5. ASSUME NEW h \in Receivers, RejectNonce(h) PROVE ReplayInv'
  <2>1. receiver' \in [Receivers -> Receiver] /\ InHandTimely'
    BY <1>5, RestStep DEF RejectNonce
  <2> QED BY <1>5, <2>1 DEF RejectNonce, ReplayTypeOK, TableCurrent
<1>6. CASE TickReplay
  <2>1. now' \in Times /\ now' = now + 1 /\ now \in Int
    BY <1>6, ReplayAssumption DEF TickReplay, ReplayTypeOK, Times
  <2>2. ReplayTypeOK'
    BY <1>6, <2>1 DEF TickReplay, ReplayTypeOK
  <2>3. \A n \in Nonces : accepted[n] \in Int
    BY DEF ReplayTypeOK, Times, NotAccepted
  <2>4. TableCurrent'
    BY <1>6, <2>1, <2>3, ReplayAssumption DEF TickReplay, TableCurrent
  <2>5. \A h \in Receivers : receiver[h].read \in Int
    BY DEF ReplayTypeOK, Receiver, Times
  <2>6. InHandTimely'
    BY <1>6, <2>1, <2>5 DEF TickReplay, InHandTimely
  <2> QED BY <2>2, <2>4, <2>6
<1> QED BY <1>1, <1>2, <1>3, <1>4, <1>5, <1>6 DEF ReplayNext

\* Only StoreNonce gives a nonce a new row, and it does so for a request whose
\* stamp lies within the window of the time it read.
LEMMA StoredAgain ==
  ASSUME ReplayInv, [ReplayNext]_replayVars, NEW n \in Nonces,
         accepted[n] # NotAccepted, stored'[n] \notin {stored[n], NotStored}
  PROVE  /\ now > accepted[n] + ReplayWindow
         /\ \/ stamped[n] > accepted[n]
            \/ stored'[n] < now
<1>1. stored' # stored
  OBVIOUS
<1>2. PICK h \in Receivers : StoreNonce(h)
  BY <1>1 DEF ReplayNext, replayVars, Send, Deliver, RejectNonce, TickReplay
<1> DEFINE nonce == receiver[h].nonce
           read == receiver[h].read
<1>3. /\ nonce \in Nonces /\ read \in Times /\ read <= now
      /\ stamped[nonce] # Unsent
      /\ Distance(read, stamped[nonce]) <= ReplayWindow
  BY <1>2 DEF StoreNonce, ReplayInv, ReplayTypeOK, Receiver, InHandTimely
<1>4. n = nonce /\ stored'[n] = read
  BY <1>2, <1>3 DEF StoreNonce, Remaining, ReplayInv, ReplayTypeOK
<1>5. now > accepted[n] + ReplayWindow
  BY <1>2, <1>4, StoredLate DEF StoreNonce
<1>6. /\ stamped[n] \in Int /\ accepted[n] \in Int /\ now \in Int
      /\ read \in Int /\ ReplayWindow \in Int
  BY <1>3, ReplayAssumption
  DEF ReplayInv, ReplayTypeOK, Stamps, Unsent, Times, NotAccepted
<1>7. CASE read < now
  BY <1>4, <1>5, <1>7
<1>8. CASE read = now
  <2>1. stamped[n] >= now - ReplayWindow
    BY <1>3, <1>4, <1>6, <1>8 DEF Distance
  <2> QED BY <1>5, <1>6, <2>1
<1>9. read < now \/ read = now
  BY <1>3, <1>6
<1> QED BY <1>7, <1>8, <1>9

\* However often and however late copies of a request arrive, it is accepted
\* again only after the window, and then only if its stamp was ahead of the
\* server's clock or the copy had been held up (verify_replay_headers).
THEOREM NonceSafe == ReplaySpec => NonceRemembered
<1>1. ReplaySpec => []ReplayInv
  BY ReplayInitInv, ReplayStepInv, PTL DEF ReplaySpec
<1>2. ReplayInv /\ [ReplayNext]_replayVars =>
        [\A nonce \in Nonces :
          /\ accepted[nonce] # NotAccepted
          /\ stored'[nonce] \notin {stored[nonce], NotStored}
          => /\ now > accepted[nonce] + ReplayWindow
             /\ \/ stamped[nonce] > accepted[nonce]
                \/ stored'[nonce] < now]_replayVars
  BY StoredAgain
<1> QED BY <1>1, <1>2, PTL DEF ReplaySpec, NonceRemembered

-----------------------------------------------------------------------------
(* Sign-in, lockout and the second factor.                                 *)

\* Nobody has read a clock that is ahead of the server's.
ReadsPast == \A h \in Attempts : attempt[h].read <= time

SignInv == SignTypeOK /\ ReadsPast

LEMMA BlankTyped == Blank \in Account
  BY LockAssumption DEF Blank, Account, NotLocked

LEMMA NoAttemptTyped == NoAttempt \in Attempt
  BY BlankTyped, LockAssumption DEF NoAttempt, Attempt, Clock

LEMMA SignInitInv == SignInit => SignInv
<1> SUFFICES ASSUME SignInit PROVE SignInv
  OBVIOUS
<1> USE DEF SignInit
<1>1. attempt \in [Attempts -> Attempt]
  BY NoAttemptTyped
<1>2. SignTypeOK
  <2>1. 1 \in Clock
    BY LockAssumption DEF Clock
  <2> QED BY <1>1, <2>1, BlankTyped DEF SignTypeOK
<1>3. ReadsPast
  BY DEF ReadsPast, NoAttempt
<1> QED BY <1>2, <1>3 DEF SignInv

\* A request that begins holds the row and the clock of this moment.
LEMMA AttemptBegins ==
  ASSUME SignInv, NEW h \in Attempts,
         NEW op \in {"login", "setup", "enable"}, NEW right \in BOOLEAN,
         NEW code \in Secrets \cup {NoSecret}, Begin(h, op, right, code)
  PROVE  SignInv'
<1> DEFINE new == [op |-> op, loaded |-> account, read |-> time,
                   right |-> right, code |-> code]
<1> USE DEF SignInv, SignTypeOK, Begin
<1>1. new \in Attempt
  BY DEF Attempt
<1>2. attempt' = [attempt EXCEPT ![h] = new]
  OBVIOUS
<1>3. attempt' \in [Attempts -> Attempt]
  BY <1>1, <1>2
<1>4. ReadsPast'
  BY <1>2, LockAssumption DEF ReadsPast, Clock
<1> QED BY <1>3, <1>4

\* An answered request leaves its thread as it was before.
LEMMA AnsweredStep ==
  ASSUME SignInv, NEW h \in Attempts, Answered(h), UNCHANGED time
  PROVE  attempt' \in [Attempts -> Attempt] /\ ReadsPast'
<1> USE DEF SignInv, SignTypeOK, Answered
<1>1. attempt' \in [Attempts -> Attempt]
  BY NoAttemptTyped
<1>2. NoAttempt.read = 1 /\ 1 <= time
  BY LockAssumption DEF NoAttempt, Clock
<1>3. ReadsPast'
  BY <1>2 DEF ReadsPast
<1> QED BY <1>1, <1>3

\* The fields of a request and of the row it loaded.
LEMMA AttemptFields ==
  ASSUME SignTypeOK, NEW h \in Attempts
  PROVE  /\ attempt[h] \in Attempt
         /\ attempt[h].loaded \in Account
         /\ attempt[h].loaded.failed \in 0 .. MaxFailures - 1
         /\ attempt[h].loaded.lockedUntil \in {NotLocked} \cup (1 .. MaxTime + LockLength)
         /\ attempt[h].loaded.secret \in Secrets \cup {NoSecret}
         /\ attempt[h].loaded.enabled \in BOOLEAN
         /\ attempt[h].read \in Clock
         /\ attempt[h].code \in Secrets \cup {NoSecret}
  BY DEF SignTypeOK, Attempt, Account

LEMMA SignStepInv == SignInv /\ [SignNext]_signVars => SignInv'
<1> SUFFICES ASSUME SignInv, [SignNext]_signVars PROVE SignInv'
  OBVIOUS
<1>0. CASE UNCHANGED signVars
  BY <1>0 DEF signVars, SignInv, SignTypeOK, ReadsPast
<1>1. ASSUME NEW h \in Attempts, BeginLogin(h) PROVE SignInv'
  <2>1. PICK right \in BOOLEAN, code \in {NoSecret, account.secret} :
           Begin(h, "login", right, code)
    BY <1>1 DEF BeginLogin
  <2>2. code \in Secrets \cup {NoSecret}
    BY DEF SignInv, SignTypeOK, Account
  <2> QED BY <2>1, <2>2, AttemptBegins
<1>2. ASSUME NEW h \in Attempts, BeginSetup(h) PROVE SignInv'
  BY <1>2, AttemptBegins DEF BeginSetup
<1>3. ASSUME NEW h \in Attempts, BeginEnable(h) PROVE SignInv'
  <2>1. PICK code \in {NoSecret, account.secret} : Begin(h, "enable", TRUE, code)
    BY <1>3 DEF BeginEnable
  <2>2. code \in Secrets \cup {NoSecret}
    BY DEF SignInv, SignTypeOK, Account
  <2> QED BY <2>1, <2>2, AttemptBegins
<1>4. ASSUME NEW h \in Attempts, RefuseLogin(h) PROVE SignInv'
  BY <1>4, AnsweredStep DEF RefuseLogin, SignInv, SignTypeOK
<1>5. ASSUME NEW h \in Attempts, WrongPassword(h) PROVE SignInv'
  <2> DEFINE a == attempt[h]
             failed == a.loaded.failed + 1
             newFailed == Written(a.loaded.failed, IF Locks(failed) THEN 0 ELSE failed,
                                  account.failed)
             newLock == IF Locks(failed)
                        THEN Written(a.loaded.lockedUntil, a.read + LockLength,
                                     account.lockedUntil)
                        ELSE account.lockedUntil
  <2>1. attempt' \in [Attempts -> Attempt] /\ ReadsPast'
    BY <1>5, AnsweredStep DEF WrongPassword
  <2>2. account' = [account EXCEPT !.failed = newFailed, !.lockedUntil = newLock]
    BY <1>5 DEF WrongPassword
  <2>3. newFailed \in 0 .. MaxFailures - 1
    BY AttemptFields, LockAssumption DEF Written, Locks, SignInv, SignTypeOK, Account
  <2>4. newLock \in {NotLocked} \cup (1 .. MaxTime + LockLength)
    BY AttemptFields, LockAssumption
    DEF Written, Locks, SignInv, SignTypeOK, Account, Clock
  <2>5. account' \in Account
    <3> HIDE DEF newFailed, newLock
    <3> QED BY <2>2, <2>3, <2>4 DEF SignInv, SignTypeOK, Account
  <2>6. guesses' \in Nat
    BY <1>5 DEF WrongPassword, SignInv, SignTypeOK
  <2> QED BY <1>5, <2>1, <2>5, <2>6 DEF WrongPassword, SignInv, SignTypeOK
<1>6. ASSUME NEW h \in Attempts, LoginSucceeds(h) PROVE SignInv'
  <2>1. attempt' \in [Attempts -> Attempt] /\ ReadsPast'
    BY <1>6, AnsweredStep DEF LoginSucceeds
  <2> DEFINE a == attempt[h]
             newFailed == Written(a.loaded.failed, 0, account.failed)
             newLock == Written(a.loaded.lockedUntil, NotLocked, account.lockedUntil)
  <2>2. account' = [account EXCEPT !.failed = newFailed, !.lockedUntil = newLock]
    BY <1>6 DEF LoginSucceeds
  <2>3. newFailed \in 0 .. MaxFailures - 1
    BY LockAssumption DEF Written, SignInv, SignTypeOK, Account
  <2>4. newLock \in {NotLocked} \cup (1 .. MaxTime + LockLength)
    BY DEF Written, SignInv, SignTypeOK, Account
  <2>5. account' \in Account
    <3> HIDE DEF newFailed, newLock
    <3> QED BY <2>2, <2>3, <2>4 DEF SignInv, SignTypeOK, Account
  <2> QED BY <1>6, <2>1, <2>5 DEF LoginSucceeds, SignInv, SignTypeOK
<1>7. ASSUME NEW h \in Attempts, NEW secret \in Secrets, SetupTotp(h, secret)
      PROVE SignInv'
  <2>1. attempt' \in [Attempts -> Attempt] /\ ReadsPast'
    BY <1>7, AnsweredStep DEF SetupTotp
  <2>2. account' \in Account
    BY <1>7 DEF SetupTotp, EnabledAfterSetup, Written, SignInv, SignTypeOK, Account
  <2>3. crossed' \in BOOLEAN
    BY <1>7 DEF SetupTotp
  <2> QED BY <1>7, <2>1, <2>2, <2>3 DEF SetupTotp, SignInv, SignTypeOK
<1>8. ASSUME NEW h \in Attempts, EnableTotp(h) PROVE SignInv'
  <2>1. attempt' \in [Attempts -> Attempt] /\ ReadsPast'
    BY <1>8, AnsweredStep DEF EnableTotp
  <2>2. account' \in Account
    BY <1>8 DEF EnableTotp, Written, SignInv, SignTypeOK, Account
  <2>3. attempt[h].code \in Secrets
    BY <1>8, AttemptFields DEF EnableTotp, SignInv
  <2>4. crossed' \in BOOLEAN
    BY <1>8 DEF EnableTotp
  <2> QED BY <1>8, <2>1, <2>2, <2>3, <2>4 DEF EnableTotp, SignInv, SignTypeOK
<1>9. ASSUME NEW h \in Attempts, AbandonAttempt(h) PROVE SignInv'
  BY <1>9, AnsweredStep DEF AbandonAttempt, SignInv, SignTypeOK
<1>10. CASE TickSign
  <2>1. time' \in Clock /\ time <= time'
    BY <1>10, LockAssumption DEF TickSign, SignInv, SignTypeOK, Clock
  <2>2. ReadsPast'
    BY <1>10, <2>1, AttemptFields DEF TickSign, SignInv, SignTypeOK, ReadsPast, Clock
  <2> QED BY <1>10, <2>1, <2>2 DEF TickSign, SignInv, SignTypeOK
<1> QED BY <1>0, <1>1, <1>2, <1>3, <1>4, <1>5, <1>6, <1>7, <1>8, <1>9, <1>10
        DEF SignNext

\* The row, the clock and every request in hand have values of their kind,
\* whatever the requests lose to each other: failed never reaches the limit.
THEOREM SignTypes == SignSpec => [](SignTypeOK /\ ReadsPast)
<1>1. SignSpec => []SignInv
  BY SignInitInv, SignStepInv, PTL DEF SignSpec
<1> QED BY <1>1, PTL DEF SignInv

-----------------------------------------------------------------------------
\* A step that lowers a lock which has not run out ends a login that had
\* loaded the row before the lock was set: it found the lock it had loaded
\* not in force at a time that is past now.
LEMMA LockStep ==
  ASSUME SignInv, [SignNext]_signVars,
         account.lockedUntil > time, account'.lockedUntil < account.lockedUntil
  PROVE  \E h \in Attempts :
            /\ attempt[h].op = "login" /\ attempt'[h].op = "none"
            /\ attempt[h].loaded.lockedUntil # account.lockedUntil
<1> DEFINE Lowers(h) == /\ attempt[h].op = "login" /\ attempt'[h].op = "none"
                        /\ attempt[h].loaded.lockedUntil # account.lockedUntil
<1>a. account \in Account /\ account.lockedUntil \in Int /\ time \in Int
  BY LockAssumption DEF SignInv, SignTypeOK, Account, NotLocked, Clock
<1>b. ~ (account'.lockedUntil = account.lockedUntil)
  BY <1>a
\* Whoever did not find a lock in force does not hold the one that is.
<1>c. ASSUME NEW h \in Attempts, Login(h), ~ Locked(attempt[h]), Answered(h)
      PROVE  Lowers(h)
  <2>1. attempt[h].loaded.lockedUntil <= attempt[h].read
    BY <1>c, AttemptFields, LockAssumption DEF Locked, SignInv, Clock, NotLocked
  <2>2. attempt[h].read <= time
    BY DEF SignInv, ReadsPast
  <2>3. attempt[h].loaded.lockedUntil # account.lockedUntil
    BY <2>1, <2>2, <1>a, AttemptFields, LockAssumption DEF SignInv, Clock, NotLocked
  <2>4. attempt'[h].op = "none"
    BY <1>c DEF Answered, NoAttempt, SignInv, SignTypeOK
  <2> QED BY <2>3, <2>4, <1>c DEF Login
<1>1. CASE \E h \in Attempts : WrongPassword(h)
  BY <1>1, <1>c DEF WrongPassword
<1>2. CASE \E h \in Attempts : LoginSucceeds(h)
  BY <1>2, <1>c DEF LoginSucceeds
<1>3. CASE UNCHANGED account
  BY <1>3, <1>b
<1>4. ASSUME NEW h \in Attempts, NEW secret \in Secrets, SetupTotp(h, secret)
      PROVE  FALSE
  BY <1>4, <1>a, <1>b DEF SetupTotp, Account
<1>5. ASSUME NEW h \in Attempts, EnableTotp(h) PROVE FALSE
  BY <1>5, <1>a, <1>b DEF EnableTotp, Account
<1>6. \/ \E h \in Attempts : WrongPassword(h) \/ LoginSucceeds(h)
      \/ \E h \in Attempts, secret \in Secrets : SetupTotp(h, secret)
      \/ \E h \in Attempts : EnableTotp(h)
      \/ UNCHANGED account
  BY DEF SignNext, signVars, BeginLogin, BeginSetup, BeginEnable, Begin,
         RefuseLogin, AbandonAttempt, TickSign
<1> QED BY <1>1, <1>2, <1>3, <1>4, <1>5, <1>6

\* However attempts overlap, only one that had loaded the row before the lock
\* was set can lift it or cut it short (login of auth.py).
THEOREM LockSafe == SignSpec => LockKept
<1>1. SignInv /\ [SignNext]_signVars =>
        [account.lockedUntil > time /\ account'.lockedUntil < account.lockedUntil =>
          \E h \in Attempts :
             /\ attempt[h].op = "login" /\ attempt'[h].op = "none"
             /\ attempt[h].loaded.lockedUntil # account.lockedUntil]_signVars
  BY LockStep
<1>2. SignSpec => []SignInv
  BY SignInitInv, SignStepInv, PTL DEF SignSpec
<1> QED BY <1>1, <1>2, PTL DEF SignSpec, LockKept

-----------------------------------------------------------------------------
LEMMA FactorStep ==
  ASSUME SignTypeOK, FactorConfirmed, [SignNext]_signVars
  PROVE  FactorConfirmed'
<1> USE DEF FactorConfirmed
<1>1. CASE UNCHANGED <<account, proved, crossed>>
  BY <1>1
<1>2. ASSUME NEW h \in Attempts, WrongPassword(h) \/ LoginSucceeds(h)
      PROVE  FactorConfirmed'
  <2>1. /\ account'.secret = account.secret /\ account'.enabled = account.enabled
        /\ proved' = proved /\ crossed' = crossed
    BY <1>2 DEF WrongPassword, LoginSucceeds, SignTypeOK, Account
  <2> QED BY <2>1
<1>3. ASSUME NEW h \in Attempts, NEW secret \in Secrets, SetupTotp(h, secret)
      PROVE  FactorConfirmed'
  <2>1. account'.enabled = EnabledAfterSetup(attempt[h])
    BY <1>3 DEF SetupTotp, SignTypeOK, Account
  <2>2. ~ crossed' => attempt[h].loaded.enabled = account.enabled
    BY <1>3 DEF SetupTotp
  <2>3. ~ crossed' => ~ account'.enabled
    BY <2>1, <2>2, AttemptFields DEF EnabledAfterSetup, Written
  <2> QED BY <2>3
<1>4. ASSUME NEW h \in Attempts, EnableTotp(h) PROVE FactorConfirmed'
  <2>1. account'.secret = account.secret
    BY <1>4 DEF EnableTotp, SignTypeOK, Account
  <2>2. ~ crossed' => attempt[h].loaded.secret = account.secret
    BY <1>4 DEF EnableTotp
  <2>3. attempt[h].loaded.secret \in proved'
    BY <1>4 DEF EnableTotp
  <2> QED BY <2>1, <2>2, <2>3
<1>5. \/ \E h \in Attempts : WrongPassword(h) \/ LoginSucceeds(h)
      \/ \E h \in Attempts, secret \in Secrets : SetupTotp(h, secret)
      \/ \E h \in Attempts : EnableTotp(h)
      \/ UNCHANGED <<account, proved, crossed>>
  BY DEF SignNext, signVars, BeginLogin, BeginSetup, BeginEnable, Begin,
         RefuseLogin, AbandonAttempt, TickSign
<1> QED BY <1>1, <1>2, <1>3, <1>4, <1>5

\* The second factor is asked for only under a secret for which a valid code was
\* shown, unless the set-up of that very secret and a confirmation overlapped:
\* an overlap leaves nothing behind once the next set-up overlaps none
\* (setup_totp, enable_totp of auth.py).
THEOREM FactorSafe == SignSpec => []FactorConfirmed
<1>1. SignInit => FactorConfirmed
  BY DEF SignInit, FactorConfirmed, Blank
<1>2. SignInv => SignTypeOK
  BY DEF SignInv
<1>3. SignTypeOK /\ FactorConfirmed /\ [SignNext]_signVars => FactorConfirmed'
  BY FactorStep
<1>4. SignSpec => []SignInv
  BY SignInitInv, SignStepInv, PTL DEF SignSpec
<1> QED BY <1>1, <1>2, <1>3, <1>4, PTL DEF SignSpec

-----------------------------------------------------------------------------
(* How many wrong passwords lock an account.                               *)

\* What holds of zero and of the successor of every number it holds of.
LEMMA EveryNumber ==
  ASSUME NEW S, 0 \in S, \A n \in Nat : n \in S => n + 1 \in S
  PROVE  \A n \in Nat : n \in S
<1> DEFINE missing == {n \in Nat : n \notin S}
<1> SUFFICES ASSUME missing # {} PROVE FALSE
  OBVIOUS
<1>1. PICK least \in missing : \A n \in missing : least <= n
  BY LeastOf
<1>2. least # 0 /\ least \in Nat
  OBVIOUS
<1>3. least - 1 \in Nat /\ ~ (least <= least - 1)
  BY <1>2
<1>4. least - 1 \in S
  BY <1>1, <1>3
<1> QED BY <1>3, <1>4

\* f starts with base and goes on from each value to the next.
Iterates(f, base, next) ==
  f[0] = base /\ \A n \in Nat : f[n + 1] = next[n][f[n]]

\* The function that starts with a value and goes on from each to the next
\* exists.
LEMMA Iteration ==
  ASSUME NEW V, NEW base \in V, NEW next \in [Nat -> [V -> V]]
  PROVE  \E f \in [Nat -> V] : Iterates(f, base, next)
<1> DEFINE Upto(f, n) == /\ f \in [Nat -> V] /\ f[0] = base
                         /\ \A i \in Nat : i < n => f[i + 1] = next[i][f[i]]
           reached == {n \in Nat : \E f \in [Nat -> V] : Upto(f, n)}
<1>1. 0 \in reached
  <2>1. Upto([n \in Nat |-> base], 0)
    OBVIOUS
  <2> QED BY <2>1
<1>2. ASSUME NEW n \in Nat, n \in reached PROVE n + 1 \in reached
  <2>1. PICK f \in [Nat -> V] : Upto(f, n)
    BY <1>2
  <2> DEFINE g == [i \in Nat |-> IF i <= n THEN f[i] ELSE next[n][f[n]]]
  <2>2. g \in [Nat -> V]
    OBVIOUS
  <2>3. g[0] = base
    BY <2>1
  <2>4. ASSUME NEW i \in Nat, i < n + 1 PROVE g[i + 1] = next[i][g[i]]
    <3>1. g[i] = f[i]
      BY <2>4
    <3>2. CASE i < n
      BY <2>1, <3>1, <3>2
    <3>3. CASE i = n
      BY <3>1, <3>3
    <3> QED BY <2>4, <3>2, <3>3
  <2>5. Upto(g, n + 1)
    <3> HIDE DEF g
    <3> QED BY <2>2, <2>3, <2>4
  <2> QED
    <3> HIDE DEF g, Upto
    <3> QED BY <2>2, <2>5
<1>3. \A n \in Nat : n \in reached
  <2> HIDE DEF reached
  <2> QED BY <1>1, <1>2, EveryNumber
<1> DEFINE till == [n \in Nat |-> CHOOSE f \in [Nat -> V] : Upto(f, n)]
           all == [n \in Nat |-> till[n][n]]
<1>4. ASSUME NEW n \in Nat PROVE till[n] \in [Nat -> V] /\ Upto(till[n], n)
  <2>1. till[n] = CHOOSE f \in [Nat -> V] : Upto(f, n)
    OBVIOUS
  <2>2. \E f \in [Nat -> V] : Upto(f, n)
    BY <1>3
  <2> HIDE DEF Upto
  <2> QED BY <2>1, <2>2
<1>5. ASSUME NEW n \in Nat, NEW f \in [Nat -> V], NEW g \in [Nat -> V],
             Upto(f, n), Upto(g, n)
      PROVE  f[n] = g[n]
  <2> DEFINE same == {i \in Nat : i <= n => f[i] = g[i]}
  <2>1. 0 \in same
    BY <1>5
  <2>2. ASSUME NEW i \in Nat, i \in same PROVE i + 1 \in same
    <3> SUFFICES ASSUME i + 1 <= n PROVE f[i + 1] = g[i + 1]
      OBVIOUS
    <3>1. f[i] = g[i]
      BY <2>2
    <3> QED BY <1>5, <3>1
  <2>3. \A i \in Nat : i \in same
    <3> HIDE DEF same
    <3> QED BY <2>1, <2>2, EveryNumber
  <2> QED BY <2>3
<1>6. all \in [Nat -> V]
  <2> HIDE DEF till
  <2> QED BY <1>4
<1>7. all[0] = base
  <2> HIDE DEF till
  <2> QED BY <1>4
<1>8. ASSUME NEW n \in Nat PROVE all[n + 1] = next[n][all[n]]
  <2> HIDE DEF till
  <2>1. Upto(till[n + 1], n + 1) /\ till[n + 1] \in [Nat -> V]
    <3> HIDE DEF Upto
    <3> QED BY <1>4
  <2>2. Upto(till[n], n) /\ till[n] \in [Nat -> V]
    BY <1>4
  <2>3. Upto(till[n + 1], n)
    BY <2>1
  <2>4. till[n + 1][n] = till[n][n]
    <3> HIDE DEF Upto
    <3> QED BY <1>5, <2>1, <2>2, <2>3
  <2>5. till[n + 1][n + 1] = next[n][till[n + 1][n]]
    BY <2>1
  <2> QED BY <2>4, <2>5
<1>9. Iterates(all, base, next)
  <2> HIDE DEF all
  <2> QED BY <1>7, <1>8 DEF Iterates
<1> QED
  <2> HIDE DEF all
  <2> QED BY <1>6, <1>9

\* Each running sum is the one before and one term more.
LEMMA SumRow ==
  ASSUME NEW f \in [Nat -> Nat]
  PROVE  /\ RunningSum(f) \in [Nat -> Nat]
         /\ RunningSum(f)[0] = 0
         /\ \A m \in Nat : RunningSum(f)[m + 1] = RunningSum(f)[m] + f[m + 1]
<1> DEFINE next == [m \in Nat |-> [v \in Nat |-> v + f[m + 1]]]
           Sums(g) == g = [m \in Nat |-> IF m = 0 THEN 0 ELSE g[m - 1] + f[m]]
<1>1. next \in [Nat -> [Nat -> Nat]]
  OBVIOUS
<1>2. PICK g \in [Nat -> Nat] : Iterates(g, 0, next)
  <2>1. 0 \in Nat
    OBVIOUS
  <2> HIDE DEF next
  <2> QED BY <1>1, <2>1, Iteration, Zenon
<1>3. g[0] = 0 /\ \A m \in Nat : g[m + 1] = g[m] + f[m + 1]
  BY <1>2 DEF Iterates
<1>4. ASSUME NEW m \in Nat PROVE g[m] = IF m = 0 THEN 0 ELSE g[m - 1] + f[m]
  <2>1. CASE m # 0
    <3>1. m - 1 \in Nat /\ (m - 1) + 1 = m
      BY <2>1
    <3> QED BY <1>3, <2>1, <3>1
  <2> QED BY <1>3, <2>1
<1>5. Sums(g)
  BY <1>4
<1>6. Sums(RunningSum(f))
  BY <1>5 DEF RunningSum
<1> DEFINE sum == RunningSum(f)
<1> HIDE DEF sum
<1>7. \A m \in Nat : sum[m] = IF m = 0 THEN 0 ELSE sum[m - 1] + f[m]
  BY <1>6 DEF sum
<1>8. sum[0] = 0 /\ \A m \in Nat : sum[m + 1] = sum[m] + f[m + 1]
  BY <1>7
<1>9. \A m \in Nat : sum[m] \in Nat
  <2> DEFINE numbers == {m \in Nat : sum[m] \in Nat}
  <2>1. 0 \in numbers
    BY <1>8
  <2>2. \A m \in Nat : m \in numbers => m + 1 \in numbers
    BY <1>8
  <2>3. \A m \in Nat : m \in numbers
    <3> HIDE DEF numbers
    <3> QED BY <2>1, <2>2, EveryNumber
  <2> QED BY <2>3
<1>10. sum \in [Nat -> Nat]
  <2>1. sum = [m \in Nat |-> IF m = 0 THEN 0 ELSE sum[m - 1] + f[m]]
    BY <1>6 DEF sum
  <2>2. sum = [m \in Nat |-> sum[m]]
    BY <2>1
  <2> QED BY <1>9, <2>2
<1> QED BY <1>8, <1>10 DEF sum

\* One thread more may check, before the last place, what it might with one
\* place less, and what the others might.
LEMMA GuessRows ==
  /\ GuessBound \in [Nat -> [Nat -> Nat]]
  /\ \A m \in Nat : GuessBound[0][m] = 1
  /\ \A h \in Nat : GuessBound[h + 1][0] = 0
  /\ \A h \in Nat, m \in Nat \ {0} :
        GuessBound[h + 1][m] = GuessBound[h + 1][m - 1] + GuessBound[h][m]
<1> DEFINE Rows == [Nat -> Nat]
           one == [m \in Nat |-> 1]
           next == [h \in Nat |-> [r \in Rows |-> RunningSum(r)]]
           Bound(g) == g = [h \in Nat |-> IF h = 0 THEN one ELSE RunningSum(g[h - 1])]
<1>1. one \in Rows
  OBVIOUS
<1>2. next \in [Nat -> [Rows -> Rows]]
  BY SumRow
<1>3. PICK g \in [Nat -> Rows] : Iterates(g, one, next)
  <2> HIDE DEF next, Rows, one
  <2> QED BY <1>1, <1>2, Iteration, Zenon
<1>4. g[0] = one /\ \A h \in Nat : g[h + 1] = RunningSum(g[h])
  <2> HIDE DEF one
  <2> QED BY <1>3 DEF Iterates
<1>5. ASSUME NEW h \in Nat PROVE g[h] = IF h = 0 THEN one ELSE RunningSum(g[h - 1])
  <2> HIDE DEF one
  <2>1. CASE h # 0
    <3>1. h - 1 \in Nat /\ (h - 1) + 1 = h
      BY <2>1
    <3> QED BY <1>4, <2>1, <3>1
  <2> QED BY <1>4, <2>1
<1>6. Bound(g)
  <2> HIDE DEF one
  <2>1. g = [h \in Nat |-> g[h]]
    BY <1>3
  <2> QED BY <1>5, <2>1
<1>7. Bound(GuessBound)
  BY <1>6 DEF GuessBound
<1>8. ASSUME NEW h \in Nat
      PROVE  GuessBound[h] = IF h = 0 THEN one ELSE RunningSum(GuessBound[h - 1])
  <2> HIDE DEF one
  <2> QED BY <1>7
<1>9. GuessBound[0] = one /\ \A h \in Nat : GuessBound[h + 1] = RunningSum(GuessBound[h])
  <2> HIDE DEF one
  <2>1. ASSUME NEW h \in Nat PROVE GuessBound[h + 1] = RunningSum(GuessBound[h])
    <3>1. h + 1 \in Nat /\ h + 1 # 0 /\ (h + 1) - 1 = h
      OBVIOUS
    <3> QED BY <1>8, <3>1
  <2> QED BY <1>8, <2>1
<1> DEFINE rows == {h \in Nat : GuessBound[h] \in Rows}
<1>10. 0 \in rows /\ \A h \in Nat : h \in rows => h + 1 \in rows
  <2>1. 0 \in rows
    BY <1>1, <1>9
  <2>2. ASSUME NEW h \in Nat, h \in rows PROVE h + 1 \in rows
    <3>1. RunningSum(GuessBound[h]) \in Rows
      BY <2>2, SumRow
    <3> HIDE DEF Rows
    <3> QED BY <1>9, <3>1
  <2> QED BY <2>1, <2>2
<1>11. \A h \in Nat : GuessBound[h] \in Rows
  <2>1. \A h \in Nat : h \in rows
    <3> HIDE DEF rows
    <3> QED BY <1>10, EveryNumber
  <2> QED BY <2>1
<1>12. GuessBound \in [Nat -> Rows]
  <2> HIDE DEF one, Rows
  <2>1. GuessBound = [h \in Nat |-> GuessBound[h]]
    BY <1>7
  <2> QED BY <1>11, <2>1
<1>13. ASSUME NEW h \in Nat
       PROVE  /\ GuessBound[h + 1][0] = 0
              /\ \A m \in Nat \ {0} :
                    GuessBound[h + 1][m] = GuessBound[h + 1][m - 1] + GuessBound[h][m]
  <2> DEFINE row == GuessBound[h]
  <2>1. row \in [Nat -> Nat] /\ GuessBound[h + 1] = RunningSum(row)
    BY <1>9, <1>11
  <2> HIDE DEF row
  <2>2. /\ RunningSum(row)[0] = 0
        /\ \A m \in Nat : RunningSum(row)[m + 1] = RunningSum(row)[m] + row[m + 1]
    BY <2>1, SumRow
  <2>3. ASSUME NEW m \in Nat \ {0}
        PROVE  RunningSum(row)[m] = RunningSum(row)[m - 1] + row[m]
    <3>1. m - 1 \in Nat /\ (m - 1) + 1 = m
      OBVIOUS
    <3> QED BY <2>2, <3>1
  <2> QED BY <2>1, <2>2, <2>3 DEF row
<1> QED BY <1>9, <1>12, <1>13

LEMMA GuessTyped ==
  ASSUME NEW h \in Nat, NEW m \in Nat
  PROVE  GuessBound[h] \in [Nat -> Nat] /\ GuessBound[h][m] \in Nat
BY GuessRows

LEMMA GuessStep ==
  ASSUME NEW h \in Nat, NEW m \in Nat \ {0}
  PROVE  GuessBound[h + 1][m] = GuessBound[h + 1][m - 1] + GuessBound[h][m]
<1>1. \A i \in Nat, j \in Nat \ {0} :
        GuessBound[i + 1][j] = GuessBound[i + 1][j - 1] + GuessBound[i][j]
  BY GuessRows
<1> QED BY <1>1

\* A thread more never lowers the bound, and a place is enough for one guess.
LEMMA GuessBoundGrows ==
  ASSUME NEW h \in Nat, NEW k \in Nat, NEW m \in Nat \ {0}, h <= k
  PROVE  GuessBound[h][m] <= GuessBound[k][m] /\ 1 <= GuessBound[h][m]
<1>1. \A i \in Nat : GuessBound[i][m] \in Nat /\ GuessBound[i + 1][m] \in Nat
  BY GuessTyped
<1>2. ASSUME NEW i \in Nat PROVE GuessBound[i][m] <= GuessBound[i + 1][m]
  <2>1. GuessBound[i + 1][m] = GuessBound[i + 1][m - 1] + GuessBound[i][m]
    BY GuessStep
  <2>2. m - 1 \in Nat /\ GuessBound[i + 1][m - 1] \in Nat
    BY GuessTyped
  <2> QED BY <1>1, <2>1, <2>2
<1> DEFINE atLeastOne == {i \in Nat : 1 <= GuessBound[i][m]}
           higher == {i \in Nat : h <= i => GuessBound[h][m] <= GuessBound[i][m]}
<1>3. \A i \in Nat : i \in atLeastOne
  <2>1. 0 \in atLeastOne
    <3>1. \A j \in Nat : GuessBound[0][j] = 1
      BY GuessRows
    <3> QED BY <3>1
  <2>2. \A i \in Nat : i \in atLeastOne => i + 1 \in atLeastOne
    BY <1>1, <1>2
  <2> HIDE DEF atLeastOne
  <2> QED BY <2>1, <2>2, EveryNumber
<1>4. \A i \in Nat : i \in higher
  <2>1. 0 \in higher
    BY <1>1
  <2>2. ASSUME NEW i \in Nat, i \in higher PROVE i + 1 \in higher
    <3>1. CASE h <= i
      BY <1>1, <1>2, <2>2, <3>1
    <3>2. CASE ~ (h <= i)
      <4>1. h <= i + 1 => h = i + 1
        BY <3>2
      <4> QED BY <1>1, <4>1
    <3> QED BY <3>1, <3>2
  <2> HIDE DEF higher
  <2> QED BY <2>1, <2>2, EveryNumber
<1> QED BY <1>3, <1>4

\* The guesses that k threads which read the counter at l or above, and every
\* idle one, may add while the counter goes from l - 1 to l.
Share(k, l) == IF k = 0 THEN 0 ELSE GuessBound[k - 1][MaxFailures - l + 1]

\* total[l] bounds the guesses of a counter at l: what is added at each place is
\* the share of the n[l] threads that have not read less.
Totals(total, n, failed) ==
  total[0] = 0 /\ \A l \in 1 .. failed : total[l] <= total[l - 1] + Share(n[l], l)

Explained(n, failed, g) ==
  \E total \in [Nat -> Nat] : Totals(total, n, failed) /\ g <= total[failed]

LEMMA ShareGrows ==
  ASSUME NEW k \in Nat, NEW j \in Nat, k <= j, NEW l \in 1 .. MaxFailures
  PROVE  Share(k, l) \in Nat /\ Share(j, l) \in Nat /\ Share(k, l) <= Share(j, l)
<1>1. MaxFailures - l + 1 \in Nat \ {0}
  BY LockAssumption
<1>2. ASSUME NEW i \in Nat PROVE Share(i, l) \in Nat
  BY <1>1, GuessTyped DEF Share
<1>3. CASE k = 0
  BY <1>2, <1>3 DEF Share
<1>4. CASE k # 0
  <2>1. k - 1 \in Nat /\ j - 1 \in Nat /\ k - 1 <= j - 1 /\ j # 0
    BY <1>4
  <2>2. GuessBound[k - 1][MaxFailures - l + 1] <= GuessBound[j - 1][MaxFailures - l + 1]
    BY <1>1, <2>1, GuessBoundGrows
  <2> QED BY <1>2, <1>4, <2>1, <2>2 DEF Share
<1> QED BY <1>2, <1>3, <1>4

LEMMA ShareFits ==
  ASSUME NEW k \in Nat, NEW l \in 1 .. MaxFailures
  PROVE  /\ GuessBound[k][MaxFailures - l] + Share(k, l) <= GuessBound[k][MaxFailures - (l - 1)]
         /\ GuessBound[k][MaxFailures - l] \in Nat
         /\ GuessBound[k][MaxFailures - (l - 1)] \in Nat
<1> DEFINE m == MaxFailures - l + 1
<1>1. m \in Nat \ {0} /\ m - 1 = MaxFailures - l /\ m = MaxFailures - (l - 1)
  BY LockAssumption
<1>2. m - 1 \in Nat
  BY <1>1
<1> HIDE DEF m
<1>3. GuessBound[k][m - 1] \in Nat /\ GuessBound[k][m] \in Nat
  BY <1>1, <1>2, GuessTyped
<1>4. GuessBound[k][m - 1] + Share(k, l) <= GuessBound[k][m]
  <2>1. CASE k = 0
    <3>1. \A i \in Nat : GuessBound[0][i] = 1
      BY GuessRows
    <3> QED BY <1>1, <1>2, <2>1, <3>1 DEF Share
  <2>2. CASE k # 0
    <3> DEFINE h == k - 1
    <3>1. h \in Nat /\ k = h + 1
      BY <2>2
    <3>2. Share(k, l) = GuessBound[h][m]
      BY <2>2 DEF Share, m
    <3>3. GuessBound[h][m] \in Nat
      BY <1>1, <3>1, GuessTyped
    <3>4. GuessBound[k][m] = GuessBound[k][m - 1] + GuessBound[h][m]
      <4> HIDE DEF h
      <4> QED BY <1>1, <3>1, GuessStep
    <3> QED BY <1>3, <3>2, <3>3, <3>4
  <2> QED BY <2>1, <2>2
<1> QED BY <1>1, <1>3, <1>4

\* The counter at c, and then every place up to failed: what k threads add.
LEMMA Telescope ==
  ASSUME NEW n \in [Nat -> Nat], NEW total \in [Nat -> Nat],
         NEW failed \in 0 .. MaxFailures - 1, NEW c \in 0 .. failed, NEW k \in Nat,
         Totals(total, n, failed), \A l \in c + 1 .. failed : n[l] <= k
  PROVE  total[failed] + 1 <= total[c] + GuessBound[k][MaxFailures - c]
<1> DEFINE fits == {l \in Nat : c <= l /\ l <= failed =>
                      total[l] + GuessBound[k][MaxFailures - l]
                        <= total[c] + GuessBound[k][MaxFailures - c]}
<1>0. /\ MaxFailures \in Nat \ {0} /\ failed \in Nat /\ failed <= MaxFailures - 1
      /\ c \in Nat /\ c <= failed
      /\ \A l \in Nat : total[l] \in Nat /\ n[l] \in Nat
  BY LockAssumption
<1>1. ASSUME NEW l \in Nat, l <= failed PROVE GuessBound[k][MaxFailures - l] \in Nat
  <2>1. MaxFailures - l \in Nat
    BY <1>0, <1>1
  <2> QED BY <2>1, GuessTyped
<1> DEFINE limit == total[c] + GuessBound[k][MaxFailures - c]
<1>2. limit \in Nat
  BY <1>0, <1>1
<1>3. limit <= limit
  <2> HIDE DEF limit
  <2> QED BY <1>2
<1>4. \A l \in Nat : l = c => total[l] + GuessBound[k][MaxFailures - l] <= limit
  BY <1>3
<1> HIDE DEF limit
<1>5. 0 \in fits
  <2>1. c <= 0 => 0 = c
    BY <1>0
  <2> QED BY <1>4, <2>1 DEF limit
<1>6. ASSUME NEW l \in Nat, l \in fits PROVE l + 1 \in fits
  <2> SUFFICES ASSUME c <= l + 1, l + 1 <= failed
               PROVE  total[l + 1] + GuessBound[k][MaxFailures - (l + 1)]
                        <= total[c] + GuessBound[k][MaxFailures - c]
    OBVIOUS
  <2>1. CASE c = l + 1
    BY <1>4, <2>1 DEF limit
  <2>2. CASE c # l + 1
    <3> DEFINE p == l + 1
    <3>1. c <= l /\ l <= failed /\ p \in 1 .. failed /\ p \in c + 1 .. failed
          /\ p \in 1 .. MaxFailures /\ p - 1 = l /\ p \in Nat
      BY <1>0, <2>2
    <3>2. total[l] + GuessBound[k][MaxFailures - l] <= total[c] + GuessBound[k][MaxFailures - c]
      BY <1>6, <3>1
    <3> HIDE DEF p
    <3>3. total[p] <= total[l] + Share(n[p], p)
      BY <3>1 DEF Totals
    <3>4. Share(n[p], p) \in Nat /\ Share(k, p) \in Nat /\ Share(n[p], p) <= Share(k, p)
      BY <1>0, <3>1, ShareGrows
    <3>5. /\ GuessBound[k][MaxFailures - p] + Share(k, p) <= GuessBound[k][MaxFailures - l]
          /\ GuessBound[k][MaxFailures - p] \in Nat /\ GuessBound[k][MaxFailures - l] \in Nat
      BY <3>1, ShareFits
    <3>6. total[p] + GuessBound[k][MaxFailures - p] <= total[c] + GuessBound[k][MaxFailures - c]
      <4>1. GuessBound[k][MaxFailures - c] \in Nat
        BY <1>0, <1>1
      <4>2. total[p] \in Nat /\ total[l] \in Nat /\ total[c] \in Nat
        BY <1>0, <3>1
      <4> QED BY <3>2, <3>3, <3>4, <3>5, <4>1, <4>2
    <3> QED BY <3>6 DEF p
  <2> QED BY <2>1, <2>2
<1>7. failed \in fits
  <2> HIDE DEF fits
  <2> QED BY <1>0, <1>5, <1>6, EveryNumber
<1>8. total[failed] + GuessBound[k][MaxFailures - failed]
        <= total[c] + GuessBound[k][MaxFailures - c]
  BY <1>0, <1>7
<1>9. 1 <= GuessBound[k][MaxFailures - failed]
  <2>1. MaxFailures - failed \in Nat \ {0}
    BY <1>0
  <2>2. k <= k
    OBVIOUS
  <2> QED BY <2>1, <2>2, GuessBoundGrows
<1> QED BY <1>0, <1>1, <1>8, <1>9

\* With more threads that have not read less, as much is explained.
LEMMA ExplainedByMore ==
  ASSUME NEW n \in [Nat -> Nat], NEW more \in [Nat -> Nat], NEW g \in Nat,
         NEW failed \in 0 .. MaxFailures - 1, Explained(n, failed, g),
         \A l \in 1 .. failed : n[l] <= more[l]
  PROVE  Explained(more, failed, g)
<1>1. PICK total \in [Nat -> Nat] : Totals(total, n, failed) /\ g <= total[failed]
  BY DEF Explained
<1>2. ASSUME NEW l \in 1 .. failed PROVE total[l] <= total[l - 1] + Share(more[l], l)
  <2>1. l \in 1 .. MaxFailures /\ l \in Nat /\ l - 1 \in Nat
    BY LockAssumption
  <2>2. n[l] \in Nat /\ more[l] \in Nat /\ n[l] <= more[l]
        /\ total[l] \in Nat /\ total[l - 1] \in Nat
    BY <2>1
  <2>3. Share(n[l], l) \in Nat /\ Share(more[l], l) \in Nat
        /\ Share(n[l], l) <= Share(more[l], l)
    BY <2>1, <2>2, ShareGrows
  <2>4. total[l] <= total[l - 1] + Share(n[l], l)
    BY <1>1 DEF Totals
  <2> QED BY <2>2, <2>3, <2>4
<1>3. Totals(total, more, failed)
  BY <1>1, <1>2 DEF Totals
<1> QED BY <1>1, <1>3 DEF Explained

\* Nothing has to be explained after a lock or a success, wherever the counter
\* was left.
LEMMA ExplainedAnew ==
  ASSUME NEW n \in [Nat -> Nat], NEW failed \in 0 .. MaxFailures - 1
  PROVE  Explained(n, failed, 0)
<1> DEFINE total == [l \in Nat |-> 0]
<1>1. total \in [Nat -> Nat] /\ \A l \in Nat : total[l] = 0
  OBVIOUS
<1> HIDE DEF total
<1>2. ASSUME NEW l \in 1 .. failed PROVE total[l] <= total[l - 1] + Share(n[l], l)
  <2>1. l \in 1 .. MaxFailures /\ l \in Nat /\ l - 1 \in Nat /\ n[l] <= n[l] /\ n[l] \in Nat
    BY LockAssumption
  <2>2. Share(n[l], l) \in Nat
    BY <2>1, ShareGrows
  <2> QED BY <1>1, <2>1, <2>2
<1>3. Totals(total, n, failed)
  BY <1>1, <1>2 DEF Totals
<1>4. failed \in Nat /\ 0 <= total[failed]
  BY <1>1, LockAssumption
<1> QED BY <1>1, <1>3, <1>4 DEF Explained

\* Fewer threads have not read less than a higher place; and no fewer than before
\* have not read less than a place up to c.
Falling(n) == \A l \in Nat : n[l + 1] <= n[l]
Kept(n, after, c) == \A l \in 1 .. c : n[l] <= after[l]

\* A wrong password that a copy counted as c + 1: the thread is idle from then
\* on, and counts for that place.
LEMMA ExplainedGuess ==
  ASSUME NEW n \in [Nat -> Nat], NEW after \in [Nat -> Nat], NEW g \in Nat,
         NEW failed \in 0 .. MaxFailures - 1, NEW c \in Nat, c + 1 \in 0 .. MaxFailures - 1,
         Explained(n, failed, g),
         Falling(n), Kept(n, after, c), n[c + 1] + 1 <= after[c + 1]
  PROVE  Explained(after, c + 1, g + 1)
<1>1. PICK total \in [Nat -> Nat] : Totals(total, n, failed) /\ g <= total[failed]
  BY DEF Explained
<1> DEFINE p == c + 1
           k == n[p]
           kept == IF failed <= c THEN failed ELSE c
           most == total[failed]
           new == [l \in Nat |-> IF l = p THEN most + 1
                                 ELSE IF l <= kept THEN total[l] ELSE most]
<1>0. /\ failed \in Nat /\ c \in Nat /\ p \in Nat /\ p - 1 = c /\ p # 0
      /\ p \in 1 .. MaxFailures /\ k \in Nat /\ after[p] \in Nat /\ most \in Nat
      /\ kept \in Nat /\ kept <= failed /\ kept <= c
      /\ failed <= c => kept = failed
      /\ ~ (failed <= c) => kept = c
  BY LockAssumption
<1>2. new \in [Nat -> Nat] /\ new[p] = most + 1
  BY <1>0
<1>3. \A l \in Nat : l <= kept => new[l] = total[l]
  BY <1>0
<1>4. ASSUME NEW l \in Nat, kept <= l, l <= c, failed <= c PROVE new[l] = most
  <2>1. l # p /\ kept = failed
    BY <1>0, <1>4
  <2>2. CASE l = failed
    BY <1>3, <2>1, <2>2
  <2>3. CASE l # failed
    <3>1. ~ (l <= kept)
      BY <1>0, <1>4, <2>1, <2>3
    <3> HIDE DEF kept, p, most
    <3> QED BY <2>1, <3>1
  <2> QED BY <2>2, <2>3
<1>5. \A l \in Nat : total[l] \in Nat /\ new[l] \in Nat /\ n[l] \in Nat /\ after[l] \in Nat
  BY <1>2
<1>6. /\ \A l \in 1 .. c : n[l] <= after[l]
      /\ k + 1 <= after[p]
  BY DEF Kept
<1> HIDE DEF p, k, kept, most, new
<1>7. GuessBound[k][MaxFailures - c] \in Nat /\ 1 <= GuessBound[k][MaxFailures - c]
      /\ GuessBound[k][MaxFailures - c] <= Share(after[p], p) /\ Share(after[p], p) \in Nat
  <2> DEFINE m == MaxFailures - c
  <2>1. m \in Nat \ {0} /\ m = MaxFailures - p + 1 /\ k <= k
    BY <1>0, LockAssumption
  <2>2. k <= after[p] - 1 /\ after[p] - 1 \in Nat /\ after[p] # 0
    BY <1>0, <1>6
  <2> HIDE DEF m
  <2>3. GuessBound[k][m] \in Nat /\ GuessBound[after[p] - 1][m] \in Nat
    BY <1>0, <2>1, <2>2, GuessTyped
  <2>4. 1 <= GuessBound[k][m] /\ GuessBound[k][m] <= GuessBound[after[p] - 1][m]
    BY <1>0, <2>1, <2>2, GuessBoundGrows
  <2>5. Share(after[p], p) = GuessBound[after[p] - 1][m]
    BY <2>1, <2>2 DEF Share
  <2> QED BY <2>3, <2>4, <2>5 DEF m
<1>8. new[p] <= new[p - 1] + Share(after[p], p)
  <2>1. CASE failed <= c
    <3>1. new[c] = most
      BY <1>0, <1>4, <2>1
    <3>2. new[p - 1] = most /\ new[p] = most + 1
      BY <1>0, <1>2, <3>1
    <3>3. most \in Nat /\ Share(after[p], p) \in Nat /\ 1 <= Share(after[p], p)
      BY <1>0, <1>7
    <3>4. most + 1 <= most + Share(after[p], p)
      BY <3>3
    <3> QED BY <3>2, <3>4
  <2>2. CASE ~ (failed <= c)
    <3>1. new[c] = total[c]
      BY <1>0, <1>3, <2>2
    <3>2. ASSUME NEW l \in c + 1 .. failed PROVE n[l] <= k
      <4> DEFINE below == {i \in Nat : p <= i => n[i] <= k}
      <4>1. 0 \in below
        BY <1>0
      <4>2. ASSUME NEW i \in Nat, i \in below PROVE i + 1 \in below
        <5>1. n[i + 1] <= n[i] /\ n[i + 1] \in Nat /\ n[i] \in Nat
          BY <1>5 DEF Falling
        <5>2. CASE p <= i
          BY <1>0, <4>2, <5>1, <5>2
        <5>3. CASE p = i + 1
          BY <1>0, <1>5, <5>3 DEF k
        <5>4. CASE ~ (p <= i + 1)
          BY <5>4
        <5> QED BY <1>0, <5>2, <5>3, <5>4
      <4>3. \A i \in Nat : i \in below
        <5> HIDE DEF below
        <5> QED BY <4>1, <4>2, EveryNumber
      <4>4. l \in Nat /\ p <= l
        BY <1>0 DEF p
      <4> QED BY <4>3, <4>4
    <3>3. c \in 0 .. failed
      BY <1>0, <2>2
    <3>4. most + 1 <= total[c] + GuessBound[k][MaxFailures - c]
      BY <1>0, <1>1, <3>2, <3>3, Telescope DEF most
    <3>5. new[p - 1] = total[c] /\ total[c] \in Nat /\ new[p] = most + 1
      BY <1>0, <1>2, <1>5, <3>1
    <3>6. total[c] + GuessBound[k][MaxFailures - c] <= total[c] + Share(after[p], p)
      BY <1>7, <3>5
    <3>7. most + 1 <= total[c] + Share(after[p], p)
      BY <1>0, <1>7, <3>4, <3>5, <3>6
    <3> QED BY <3>5, <3>7
  <2> QED BY <2>1, <2>2
<1>9. ASSUME NEW l \in 1 .. c PROVE new[l] <= new[l - 1] + Share(after[l], l)
  <2>1. l \in Nat /\ l - 1 \in Nat /\ l \in 1 .. MaxFailures /\ l <= c
    BY <1>0, LockAssumption
  <2>2. n[l] \in Nat /\ after[l] \in Nat /\ n[l] <= after[l]
    BY <1>5, <1>6, <2>1
  <2>3. Share(n[l], l) \in Nat /\ Share(after[l], l) \in Nat
        /\ Share(n[l], l) <= Share(after[l], l)
    BY <2>1, <2>2, ShareGrows
  <2>4. CASE l <= kept
    <3>0. l - 1 <= kept
      BY <1>0, <2>1, <2>4
    <3>1. new[l] = total[l] /\ new[l - 1] = total[l - 1]
      BY <1>3, <2>1, <2>4, <3>0
    <3>2. total[l] <= total[l - 1] + Share(n[l], l)
      BY <1>0, <1>1, <2>1, <2>4 DEF Totals
    <3> QED BY <1>5, <2>1, <2>3, <3>1, <3>2
  <2>5. CASE ~ (l <= kept)
    <3>1. failed <= c /\ kept <= l - 1 /\ l - 1 <= c /\ kept <= l
      BY <1>0, <2>1, <2>5
    <3>2. new[l] = most /\ new[l - 1] = most
      BY <1>4, <2>1, <3>1
    <3> QED BY <1>0, <2>3, <3>2
  <2> QED BY <2>4, <2>5
<1>10. new[0] = 0
  <2>1. new[0] = total[0]
    BY <1>0, <1>3
  <2> QED BY <1>1, <2>1 DEF Totals
<1>11. Totals(new, after, p)
  <2>1. \A l \in 1 .. p : l = p \/ l \in 1 .. c
    BY <1>0
  <2> QED BY <1>8, <1>9, <1>10, <2>1 DEF Totals
<1>12. g + 1 <= new[p]
  BY <1>0, <1>1, <1>2 DEF most
<1> QED BY <1>2, <1>11, <1>12 DEF Explained, p

\* All that is explained is below the bound for as many threads as there are.
LEMMA ExplainedIsBounded ==
  ASSUME NEW n \in [Nat -> Nat], NEW g \in Nat, NEW failed \in 0 .. MaxFailures - 1,
         NEW k \in Nat, Explained(n, failed, g), \A l \in Nat : n[l] <= k
  PROVE  g < GuessBound[k][MaxFailures]
<1>1. PICK total \in [Nat -> Nat] : Totals(total, n, failed) /\ g <= total[failed]
  BY DEF Explained
<1>2. 0 \in 0 .. failed /\ failed \in Nat /\ MaxFailures \in Nat /\ MaxFailures - 0 = MaxFailures
  BY LockAssumption
<1>3. \A l \in 0 + 1 .. failed : n[l] <= k
  OBVIOUS
<1>4. total[failed] + 1 <= total[0] + GuessBound[k][MaxFailures - 0]
  BY <1>1, <1>2, <1>3, Telescope
<1>5. total[0] = 0 /\ total[failed] \in Nat /\ GuessBound[k][MaxFailures] \in Nat
  BY <1>1, <1>2, GuessTyped DEF Totals
<1> QED BY <1>1, <1>2, <1>4, <1>5

\* The threads that are idle, or read the counter at l or above.
Undated(l) == {h \in Attempts : Login(h) => l <= attempt[h].loaded.failed}

GuessInv == \E n \in [Nat -> Nat] :
    /\ \A l \in Nat : n[l] = Cardinality(Undated(l))
    /\ Explained(n, account.failed, guesses)

LEMMA SomeAttempts ==
  ASSUME NEW S \in SUBSET Attempts
  PROVE  /\ IsFiniteSet(S) /\ Cardinality(S) \in Nat
         /\ Cardinality(S) <= Cardinality(Attempts)
         /\ \A T \in SUBSET S : Cardinality(T) <= Cardinality(S)
         /\ \A h \in Attempts \ S : Cardinality(S \cup {h}) = Cardinality(S) + 1
<1>1. IsFiniteSet(S) /\ Cardinality(S) <= Cardinality(Attempts)
  BY AttemptsAssumption, FS_Subset
<1>2. Cardinality(S) \in Nat
  BY <1>1, FS_CardinalityType
<1>3. \A T \in SUBSET S : Cardinality(T) <= Cardinality(S)
  BY <1>1, FS_Subset
<1>4. \A h \in Attempts \ S : Cardinality(S \cup {h}) = Cardinality(S) + 1
  BY <1>1, FS_AddElement
<1> QED BY <1>1, <1>2, <1>3, <1>4

LEMMA GuessInitInv == SignInit => GuessInv
<1> SUFFICES ASSUME SignInit PROVE GuessInv
  OBVIOUS
<1> DEFINE n == [l \in Nat |-> Cardinality(Undated(l))]
<1>1. \A l \in Nat : Undated(l) \in SUBSET Attempts
  BY DEF Undated
<1>2. n \in [Nat -> Nat]
  BY <1>1, SomeAttempts
<1>3. account.failed \in 0 .. MaxFailures - 1 /\ guesses = 0
  BY LockAssumption DEF SignInit, Blank
<1>4. \A l \in Nat : n[l] = Cardinality(Undated(l))
  OBVIOUS
<1> HIDE DEF n
<1>5. Explained(n, account.failed, guesses)
  BY <1>2, <1>3, ExplainedAnew
<1> QED BY <1>2, <1>4, <1>5 DEF GuessInv

\* No thread has read less than before: as much is explained.
LEMMA StillExplained ==
  ASSUME SignTypeOK, GuessInv, account'.failed = account.failed, guesses' = guesses,
         \A l \in 1 .. account.failed : Undated(l) \subseteq Undated(l)'
  PROVE  GuessInv'
<1>1. PICK n \in [Nat -> Nat] : /\ \A l \in Nat : n[l] = Cardinality(Undated(l))
                                /\ Explained(n, account.failed, guesses)
  BY DEF GuessInv
<1> DEFINE more == [l \in Nat |-> Cardinality(Undated(l)')]
<1>2. \A l \in Nat : Undated(l)' \in SUBSET Attempts
  BY DEF Undated
<1>3. more \in [Nat -> Nat]
  BY <1>2, SomeAttempts
<1>4. \A l \in 1 .. account.failed : n[l] <= more[l]
  BY <1>1, <1>2, SomeAttempts
<1>5. \A l \in Nat : more[l] = Cardinality(Undated(l)')
  OBVIOUS
<1> HIDE DEF more
<1>6. account.failed \in 0 .. MaxFailures - 1 /\ guesses \in Nat
  BY DEF SignTypeOK, Account
<1>7. Explained(more, account.failed, guesses)
  BY <1>1, <1>3, <1>4, <1>6, ExplainedByMore
<1>8. Explained(more, account'.failed, guesses')
  BY <1>7
<1> QED BY <1>3, <1>5, <1>8 DEF GuessInv

\* A lock or a success leaves nothing to explain.
LEMMA ExplainedAfterReset ==
  ASSUME SignTypeOK', guesses' = 0
  PROVE  GuessInv'
<1> DEFINE n == [l \in Nat |-> Cardinality(Undated(l)')]
<1>1. \A l \in Nat : Undated(l)' \in SUBSET Attempts
  BY DEF Undated
<1>2. n \in [Nat -> Nat]
  BY <1>1, SomeAttempts
<1>3. account'.failed \in 0 .. MaxFailures - 1
  BY DEF SignTypeOK, Account
<1>4. \A l \in Nat : n[l] = Cardinality(Undated(l)')
  OBVIOUS
<1> HIDE DEF n
<1>5. Explained(n, account'.failed, guesses')
  BY <1>2, <1>3, ExplainedAnew
<1> QED BY <1>2, <1>4, <1>5 DEF GuessInv

\* Who answers is idle: nobody has read less than before.
LEMMA UndatedAnswered ==
  ASSUME SignTypeOK, NEW h \in Attempts, Answered(h), NEW l \in Nat
  PROVE  Undated(l)' = Undated(l) \cup {h}
<1>1. \A k \in Attempts : attempt'[k] = IF k = h THEN NoAttempt ELSE attempt[k]
  BY DEF Answered, SignTypeOK
<1> QED BY <1>1 DEF Undated, Login, NoAttempt

\* Who begins reads the counter as it is.
LEMMA UndatedBegins ==
  ASSUME SignTypeOK, NEW h \in Attempts, NEW op, NEW right, NEW code,
         Begin(h, op, right, code), NEW l \in 1 .. account.failed
  PROVE  Undated(l) \subseteq Undated(l)'
<1> DEFINE new == [op |-> op, loaded |-> account, read |-> time,
                   right |-> right, code |-> code]
<1>1. \A k \in Attempts : attempt'[k] = IF k = h THEN new ELSE attempt[k]
  BY DEF Begin, SignTypeOK
<1>2. new.loaded = account /\ l <= account.failed
  BY DEF SignTypeOK, Account
<1> QED BY <1>1, <1>2 DEF Undated, Login

\* A wrong password that does not lock.
LEMMA GuessExplained ==
  ASSUME SignTypeOK, GuessInv, NEW h \in Attempts, WrongPassword(h),
         ~ Locks(attempt[h].loaded.failed + 1)
  PROVE  GuessInv'
<1> PICK c \in Nat : c = attempt[h].loaded.failed
  BY AttemptFields
<1>1. PICK n \in [Nat -> Nat] : /\ \A l \in Nat : n[l] = Cardinality(Undated(l))
                                /\ Explained(n, account.failed, guesses)
  BY DEF GuessInv
<1> DEFINE after == [l \in Nat |-> Cardinality(Undated(l)')]
<1>2. \A l \in Nat : Undated(l) \in SUBSET Attempts /\ Undated(l)' \in SUBSET Attempts
  BY DEF Undated
<1>3. after \in [Nat -> Nat]
  BY <1>2, SomeAttempts
<1>4. \A l \in Nat : Undated(l)' = Undated(l) \cup {h}
  BY UndatedAnswered DEF WrongPassword
<1>5. \A l \in Nat : n[l] <= after[l]
  <2> SUFFICES ASSUME NEW l \in Nat PROVE Cardinality(Undated(l)) <= Cardinality(Undated(l)')
    BY <1>1
  <2> QED BY <1>2, <1>4, SomeAttempts
<1>6. n[c + 1] + 1 <= after[c + 1]
  <2>1. Login(h) /\ c + 1 \in Nat
    BY DEF WrongPassword
  <2>2. h \in Attempts \ Undated(c + 1)
    BY <2>1 DEF Undated
  <2>3. Cardinality(Undated(c + 1)') = Cardinality(Undated(c + 1)) + 1
    BY <1>2, <1>4, <2>1, <2>2, SomeAttempts
  <2>4. n[c + 1] \in Nat /\ n[c + 1] = Cardinality(Undated(c + 1))
        /\ after[c + 1] = Cardinality(Undated(c + 1)')
    BY <1>1, <2>1
  <2> QED BY <2>3, <2>4
<1>7. Falling(n)
  <2> SUFFICES ASSUME NEW l \in Nat PROVE n[l + 1] <= n[l]
    BY DEF Falling
  <2>1. Undated(l + 1) \subseteq Undated(l)
    BY AttemptFields DEF Undated
  <2>2. Cardinality(Undated(l + 1)) <= Cardinality(Undated(l))
    BY <1>2, <2>1, SomeAttempts
  <2> QED BY <1>1, <2>2
<1>8. \A l \in Nat : after[l] = Cardinality(Undated(l)')
  OBVIOUS
<1> HIDE DEF after
<1>9. account.failed \in 0 .. MaxFailures - 1 /\ guesses \in Nat /\ account \in Account
  BY DEF SignTypeOK, Account
<1>10. c + 1 \in 0 .. MaxFailures - 1
  BY LockAssumption DEF Locks
<1>11. account'.failed = c + 1 /\ guesses' = guesses + 1
  BY <1>9 DEF WrongPassword, Written, Account
<1>12. Kept(n, after, c)
  BY <1>5 DEF Kept
<1>13. Explained(after, c + 1, guesses + 1)
  BY <1>1, <1>3, <1>6, <1>7, <1>9, <1>10, <1>12, ExplainedGuess
<1>14. Explained(after, account'.failed, guesses')
  BY <1>11, <1>13
<1> QED BY <1>3, <1>8, <1>14 DEF GuessInv

LEMMA GuessStepInv == SignTypeOK /\ SignTypeOK' /\ GuessInv /\ [SignNext]_signVars => GuessInv'
<1> SUFFICES ASSUME SignTypeOK, SignTypeOK', GuessInv, [SignNext]_signVars PROVE GuessInv'
  OBVIOUS
<1>a. ASSUME NEW h \in Attempts, NEW op, NEW right, NEW code, Begin(h, op, right, code)
      PROVE  GuessInv'
  <2>1. \A l \in 1 .. account.failed : Undated(l) \subseteq Undated(l)'
    BY <1>a, UndatedBegins
  <2>2. account'.failed = account.failed /\ guesses' = guesses
    BY <1>a DEF Begin
  <2> QED BY <2>1, <2>2, StillExplained
<1>b. ASSUME NEW h \in Attempts, Answered(h), account'.failed = account.failed,
             guesses' = guesses
      PROVE  GuessInv'
  <2>1. \A l \in 1 .. account.failed : Undated(l) \subseteq Undated(l)'
    <3>1. \A l \in Nat : Undated(l)' = Undated(l) \cup {h}
      BY <1>b, UndatedAnswered
    <3>2. 1 .. account.failed \subseteq Nat
      OBVIOUS
    <3> QED BY <3>1, <3>2
  <2> QED BY <1>b, <2>1, StillExplained
<1>c. ASSUME UNCHANGED <<account, attempt, guesses>> PROVE GuessInv'
  BY <1>c DEF GuessInv, Undated, Login
<1>0. CASE UNCHANGED signVars
  BY <1>0, <1>c DEF signVars
<1>1. ASSUME NEW h \in Attempts, BeginLogin(h) PROVE GuessInv'
  BY <1>1, <1>a DEF BeginLogin
<1>2. ASSUME NEW h \in Attempts, BeginSetup(h) PROVE GuessInv'
  BY <1>2, <1>a DEF BeginSetup
<1>3. ASSUME NEW h \in Attempts, BeginEnable(h) PROVE GuessInv'
  BY <1>3, <1>a DEF BeginEnable
<1>4. ASSUME NEW h \in Attempts, RefuseLogin(h) PROVE GuessInv'
  BY <1>4, <1>b DEF RefuseLogin
<1>5. ASSUME NEW h \in Attempts, WrongPassword(h) PROVE GuessInv'
  <2>1. CASE Locks(attempt[h].loaded.failed + 1)
    BY <1>5, <2>1, ExplainedAfterReset DEF WrongPassword
  <2> QED BY <1>5, <2>1, GuessExplained
<1>6. ASSUME NEW h \in Attempts, LoginSucceeds(h) PROVE GuessInv'
  BY <1>6, ExplainedAfterReset DEF LoginSucceeds
<1>7. ASSUME NEW h \in Attempts, NEW secret \in Secrets, SetupTotp(h, secret)
      PROVE GuessInv'
  <2>1. account'.failed = account.failed
    BY <1>7 DEF SetupTotp, SignTypeOK, Account
  <2> QED BY <1>7, <1>b, <2>1 DEF SetupTotp
<1>8. ASSUME NEW h \in Attempts, EnableTotp(h) PROVE GuessInv'
  <2>1. account'.failed = account.failed
    BY <1>8 DEF EnableTotp, SignTypeOK, Account
  <2> QED BY <1>8, <1>b, <2>1 DEF EnableTotp
<1>9. ASSUME NEW h \in Attempts, AbandonAttempt(h) PROVE GuessInv'
  BY <1>9, <1>b DEF AbandonAttempt
<1>10. CASE TickSign
  BY <1>10, <1>c DEF TickSign
<1> QED BY <1>0, <1>1, <1>2, <1>3, <1>4, <1>5, <1>6, <1>7, <1>8, <1>9, <1>10
        DEF SignNext

\* However many attempts overlap, and whatever order their copies are written
\* in, the account locks after GuessBound wrong passwords at most (login of
\* auth.py).
THEOREM GuessesSafe == SignSpec => []GuessesBounded
<1>1. SignSpec => []SignInv
  BY SignInitInv, SignStepInv, PTL DEF SignSpec
<1>2. SignInv => SignTypeOK
  BY DEF SignInv
<1>3. SignSpec => []GuessInv
  BY <1>1, <1>2, GuessInitInv, GuessStepInv, PTL DEF SignSpec
<1>4. SignTypeOK /\ GuessInv => GuessesBounded
  <2> SUFFICES ASSUME SignTypeOK, GuessInv PROVE GuessesBounded
    OBVIOUS
  <2>1. PICK n \in [Nat -> Nat] : /\ \A l \in Nat : n[l] = Cardinality(Undated(l))
                                  /\ Explained(n, account.failed, guesses)
    BY DEF GuessInv
  <2>2. \A l \in Nat : n[l] <= Cardinality(Attempts)
    BY <2>1, SomeAttempts DEF Undated
  <2>3. account.failed \in 0 .. MaxFailures - 1 /\ guesses \in Nat
    BY DEF SignTypeOK, Account
  <2>4. Cardinality(Attempts) \in Nat
    BY SomeAttempts
  <2>5. guesses < GuessBound[Cardinality(Attempts)][MaxFailures]
    BY <2>1, <2>2, <2>3, <2>4, ExplainedIsBounded
  <2> QED BY <2>5 DEF GuessesBounded
<1> QED BY <1>1, <1>2, <1>3, <1>4, PTL

-----------------------------------------------------------------------------
(* Access checks, freezes and policies.                                    *)

\* What a handler has loaded is what it may change.
Loaded(r) ==
    /\ r.op = "freeze" => r.object \in Freezable(r.acting) /\ r.seen \in BOOLEAN
    /\ r.op = "unfreeze" =>
          <<r.acting[1], r.object>> \in Memberships /\ r.seen \in BOOLEAN
    /\ r.op = "setSurface" =>
          /\ r.object \in Surfaces
          /\ \/ r.seen = None
             \/ r.seen \in SettingIds /\ settings[r.seen] # None

\* A request in hand has the role for what it does, and was permitted to do it
\* if it is past the rules, or will not ask them.
Vetted(r) ==
    /\ r.phase # "idle" => RoleOf(r.acting) \in AllowedRoles(r.op)
    /\ r.phase = "checked" /\ ~ r.enforced => r.rightly
    /\ r.phase = "allowed" => r.rightly /\ Loaded(r)

AllVetted == \A h \in Threads : Vetted(running[h])

\* The requests under way in the name of a membership.
InHand(m) == {h \in Threads : running[h].phase # "idle" /\ running[h].acting = m}

\* What a frozen membership did and can still do is less than the threads.
FewActs(m) == actsFrozen[m] + Cardinality(InHand(m)) < Cardinality(Threads)

ActsCounted ==
    \A m \in Memberships : /\ m \notin frozen => actsFrozen[m] = 0
                           /\ m \in frozen => FewActs(m)

AccessInv == AccessTypeOK /\ AllVetted /\ ActsCounted /\ ManagerRemains

-----------------------------------------------------------------------------
LEMMA IdleTyped == Idle \in Request /\ Idle.phase = "idle"
<1>1. (CHOOSE m \in Memberships : TRUE) \in Memberships
  BY MembersAssumption
<1>2. "work" \in Ops
  BY DEF Ops
<1> QED BY <1>1, <1>2 DEF Idle, Request

LEMMA ThreadsCounted == Cardinality(Threads) \in Nat /\ Cardinality(Threads) > 0
  BY ThreadsAssumption, FS_EmptySet, FS_CardinalityType

LEMMA InHandCounted ==
  ASSUME NEW m
  PROVE  /\ IsFiniteSet(InHand(m))
         /\ Cardinality(InHand(m)) \in Nat
  BY ThreadsAssumption, FS_Subset, FS_CardinalityType DEF InHand

\* A membership is a pair of a context and a user.
LEMMA MembershipPair ==
  ASSUME NEW m \in Memberships
  PROVE  /\ m[1] \in Contexts /\ m[2] \in Users /\ m = <<m[1], m[2]>>
  BY DEF Memberships

LEMMA AccessInitInv == AccessInit => AccessInv
<1> SUFFICES ASSUME AccessInit PROVE AccessInv
  OBVIOUS
<1> USE DEF AccessInit
<1>1. \A h \in Threads : running[h] = Idle
  OBVIOUS
<1>2. AccessTypeOK
  BY IdleTyped DEF AccessTypeOK
<1>3. AllVetted
  BY <1>1, IdleTyped DEF AllVetted, Vetted
<1>4. ActsCounted
  BY DEF ActsCounted
<1>5. ManagerRemains
  BY DEF ManagerRemains
<1> QED BY <1>2, <1>3, <1>4, <1>5 DEF AccessInv

-----------------------------------------------------------------------------
\* What an allowed request may change: settings are only added.
SettingsStay == \A id \in SettingIds : settings[id] # None => settings'[id] # None

\* The requests of the other threads stay vetted.
LEMMA OthersVetted ==
  ASSUME AllVetted, SettingsStay, NEW h \in Threads,
         \A d \in Threads \ {h} : running'[d] = running[d],
         Vetted(running[h])' 
  PROVE  AllVetted'
<1> SUFFICES ASSUME NEW d \in Threads, d # h PROVE Vetted(running[d])'
  BY DEF AllVetted
<1>1. running'[d] = running[d] /\ Vetted(running[d])
  BY DEF AllVetted
<1>2. Loaded(running[d]) => Loaded(running[d])'
  BY <1>1 DEF Loaded, SettingsStay, Freezable
<1> QED BY <1>1, <1>2 DEF Vetted

\* A request that ends: its thread is free, the others stay as they are.
LEMMA FinishMoves ==
  ASSUME AccessTypeOK, NEW h \in Threads, running' = [running EXCEPT ![h] = Idle]
  PROVE  /\ running' \in [Threads -> Request]
         /\ running'[h] = Idle
         /\ \A d \in Threads \ {h} : running'[d] = running[d]
  BY IdleTyped DEF AccessTypeOK

\* A request that ends is counted for its frozen membership at most once, and
\* is no longer in hand.
LEMMA FinishCounts ==
  ASSUME AccessInv, NEW h \in Threads, running' = [running EXCEPT ![h] = Idle],
         running[h].phase # "idle"
  PROVE  \A m \in Memberships \cap frozen :
            \/ actsFrozen'[m] = actsFrozen[m]
            \/ actsFrozen'[m] = actsFrozen[m] + 1 /\ running[h].acting = m
            => FewActs(m)'
<1> SUFFICES ASSUME NEW m \in Memberships, m \in frozen,
                    \/ actsFrozen'[m] = actsFrozen[m]
                    \/ actsFrozen'[m] = actsFrozen[m] + 1 /\ running[h].acting = m
             PROVE  FewActs(m)'
  OBVIOUS
<1>1. /\ actsFrozen[m] \in Nat
      /\ actsFrozen[m] + Cardinality(InHand(m)) < Cardinality(Threads)
  BY DEF AccessInv, AccessTypeOK, ActsCounted, FewActs
<1>2. /\ running'[h].phase = "idle"
      /\ \A d \in Threads \ {h} : running'[d] = running[d]
  BY FinishMoves, IdleTyped DEF AccessInv
<1>3. InHand(m)' = InHand(m) \ {h}
  BY <1>2 DEF InHand
<1>4. /\ Cardinality(InHand(m)) \in Nat
      /\ Cardinality(InHand(m) \ {h}) = IF h \in InHand(m)
                                        THEN Cardinality(InHand(m)) - 1
                                        ELSE Cardinality(InHand(m))
  BY InHandCounted, FS_RemoveElement
<1>5. running[h].acting = m => h \in InHand(m)
  BY DEF InHand
<1>6. actsFrozen'[m] + Cardinality(InHand(m) \ {h}) < Cardinality(Threads)
  BY <1>1, <1>4, <1>5, ThreadsCounted
<1> QED BY <1>3, <1>6 DEF FewActs

\* A commit that freezes nobody and unfreezes nobody.
LEMMA CommitKeepsFrozen ==
  ASSUME AccessInv, NEW h \in Threads, running' = [running EXCEPT ![h] = Idle],
         running[h].phase # "idle", SettingsStay,
         CountAct(running[h].acting) \/ UNCHANGED actsFrozen,
         UNCHANGED <<frozen, passedBy>>
  PROVE  /\ running' \in [Threads -> Request]
         /\ actsFrozen' \in [Memberships -> Nat]
         /\ AllVetted' /\ ActsCounted' /\ ManagerRemains'
<1> DEFINE m == running[h].acting
<1>1. m \in Memberships /\ actsFrozen \in [Memberships -> Nat]
  BY DEF AccessInv, AccessTypeOK, Request
<1>2. /\ running' \in [Threads -> Request] /\ running'[h] = Idle
      /\ \A d \in Threads \ {h} : running'[d] = running[d]
  BY FinishMoves DEF AccessInv
<1>3. actsFrozen' \in [Memberships -> Nat]
  BY <1>1 DEF CountAct
<1>4. AllVetted'
  <2>1. Vetted(running[h])'
    BY <1>2, IdleTyped DEF Vetted
  <2> QED BY <1>2, <2>1, OthersVetted DEF AccessInv
<1>5. ActsCounted'
  <2> SUFFICES ASSUME NEW o \in Memberships
               PROVE  /\ o \notin frozen => actsFrozen'[o] = 0
                      /\ o \in frozen => FewActs(o)'
    BY DEF ActsCounted
  <2>1. CASE o \notin frozen
    BY <1>1, <2>1 DEF CountAct, AccessInv, ActsCounted
  <2>2. CASE o \in frozen
    <3>1. \/ actsFrozen'[o] = actsFrozen[o]
          \/ actsFrozen'[o] = actsFrozen[o] + 1 /\ running[h].acting = o
      BY <1>1, <2>2 DEF CountAct
    <3> QED BY <2>2, <3>1, FinishCounts
  <2> QED BY <2>1, <2>2
<1>6. ManagerRemains'
  BY DEF AccessInv, ManagerRemains, Managers
<1> QED BY <1>2, <1>3, <1>4, <1>5, <1>6

-----------------------------------------------------------------------------
\* The membership a request begins with is not frozen.
LEMMA BeginUnfrozen ==
  ASSUME NEW user, NEW op, NEW m \in CheckedAs(user, op)
  PROVE  m \in Memberships /\ m \notin frozen
  BY DEF CheckedAs, ActsAs, MembershipsOf

LEMMA BeginStep ==
  ASSUME AccessInv, NEW h \in Threads, NEW user \in Users, NEW op \in Ops,
         BeginRequest(h, user, op)
  PROVE  AccessInv'
<1>1. PICK m \in CheckedAs(user, op), enforced \in Enforced(SurfaceOf(op)) :
         /\ RoleOf(m) \in AllowedRoles(op)
         /\ running' = [running EXCEPT ![h] =
               [Idle EXCEPT !.phase = "checked", !.op = op, !.acting = m,
                            !.enforced = enforced, !.rightly = PolicyPermits(m, op)]]
  BY DEF BeginRequest
<1> DEFINE new == [Idle EXCEPT !.phase = "checked", !.op = op, !.acting = m,
                     !.enforced = enforced, !.rightly = PolicyPermits(m, op)]
<1>2. m \in Memberships /\ m \notin frozen
  BY BeginUnfrozen
<1>3. enforced \in BOOLEAN
  <2>1. CASE SettingRows(SurfaceOf(op)) = {}
    BY <2>1 DEF Enforced
  <2>2. CASE SettingRows(SurfaceOf(op)) # {}
    <3>1. PICK id \in SettingRows(SurfaceOf(op)) : enforced = settings[id].enabled
      BY <2>2 DEF Enforced
    <3>2. settings[id] \in SettingRow
      BY DEF SettingRows, AccessInv, AccessTypeOK
    <3> QED BY <3>1, <3>2 DEF SettingRow
  <2> QED BY <2>1, <2>2
<1>4. PolicyPermits(m, op) \in BOOLEAN
  BY DEF PolicyPermits
<1>5. /\ new \in Request /\ new.phase = "checked" /\ new.op = op /\ new.acting = m
      /\ new.enforced = enforced /\ new.rightly = PolicyPermits(m, op)
  BY <1>2, <1>3, <1>4, IdleTyped DEF Request
<1> HIDE DEF new
<1>6. /\ running' = [running EXCEPT ![h] = new] /\ running[h].phase = "idle"
      /\ UNCHANGED <<tables, token, histories>>
  BY <1>1 DEF BeginRequest, new
<1>7. /\ running' \in [Threads -> Request] /\ running'[h] = new
      /\ \A d \in Threads \ {h} : running'[d] = running[d]
  BY <1>5, <1>6 DEF AccessInv, AccessTypeOK
<1>8. AccessTypeOK'
  BY <1>6, <1>7 DEF AccessInv, AccessTypeOK, tables, histories
<1>9. AllVetted'
  <2>1. ~ enforced => PolicyPermits(m, op)
    BY <1>1, <1>3 DEF PolicyPermits
  <2>2. Vetted(running[h])'
    BY <1>1, <1>5, <1>7, <2>1 DEF Vetted
  <2>3. SettingsStay
    BY <1>6 DEF SettingsStay, tables
  <2> QED BY <1>7, <2>2, <2>3, OthersVetted DEF AccessInv
<1>10. ActsCounted'
  <2>1. \A o \in frozen : InHand(o)' = InHand(o)
    BY <1>2, <1>5, <1>6, <1>7 DEF InHand
  <2> QED BY <1>6, <2>1 DEF AccessInv, ActsCounted, FewActs, tables, histories
<1>11. ManagerRemains'
  BY <1>6 DEF AccessInv, ManagerRemains, Managers, tables, histories
<1> QED BY <1>8, <1>9, <1>10, <1>11 DEF AccessInv

\* Whoever is allowed by the first matching rule is permitted by the policy.
LEMMA VerdictPermits ==
  ASSUME AccessTypeOK, NEW m, NEW op, TRUE \in Verdicts(m, op)
  PROVE  PolicyPermits(m, op)
<1>1. Matching(m, op) # {}
  BY DEF Verdicts
<1>2. PICK id \in FirstMatches(m, op) : rules[id].effect # "deny"
  BY <1>1 DEF Verdicts
<1>3. id \in Matching(m, op) /\ \A other \in Matching(m, op) :
         rules[id].priority <= rules[other].priority
  BY DEF FirstMatches
<1>4. rules[id].effect = "allow"
  BY <1>2, <1>3, RulesAssumption DEF Matching, RuleRows, AccessTypeOK, Rule
<1> QED BY <1>3, <1>4 DEF PolicyPermits

LEMMA EvaluateStep ==
  ASSUME AccessInv, NEW h \in Threads, Evaluate(h)
  PROVE  AccessInv'
<1> DEFINE r == running[h]
<1>1. PICK found \in Loads(r.op, r.acting) :
         running' = [running EXCEPT ![h] =
            [r EXCEPT !.phase = "allowed", !.object = found[1], !.seen = found[2],
                      !.rightly = @ \/ PolicyPermits(r.acting, r.op)]]
  BY DEF Evaluate
<1> DEFINE new == [r EXCEPT !.phase = "allowed", !.object = found[1],
                     !.seen = found[2],
                     !.rightly = @ \/ PolicyPermits(r.acting, r.op)]
<1>2. /\ r \in Request /\ r.phase = "checked" /\ Vetted(r)
      /\ UNCHANGED <<tables, token, histories>>
      /\ r.acting \in Memberships /\ r.rightly \in BOOLEAN
  BY DEF Evaluate, AccessInv, AccessTypeOK, AllVetted, Request
<1>3. ~ r.enforced \/ TRUE \in Verdicts(r.acting, r.op)
  BY DEF Evaluate
<1>4. r.rightly \/ PolicyPermits(r.acting, r.op)
  BY <1>2, <1>3, VerdictPermits DEF Vetted, AccessInv
<1>5. /\ found[1] \in Users \cup Surfaces \cup {None}
      /\ found[2] \in SettingIds \cup BOOLEAN \cup {None}
      /\ r.op = "freeze" => found[1] \in Freezable(r.acting) /\ found[2] \in BOOLEAN
      /\ r.op = "unfreeze" =>
            <<r.acting[1], found[1]>> \in Memberships /\ found[2] \in BOOLEAN
      /\ r.op = "setSurface" =>
            /\ found[1] \in Surfaces
            /\ \/ found[2] = None
               \/ found[2] \in SettingIds /\ settings[found[2]] # None
  <2>1. CASE r.op = "freeze"
    <3>1. PICK u \in Freezable(r.acting) :
             found = <<u, <<r.acting[1], u>> \in frozen>>
      BY <2>1 DEF Loads
    <3> QED BY <2>1, <3>1 DEF Freezable
  <2>2. CASE r.op = "unfreeze"
    <3>1. PICK u \in {v \in Users : <<r.acting[1], v>> \in Memberships} :
             found = <<u, <<r.acting[1], u>> \in frozen>>
      BY <2>2 DEF Loads
    <3> QED BY <2>2, <3>1
  <2>3. CASE r.op = "setSurface"
    <3>1. PICK surface \in Surfaces : found \in {surface} \X FoundRows(surface)
      BY <2>3 DEF Loads
    <3>2. found[1] = surface /\ found[2] \in FoundRows(surface)
      BY <3>1
    <3> QED BY <2>3, <3>1, <3>2 DEF FoundRows, SettingRows
  <2>4. CASE r.op \notin {"freeze", "unfreeze", "setSurface"}
    <3>1. found = <<None, None>>
      BY <2>4 DEF Loads
    <3> QED BY <2>4, <3>1
  <2> QED BY <2>1, <2>2, <2>3, <2>4
<1>6. /\ new \in Request /\ new.phase = "allowed" /\ new.op = r.op
      /\ new.acting = r.acting /\ new.object = found[1] /\ new.seen = found[2]
      /\ new.rightly
  <2>1. /\ new.phase = "allowed" /\ new.op = r.op /\ new.acting = r.acting
        /\ new.object = found[1] /\ new.seen = found[2]
        /\ new.rightly = (r.rightly \/ PolicyPermits(r.acting, r.op))
    BY <1>2 DEF Request
  <2>2. (r.rightly \/ PolicyPermits(r.acting, r.op)) \in BOOLEAN
    OBVIOUS
  <2>3. new \in Request
    BY <1>2, <1>5, <2>2 DEF Request
  <2> QED BY <1>4, <2>1, <2>3
<1> HIDE DEF new
<1>7. /\ running' \in [Threads -> Request] /\ running'[h] = new
      /\ \A d \in Threads \ {h} : running'[d] = running[d]
  BY <1>1, <1>6 DEF AccessInv, AccessTypeOK, new
<1>8. AccessTypeOK'
  BY <1>2, <1>7 DEF AccessInv, AccessTypeOK, tables, histories
<1>9. AllVetted'
  <2>1. Loaded(new) /\ UNCHANGED settings
    BY <1>2, <1>5, <1>6 DEF Loaded, tables
  <2>2. Loaded(running[h])'
    BY <1>7, <2>1 DEF Loaded, Freezable
  <2>3. RoleOf(new.acting) \in AllowedRoles(new.op)
    BY <1>2, <1>6 DEF Vetted
  <2>4. Vetted(running[h])'
    BY <1>6, <1>7, <2>2, <2>3 DEF Vetted
  <2> QED BY <1>7, <2>1, <2>4, OthersVetted DEF AccessInv, SettingsStay
<1>10. ActsCounted'
  <2>1. \A o \in Memberships : InHand(o)' = InHand(o)
    BY <1>2, <1>6, <1>7 DEF InHand
  <2> QED BY <1>2, <2>1 DEF AccessInv, ActsCounted, FewActs, tables, histories
<1>11. ManagerRemains'
  BY <1>2 DEF AccessInv, ManagerRemains, Managers, tables, histories
<1> QED BY <1>8, <1>9, <1>10, <1>11 DEF AccessInv

\* A freeze: the target has done nothing since, and the thread of the freeze
\* is not its own; and the manager who freezes remains.
LEMMA FreezeStep ==
  ASSUME AccessInv, NEW h \in Threads, CommitFreeze(h)
  PROVE  AccessInv'
<1> DEFINE m == running[h].acting
           u == running[h].object
           target == <<m[1], u>>
<1>1. /\ running[h].phase = "allowed" /\ running[h].op = "freeze"
      /\ running' = [running EXCEPT ![h] = Idle]
      /\ frozen' = frozen \/ frozen' = frozen \cup {target}
      /\ CountAct(m)
      /\ passedBy' = IF m \in frozen THEN passedBy \cup {m[1]} ELSE passedBy
      /\ UNCHANGED <<settings, rules, token>>
  BY DEF CommitFreeze, Finish
<1>2. /\ m \in Memberships /\ actsFrozen \in [Memberships -> Nat]
      /\ frozen \subseteq Memberships /\ passedBy \subseteq Contexts
  BY DEF AccessInv, AccessTypeOK, Request
<1>3. u \in Freezable(m) /\ RoleOf(m) \in ManagerRoles
  BY <1>1 DEF AccessInv, AllVetted, Vetted, Loaded, AllowedRoles
<1>4. target \in Memberships /\ target # m
  BY <1>2, <1>3, MembershipPair DEF Freezable
<1> HIDE DEF u, target
<1>5. /\ running' \in [Threads -> Request] /\ running'[h] = Idle
      /\ \A d \in Threads \ {h} : running'[d] = running[d]
  BY <1>1, FinishMoves DEF AccessInv
<1>6. AccessTypeOK'
  <2>1. actsFrozen' \in [Memberships -> Nat]
    BY <1>1, <1>2 DEF CountAct
  <2>2. passedBy' \subseteq Contexts
    BY <1>1, <1>2, MembershipPair
  <2> QED BY <1>1, <1>2, <1>4, <1>5, <2>1, <2>2 DEF AccessInv, AccessTypeOK
<1>7. AllVetted'
  <2>1. Vetted(running[h])'
    BY <1>5, IdleTyped DEF Vetted
  <2> QED BY <1>1, <1>5, <2>1, OthersVetted DEF AccessInv, SettingsStay
<1>8. ActsCounted'
  <2> SUFFICES ASSUME NEW o \in Memberships
               PROVE  /\ o \notin frozen' => actsFrozen'[o] = 0
                      /\ o \in frozen' => FewActs(o)'
    BY DEF ActsCounted
  <2>1. CASE o \notin frozen'
    BY <1>1, <1>2, <2>1 DEF CountAct, AccessInv, ActsCounted
  <2>2. CASE o \in frozen
    <3>1. \/ actsFrozen'[o] = actsFrozen[o]
          \/ actsFrozen'[o] = actsFrozen[o] + 1 /\ running[h].acting = o
      BY <1>1, <1>2 DEF CountAct
    <3> QED BY <1>1, <2>2, <3>1, FinishCounts
  <2>3. CASE o \in frozen' /\ o \notin frozen
    <3>1. o = target
      BY <1>1, <2>3
    <3>2. actsFrozen'[o] = 0
      BY <1>1, <1>2, <2>3 DEF CountAct, AccessInv, ActsCounted
    <3>3. h \notin InHand(o)'
      BY <1>5, IdleTyped DEF InHand
    <3>4. InHand(o)' \in SUBSET (Threads \ {h})
      BY <3>3 DEF InHand
    <3>5. /\ IsFiniteSet(Threads \ {h})
          /\ Cardinality(Threads \ {h}) = Cardinality(Threads) - 1
      BY ThreadsAssumption, FS_RemoveElement
    <3>6. /\ IsFiniteSet(InHand(o)')
          /\ Cardinality(InHand(o)') <= Cardinality(Threads) - 1
      BY <3>4, <3>5, FS_Subset
    <3>7. Cardinality(InHand(o)') \in Nat
      BY <3>6, FS_CardinalityType
    <3> QED BY <2>3, <3>2, <3>6, <3>7, ThreadsCounted DEF FewActs
  <2> QED BY <1>1, <2>1, <2>2, <2>3
<1>9. ManagerRemains'
  <2> SUFFICES ASSUME NEW k \in Contexts, Managers(k) # {}, k \notin passedBy'
               PROVE  Managers(k) \ frozen' # {}
    BY DEF ManagerRemains, Managers
  <2>1. CASE m \notin frozen /\ k = m[1]
    <3>1. m \in Managers(k)
      BY <1>2, <1>3, <2>1 DEF Managers
    <3> QED BY <1>1, <1>4, <2>1, <3>1
  <2>2. CASE k # m[1]
    <3>1. target \notin Managers(k)
      BY <2>2 DEF Managers, target
    <3>2. Managers(k) \ frozen # {}
      BY <1>1, <2>2 DEF AccessInv, ManagerRemains
    <3> QED BY <1>1, <3>1, <3>2
  <2>3. CASE m \in frozen /\ k = m[1]
    BY <1>1, <2>3
  <2> QED BY <2>1, <2>2, <2>3
<1> QED BY <1>6, <1>7, <1>8, <1>9 DEF AccessInv

LEMMA UnfreezeStep ==
  ASSUME AccessInv, NEW h \in Threads, CommitUnfreeze(h)
  PROVE  AccessInv'
<1> DEFINE m == running[h].acting
<1>1. /\ running[h].phase = "allowed" /\ running' = [running EXCEPT ![h] = Idle]
      /\ frozen' \subseteq frozen
      /\ actsFrozen' = [o \in Memberships |->
            IF o \notin frozen' THEN 0
            ELSE IF o = m THEN actsFrozen[o] + 1
            ELSE actsFrozen[o]]
      /\ UNCHANGED <<settings, rules, token, passedBy>>
  BY DEF CommitUnfreeze, Finish
<1>2. /\ m \in Memberships /\ actsFrozen \in [Memberships -> Nat]
      /\ frozen \subseteq Memberships
  BY DEF AccessInv, AccessTypeOK, Request
<1>3. /\ running' \in [Threads -> Request] /\ running'[h] = Idle
      /\ \A d \in Threads \ {h} : running'[d] = running[d]
  BY <1>1, FinishMoves DEF AccessInv
<1>4. AccessTypeOK'
  <2>1. actsFrozen' \in [Memberships -> Nat]
    BY <1>1, <1>2
  <2>2. frozen' \subseteq Memberships
    BY <1>1, <1>2
  <2> QED BY <1>1, <1>3, <2>1, <2>2 DEF AccessInv, AccessTypeOK
<1>5. AllVetted'
  <2>1. Vetted(running[h])'
    BY <1>3, IdleTyped DEF Vetted
  <2> QED BY <1>1, <1>3, <2>1, OthersVetted DEF AccessInv, SettingsStay
<1>6. ActsCounted'
  <2> SUFFICES ASSUME NEW o \in Memberships, o \in frozen'
               PROVE  FewActs(o)'
    BY <1>1 DEF ActsCounted
  <2>1. o \in frozen
    BY <1>1
  <2>2. \/ actsFrozen'[o] = actsFrozen[o]
        \/ actsFrozen'[o] = actsFrozen[o] + 1 /\ running[h].acting = o
    BY <1>1
  <2> QED BY <1>1, <2>1, <2>2, FinishCounts
<1>7. ManagerRemains'
  BY <1>1 DEF AccessInv, ManagerRemains, Managers
<1> QED BY <1>4, <1>5, <1>6, <1>7 DEF AccessInv

-----------------------------------------------------------------------------
LEMMA AccessStepInv == AccessInv /\ [AccessNext]_accessVars => AccessInv'
<1> SUFFICES ASSUME AccessInv, [AccessNext]_accessVars PROVE AccessInv'
  OBVIOUS
<1>0. CASE UNCHANGED accessVars
  BY <1>0 DEF accessVars, AccessInv, AccessTypeOK, AllVetted, Vetted, Loaded,
              Freezable, ActsCounted, FewActs, InHand, ManagerRemains, Managers
<1>1. ASSUME NEW user \in Users, OpenSession(user) \/ CloseSession(user)
      PROVE  AccessInv'
  <2>1. /\ token' \in [Users -> Contexts \cup {None, SignedOut}]
        /\ UNCHANGED <<tables, running, histories>>
    BY <1>1, MembershipPair
    DEF OpenSession, CloseSession, MembershipsOf, AccessInv, AccessTypeOK
  <2> QED BY <2>1 DEF tables, histories, AccessInv, AccessTypeOK, AllVetted, Vetted,
                      Loaded, Freezable, ActsCounted, FewActs, InHand,
                      ManagerRemains, Managers
<1>2. ASSUME NEW h \in Threads, NEW user \in Users, NEW op \in Ops,
             BeginRequest(h, user, op)
      PROVE  AccessInv'
  BY <1>2, BeginStep
<1>3. ASSUME NEW h \in Threads, Evaluate(h) PROVE AccessInv'
  BY <1>3, EvaluateStep
<1>4. ASSUME NEW h \in Threads, Refuse(h) PROVE AccessInv'
  BY <1>4, CommitKeepsFrozen
  DEF Refuse, tables, histories, SettingsStay, AccessInv, AccessTypeOK
<1>5. ASSUME NEW h \in Threads, CommitWork(h) PROVE AccessInv'
  BY <1>5, CommitKeepsFrozen
  DEF CommitWork, Finish, tables, SettingsStay, AccessInv, AccessTypeOK
<1>6. ASSUME NEW h \in Threads, CommitSwitch(h) PROVE AccessInv'
  <2>1. running[h].acting \in Memberships
    BY DEF AccessInv, AccessTypeOK, Request
  <2>2. token' \in [Users -> Contexts \cup {None, SignedOut}]
    BY <1>6, <2>1, MembershipPair DEF CommitSwitch, AccessInv, AccessTypeOK
  <2> QED BY <1>6, <2>2, CommitKeepsFrozen
          DEF CommitSwitch, Finish, tables, histories, SettingsStay, AccessInv,
              AccessTypeOK
<1>7. ASSUME NEW h \in Threads, CommitFreeze(h) PROVE AccessInv'
  BY <1>7, FreezeStep
<1>8. ASSUME NEW h \in Threads, CommitUnfreeze(h) PROVE AccessInv'
  BY <1>8, UnfreezeStep
<1>9. ASSUME NEW h \in Threads, NEW enabled \in BOOLEAN,
             CommitSetSurface(h, enabled)
      PROVE  AccessInv'
  <2> DEFINE r == running[h]
  <2>1. /\ r.phase = "allowed" /\ r.op = "setSurface"
        /\ running' = [running EXCEPT ![h] = Idle]
        /\ CountAct(r.acting) /\ UNCHANGED <<frozen, rules, token, passedBy>>
    BY <1>9 DEF CommitSetSurface, Finish
  <2>2. /\ r.object \in AllSurfaces
        /\ r.seen = None \/ (r.seen \in SettingIds /\ settings[r.seen] # None)
    <3>1. Loaded(r)
      BY <2>1 DEF AccessInv, AllVetted, Vetted
    <3>2. /\ r.object \in Surfaces
          /\ r.seen = None \/ (r.seen \in SettingIds /\ settings[r.seen] # None)
      BY <2>1, <3>1 DEF Loaded
    <3>3. Surfaces \subseteq AllSurfaces
      BY RulesAssumption
    <3> QED BY <3>2, <3>3
  <2>3. settings \in [SettingIds -> SettingRow \cup {None}]
    BY DEF AccessInv, AccessTypeOK
  <2>4. settings' \in [SettingIds -> SettingRow \cup {None}] /\ SettingsStay
    <3>1. CASE r.seen # None
      <4>1. settings' = [settings EXCEPT ![r.seen] =
                            [settings[r.seen] EXCEPT !.enabled = enabled]]
        BY <1>9, <3>1 DEF CommitSetSurface
      <4>2. [settings[r.seen] EXCEPT !.enabled = enabled] \in SettingRow
        BY <2>2, <2>3, <3>1 DEF SettingRow
      <4>3. None \notin SettingRow
        BY RulesAssumption
      <4> QED BY <2>2, <2>3, <3>1, <4>1, <4>2, <4>3 DEF SettingsStay
    <3>2. CASE r.seen = None
      <4>1. PICK id \in SettingIds :
               /\ settings[id] = None
               /\ settings' = [settings EXCEPT ![id] =
                     [surface |-> r.object, enabled |-> enabled]]
        BY <1>9, <3>2 DEF CommitSetSurface
      <4>2. [surface |-> r.object, enabled |-> enabled] \in SettingRow
        BY <2>2 DEF SettingRow
      <4> QED BY <2>3, <4>1, <4>2 DEF SettingsStay
    <3> QED BY <3>1, <3>2
  <2> QED BY <2>1, <2>4, CommitKeepsFrozen DEF AccessInv, AccessTypeOK
<1>10. ASSUME NEW h \in Threads, NEW rule \in RuleChoices, CommitCreateRule(h, rule)
       PROVE  AccessInv'
  <2>1. /\ running[h].phase = "allowed"
        /\ running' = [running EXCEPT ![h] = Idle]
        /\ CountAct(running[h].acting)
        /\ UNCHANGED <<frozen, settings, token, passedBy>>
        /\ \E id \in RuleIds : rules' = [rules EXCEPT ![id] = rule]
    BY <1>10 DEF CommitCreateRule, Finish
  <2>2. rules' \in [RuleIds -> RuleChoices \cup {None}] /\ SettingsStay
    BY <2>1 DEF SettingsStay, AccessInv, AccessTypeOK
  <2> QED BY <2>1, <2>2, CommitKeepsFrozen DEF AccessInv, AccessTypeOK
<1>11. ASSUME NEW h \in Threads, NEW id \in RuleIds, CommitDeleteRule(h, id)
       PROVE  AccessInv'
  <2>1. /\ running[h].phase = "allowed"
        /\ running' = [running EXCEPT ![h] = Idle]
        /\ CountAct(running[h].acting)
        /\ UNCHANGED <<frozen, settings, token, passedBy>>
        /\ rules' = [rules EXCEPT ![id] = None]
    BY <1>11 DEF CommitDeleteRule, Finish
  <2>2. rules' \in [RuleIds -> RuleChoices \cup {None}] /\ SettingsStay
    BY <2>1 DEF SettingsStay, AccessInv, AccessTypeOK
  <2> QED BY <2>1, <2>2, CommitKeepsFrozen DEF AccessInv, AccessTypeOK
<1> QED BY <1>0, <1>1, <1>2, <1>3, <1>4, <1>5, <1>6, <1>7, <1>8, <1>9, <1>10, <1>11
        DEF AccessNext

\* A freeze leaves less to a membership than there are threads, and every
\* context with a manager who can lift it, however freezes, unfreezes, switches
\* and changes of the policy overlap (freeze_account, get_active_membership).
THEOREM FreezeSafe == AccessSpec => []FreezeHolds
<1>1. AccessSpec => []AccessInv
  BY AccessInitInv, AccessStepInv, PTL DEF AccessSpec
<1>2. AccessInv => FreezeHolds
  <2> SUFFICES ASSUME AccessInv PROVE FrozenActsBounded
    BY DEF FreezeHolds, AccessInv
  <2> SUFFICES ASSUME NEW m \in Memberships
               PROVE  actsFrozen[m] < Cardinality(Threads)
    BY DEF FrozenActsBounded
  <2>1. actsFrozen[m] \in Nat
    BY DEF AccessInv, AccessTypeOK
  <2> QED BY <2>1, InHandCounted, ThreadsCounted DEF AccessInv, ActsCounted, FewActs
<1> QED BY <1>1, <1>2, PTL

\* Whoever passes the attribute rules was permitted by them at one moment of
\* the check, however the administrator changes surfaces and rules between the
\* two queries of AbacPolicyEvaluator.
THEOREM VerdictSafe == AccessSpec => []AllowedWasRight
<1>1. AccessSpec => []AccessInv
  BY AccessInitInv, AccessStepInv, PTL DEF AccessSpec
<1>2. AccessInv => AllowedWasRight
  BY DEF AccessInv, AllVetted, Vetted, AllowedWasRight
<1> QED BY <1>1, <1>2, PTL

-----------------------------------------------------------------------------
(* All parts of a request together.                                        *)

LEMMA OnePartSteps ==
    ASSUME Next
    PROVE  \/ Rate /\ RateNext
           \/ Replay /\ ReplayNext
           \/ Sign /\ SignNext
           \/ Check /\ AccessNext
           \/ Kitchen /\ KitchenNext
  <1>1. \A p : OpsOf(p) \subseteq Ops
    BY DEF OpsOf, Ops
  <1>2. ASSUME NEW h \in Cooks, NEW o \in Orders, NEW target, Kitchen, LoadOrder(h, o, target)
        PROVE  Kitchen /\ KitchenNext
    BY <1>2, LoadIsStep
  <1> QED
    BY <1>1, <1>2 DEF Next, RateNext, ReplayNext, SignNext, AccessNext, KitchenNext

\* No part reads or writes the tables of another, so an execution of the whole
\* is one of each part.
LEMMA PartsApart ==
    Spec => RateSpec /\ ReplaySpec /\ SignSpec /\ AccessSpec /\ KitchenSpec
  <1>1. Init => RateInit /\ ReplayInit /\ SignInit /\ AccessInit /\ KitchenInit
    BY DEF Init
  <1>2. [Next]_vars => /\ [RateNext]_rateVars /\ [ReplayNext]_replayVars
                       /\ [SignNext]_signVars /\ [AccessNext]_accessVars
                       /\ [KitchenNext]_kitchenVars
    <2>1. CASE Next
      BY <2>1, OnePartSteps DEF Rate, Replay, Sign, Check, Kitchen
    <2>2. CASE UNCHANGED vars
      BY <2>2 DEF vars
    <2> QED
      BY <2>1, <2>2
  <1> QED
    BY <1>1, <1>2, PTL DEF Spec, RateSpec, ReplaySpec, SignSpec, AccessSpec, KitchenSpec

\* The tables, clocks and requests of all parts keep their types, and no order is
\* locked by two handlers, for any number of requests of any kind.
THEOREM RequestTypes == Spec => []TypesOK
  <1>1. RateInv => RateTypeOK
    BY DEF RateInv
  <1>2. ReplayInv => ReplayTypeOK
    BY DEF ReplayInv
  <1>3. SignInv => SignTypeOK
    BY DEF SignInv
  <1>4. AccessInv => AccessTypeOK
    BY DEF AccessInv
  <1>5. RateSpec => []RateTypeOK
    BY <1>1, RateInitInv, RateStepInv, PTL DEF RateSpec
  <1>6. ReplaySpec => []ReplayTypeOK
    BY <1>2, ReplayInitInv, ReplayStepInv, PTL DEF ReplaySpec
  <1>7. SignSpec => []SignTypeOK
    BY <1>3, SignInitInv, SignStepInv, PTL DEF SignSpec
  <1>8. AccessSpec => []AccessTypeOK
    BY <1>4, AccessInitInv, AccessStepInv, PTL DEF AccessSpec
  <1> QED
    BY <1>5, <1>6, <1>7, <1>8, KitchenTypes, PartsApart, PTL DEF TypesOK
=============================================================================
