------------------------ MODULE RecommendationProofs ------------------------
(***************************************************************************)
(* However requests overlap, every table and request holds values of its   *)
(* kind, and no recommendation holds a pair that the rules have forbidden  *)
(* ever since it began; what a request found scope by scope are the        *)
(* settings that apply, unless they changed meanwhile.  While requests are *)
(* apart, scopes and targets have one row each.  For any number of         *)
(* workers, entries, pieces and settings.                                  *)
(***************************************************************************)
EXTENDS Recommendations, FiniteSetTheorems, TLAPS

\* Ids do not run away: some number bounds those in use.
IdsUpTo(n) ==
    /\ \A c \in configs : c.id <= n
    /\ \A p \in pins : p.id <= n
    /\ \A r \in rules : r.id <= n
    /\ \A w \in Workers : ~Free(w) => request[w].row <= n

IdsBounded == \E n \in Nat : IdsUpTo(n)

\* What TypeOK says of all but the history.
Current ==
    /\ configs \subseteq ConfigRow
    /\ pins \subseteq PinRow
    /\ rules \subseteq RuleRow
    /\ now \in 0..MaxNow
    /\ request \in [Workers -> Request]

\* A request remembers no id that was not in some table or request before.
Known(w, r) ==
    \/ r.row = NoRow
    \/ ~Free(w) /\ r.row = request[w].row
    \/ \E row \in configs \cup pins \cup rules : r.row = row.id

-----------------------------------------------------------------------------
(* What a request is, by its op.                                           *)

LEMMA Kinds ==
    ASSUME NEW r \in Request
    PROVE  /\ r.op = "none" => r = Idle
           /\ r.op = "put" => r \in PutRequest
           /\ r.op = "pin" => r \in PinRequest
           /\ r.op = "unpin" => r \in UnpinRequest
           /\ r.op \in {"rule", "delete"} => r \in RuleRequest
           /\ r.op = "recommend" => r \in RecommendRequest
           /\ r # Idle => r.op # "none" /\ r.row \in Nat
  <1>1. CASE r = Idle
    BY <1>1 DEF Idle
  <1>2. CASE r \in PutRequest
    BY <1>2 DEF PutRequest, Idle
  <1>3. CASE r \in PinRequest
    BY <1>3 DEF PinRequest, Idle
  <1>4. CASE r \in UnpinRequest
    BY <1>4 DEF UnpinRequest, Idle
  <1>5. CASE r \in RuleRequest
    BY <1>5 DEF RuleRequest, Idle
  <1>6. CASE r \in RecommendRequest
    BY <1>6 DEF RecommendRequest, Idle, NoRow
  <1> QED
    BY <1>1, <1>2, <1>3, <1>4, <1>5, <1>6 DEF Request

LEMMA KindInHand ==
    ASSUME Current, NEW w \in Workers
    PROVE  /\ request[w].op = "put" => request[w] \in PutRequest /\ ~Free(w)
           /\ request[w].op = "pin" => request[w] \in PinRequest /\ ~Free(w)
           /\ request[w].op = "unpin" => request[w] \in UnpinRequest /\ ~Free(w)
           /\ request[w].op \in {"rule", "delete"} => request[w] \in RuleRequest /\ ~Free(w)
           /\ request[w].op = "recommend" => request[w] \in RecommendRequest /\ ~Free(w)
           /\ ~Free(w) => request[w].op # "none" /\ request[w].row \in Nat
  <1>1. request[w] \in Request
    BY DEF Current
  <1>2. Idle.op = "none"
    BY DEF Idle
  <1> QED
    BY <1>1, <1>2, Kinds DEF Free

LEMMA DefaultIsSettings == Default \in SettingsType
  BY DEF Default, SettingsType

LEMMA SavedIsSettings ==
    ASSUME NEW scope \in Scopes, NEW s \in SettingsType
    PROVE  Saved(scope, s) \in SettingsType
  BY DEF Saved, SettingsType

LEMMA AssignedIsSettings ==
    ASSUME NEW c \in SettingsType, NEW r \in SettingsType, NEW s \in SettingsType
    PROVE  Assigned(c, r, s) \in SettingsType
  BY DEF Assigned, SettingsType

\* The id of a new row is a number no row about the same thing has.
LEMMA FreshIsNew ==
    ASSUME NEW rows, NEW n \in Nat,
           \A r \in rows : r.id \in Nat /\ r.id <= n,
           \A w \in Workers : ~Free(w) => request[w].row \in Nat /\ request[w].row <= n
    PROVE  /\ Fresh(rows) \in Nat \ {0}
           /\ \A r \in rows : r.id # Fresh(rows)
  <1> DEFINE used == {r.id : r \in rows} \cup {request[w].row : w \in {v \in Workers : ~Free(v)}}
             k == Cardinality(used)
  <1>1. used \subseteq 0..n
    BY DEF Free
  <1>2. IsFiniteSet(0..n)
    BY FS_Interval
  <1>3. IsFiniteSet(used)
    BY <1>1, <1>2, FS_Subset
  <1>4. k \in Nat
    BY <1>3, FS_CardinalityType
  <1>5. \E i \in 1..k + 1 : i \notin used
    <2> SUFFICES ASSUME 1..k + 1 \subseteq used PROVE FALSE
      OBVIOUS
    <2>1. Cardinality(1..k + 1) = k + 1
      BY <1>4, FS_Interval
    <2>2. Cardinality(1..k + 1) <= k
      BY <1>3, FS_Subset
    <2> QED
      BY <1>4, <2>1, <2>2
  <1>6. Fresh(rows) \in 1..k + 1 /\ Fresh(rows) \notin used
    BY <1>5 DEF Fresh
  <1> QED
    BY <1>4, <1>6
-----------------------------------------------------------------------------
(* Steps that write nothing.                                               *)

LEMMA ProceedKeeps ==
    ASSUME Current, IdsBounded, NEW w \in Workers, NEW r \in Request,
           Proceed(w, r), r = Idle \/ Known(w, r)
    PROVE  Current' /\ IdsBounded' /\ request'[w] = r
  <1>1. Current'
    BY DEF Current, Proceed, tables
  <1>2. PICK n \in Nat : IdsUpTo(n)
    BY DEF IdsBounded
  <1>3. ASSUME NEW v \in Workers, ~Free(v)' PROVE request'[v].row <= n
    <2>1. CASE v = w
      <3>1. request'[v] = r /\ r # Idle
        BY <1>3, <2>1 DEF Proceed, Current, Free
      <3>2. CASE r.row = NoRow
        BY <3>1, <3>2 DEF NoRow
      <3>3. CASE ~Free(w) /\ r.row = request[w].row
        BY <3>1, <3>3, <1>2 DEF IdsUpTo
      <3>4. CASE \E row \in configs \cup pins \cup rules : r.row = row.id
        BY <3>1, <3>4, <1>2 DEF IdsUpTo
      <3> QED
        BY <3>1, <3>2, <3>3, <3>4 DEF Known
    <2>2. CASE v # w
      <3>1. request'[v] = request[v]
        BY <2>2 DEF Proceed, Current
      <3> QED
        BY <1>2, <1>3, <3>1 DEF IdsUpTo, Free
    <2> QED
      BY <2>1, <2>2
  <1>4. IdsUpTo(n)'
    BY <1>2, <1>3 DEF IdsUpTo, Proceed, tables
  <1>5. request'[w] = r
    BY DEF Proceed, Current
  <1> QED
    BY <1>1, <1>2, <1>4, <1>5 DEF IdsBounded

\* What a worker holds when it does not recommend.
Managing == {Idle} \cup PutRequest \cup PinRequest \cup UnpinRequest \cup RuleRequest

Kept(w) == Current' /\ IdsBounded' /\ request'[w].op # "recommend"

LEMMA ManagingIsRequest ==
    ASSUME NEW r \in Managing
    PROVE  r \in Request /\ r.op # "recommend"
  <1>1. r \in Request
    BY DEF Managing, Request
  <1>2. r.op # "recommend"
    BY DEF Managing, Idle, PutRequest, PinRequest, UnpinRequest, RuleRequest
  <1> QED
    BY <1>1, <1>2

LEMMA ManagingKept ==
    ASSUME Current, IdsBounded, NEW w \in Workers, NEW r \in Managing,
           Proceed(w, r), r = Idle \/ Known(w, r)
    PROVE  Kept(w)
  BY ManagingIsRequest, ProceedKeeps DEF Kept


\* A new request knows no row but the one a rule is deleted by.
LEMMA ReceiveKeeps ==
    ASSUME Current, IdsBounded, NEW w \in Workers, NEW r \in Managing,
           Receive(w, r), r.row = NoRow \/ \E q \in rules : r.row = q.id
    PROVE  Kept(w)
  <1>1. Proceed(w, r) /\ Known(w, r)
    BY DEF Receive, Proceed, Known
  <1> QED
    BY <1>1, ManagingKept

LEMMA UpsertKeeps ==
    ASSUME Current, IdsBounded, NEW w \in Workers, UpsertRecommendationConfig(w)
    PROVE  Kept(w)
  <1>1. PICK role \in {"administrator", "staff"}, edit \in Edits :
            Receive(w, [op |-> "put", role |-> role, scope |-> edit.scope,
                        payload |-> edit.settings,
                        step |-> IF role = "staff" THEN "program" ELSE "load",
                        row |-> NoRow, read |-> Default])
    BY DEF UpsertRecommendationConfig
  <1> DEFINE r == [op |-> "put", role |-> role, scope |-> edit.scope,
                   payload |-> edit.settings,
                   step |-> IF role = "staff" THEN "program" ELSE "load",
                   row |-> NoRow, read |-> Default]
  <1>2. edit.scope \in Scopes /\ edit.settings \in SettingsType
    BY RecommendationAssumption DEF RecommendationAssumption
  <1>3. r \in PutRequest /\ r.row = NoRow
    BY <1>2, DefaultIsSettings DEF PutRequest, NoRow
  <1>4. r \in Managing
    BY <1>3 DEF Managing
  <1> QED
    BY <1>1, <1>3, <1>4, ReceiveKeeps

LEMMA DelegationKeeps ==
    ASSUME Current, IdsBounded, NEW w \in Workers, StaffCanManageEventStore(w)
    PROVE  Kept(w)
  <1> DEFINE load == [request[w] EXCEPT !.step = "load"]
             next == [request[w] EXCEPT !.step = "organization"]
  <1>1. request[w] \in PutRequest /\ ~Free(w)
    BY KindInHand DEF StaffCanManageEventStore
  <1>2. load \in Managing /\ next \in Managing /\ Known(w, load) /\ Known(w, next)
    BY <1>1 DEF PutRequest, Managing, Known
  <1>3. Idle \in Managing
    BY DEF Managing
  <1>4. \E r \in Managing : Proceed(w, r) /\ (r = Idle \/ Known(w, r))
    <2>1. \/ Proceed(w, load) \/ Proceed(w, next) \/ Proceed(w, Idle)
      BY DEF StaffCanManageEventStore
    <2> QED
      BY <2>1, <1>2, <1>3
  <1> QED
    BY <1>4, ManagingKept

LEMMA LoadConfigKeeps ==
    ASSUME Current, IdsBounded, NEW w \in Workers, LoadConfig(w)
    PROVE  Kept(w)
  <1>1. request[w] \in PutRequest /\ ~Free(w)
    BY KindInHand DEF LoadConfig, At
  <1>2. ASSUME NEW c \in Exact(request[w].scope),
               Proceed(w, [request[w] EXCEPT !.step = "commit", !.row = c.id, !.read = c.settings])
        PROVE  Kept(w)
    <2> DEFINE r == [request[w] EXCEPT !.step = "commit", !.row = c.id, !.read = c.settings]
    <2>1. c \in configs /\ c.id \in Nat /\ c.settings \in SettingsType
      BY DEF Exact, Current, ConfigRow
    <2>2. r \in PutRequest /\ r.row = c.id
      BY <1>1, <2>1 DEF PutRequest
    <2>3. r \in Managing /\ Known(w, r)
      BY <2>1, <2>2 DEF Managing, Known
    <2> QED
      BY <1>2, <2>3, ManagingKept
  <1>3. ASSUME Proceed(w, [request[w] EXCEPT !.step = "commit"])
        PROVE  Kept(w)
    <2> DEFINE r == [request[w] EXCEPT !.step = "commit"]
    <2>1. r \in Managing /\ Known(w, r)
      BY <1>1 DEF PutRequest, Managing, Known
    <2> QED
      BY <1>3, <2>1, ManagingKept
  <1> QED
    BY <1>2, <1>3 DEF LoadConfig

LEMMA PinReceived ==
    ASSUME Current, IdsBounded, NEW w \in Workers, PinFeaturedTarget(w)
    PROVE  Kept(w)
  <1>1. PICK target \in Featurable, until \in Expiries :
            Receive(w, [op |-> "pin", target |-> target, until |-> until,
                        step |-> "event_store", applies |-> Default,
                        row |-> NoRow, read |-> Never, at |-> 0])
    BY DEF PinFeaturedTarget
  <1> DEFINE r == [op |-> "pin", target |-> target, until |-> until,
                   step |-> "event_store", applies |-> Default,
                   row |-> NoRow, read |-> Never, at |-> 0]
  <1>2. r \in PinRequest /\ r.row = NoRow
    BY DefaultIsSettings DEF PinRequest, NoRow, Scopes
  <1> QED
    BY <1>1, <1>2, ReceiveKeeps DEF Managing

LEMMA UnpinReceived ==
    ASSUME Current, IdsBounded, NEW w \in Workers, UnpinFeaturedTarget(w)
    PROVE  Kept(w)
  <1>1. PICK target \in Featurable :
            Receive(w, [op |-> "unpin", target |-> target, step |-> "find", row |-> NoRow])
    BY DEF UnpinFeaturedTarget
  <1> DEFINE r == [op |-> "unpin", target |-> target, step |-> "find", row |-> NoRow]
  <1>2. r \in UnpinRequest /\ r.row = NoRow
    BY DEF UnpinRequest, NoRow
  <1> QED
    BY <1>1, <1>2, ReceiveKeeps DEF Managing

\* A look at a scope leaves the request as it was, but for the settings and the step.
LEMMA ResolveProceeds ==
    ASSUME Current, NEW w \in Workers, ResolveEffectiveConfig(w)
    PROVE  \E r \in Request :
               /\ Proceed(w, r)
               /\ r = Idle \/ Known(w, r)
               /\ request[w].op = "pin" =>
                      r = Idle \/ (r.op = "pin" /\ r.step \in Scopes \cup {"find"})
               /\ request[w].op = "recommend" =>
                      /\ r.op = "recommend" /\ r.other = request[w].other
                      /\ r.shown = request[w].shown
                      /\ \/ r.step \in Scopes
                         \/ r.applies = Default
                         \/ \E c \in configs : r.applies = c.settings
  <1> DEFINE q == request[w]
             widen == [q EXCEPT !.step = Wider(q.step)]
             pin(s) == [q EXCEPT !.applies = s, !.step = "find"]
             rec(s) == [q EXCEPT !.applies = s, !.step = "pins"]
  <1>1. q \in PinRequest \cup RecommendRequest /\ ~Free(w) /\ q.step \in Scopes
    BY KindInHand DEF ResolveEffectiveConfig
  <1>2. Wider(q.step) \in Scopes
    BY DEF Wider, Scopes
  <1>3. Idle \in Request /\ Idle.op = "none"
    BY DEF Request, Idle
  <1>4. \E s \in SettingsType :
            /\ s = Default \/ \E c \in configs : s = c.settings
            /\ \/ Proceed(w, IF q.op = "recommend" THEN rec(s)
                             ELSE IF s.pins_enabled THEN pin(s) ELSE Idle)
               \/ Proceed(w, widen)
    <2>1. CASE \E c \in Exact(q.step) :
                   Proceed(w, IF q.op = "recommend" THEN rec(c.settings)
                              ELSE IF c.settings.pins_enabled THEN pin(c.settings) ELSE Idle)
      BY <2>1 DEF Exact, Current, ConfigRow
    <2>2. CASE Proceed(w, IF q.op = "recommend" THEN rec(Default)
                          ELSE IF Default.pins_enabled THEN pin(Default) ELSE Idle)
      BY <2>2, DefaultIsSettings
    <2>3. CASE Proceed(w, widen)
      BY <2>3, DefaultIsSettings
    <2> QED
      BY <2>1, <2>2, <2>3 DEF ResolveEffectiveConfig
  <1>5. CASE q \in PinRequest
    <2>1. widen \in PinRequest /\ widen.row = q.row /\ widen.step \in Scopes
      BY <1>2, <1>5 DEF PinRequest
    <2>2. \A s \in SettingsType :
              pin(s) \in PinRequest /\ pin(s).row = q.row /\ pin(s).step = "find"
      BY <1>5 DEF PinRequest
    <2>3. q.op = "pin" /\ \A r \in PinRequest : r \in Request /\ r.op = "pin"
      BY <1>5 DEF PinRequest, Request
    <2> QED
      BY <1>1, <1>3, <1>4, <2>1, <2>2, <2>3 DEF Known
  <1>6. CASE q \in RecommendRequest
    <2>1. /\ widen \in RecommendRequest /\ widen.row = NoRow /\ widen.step \in Scopes
          /\ widen.op = "recommend" /\ widen.other = q.other /\ widen.shown = q.shown
      BY <1>2, <1>6 DEF RecommendRequest
    <2>2. ASSUME NEW s \in SettingsType
          PROVE  /\ rec(s) \in RecommendRequest /\ rec(s).row = NoRow /\ rec(s).applies = s
                 /\ rec(s).op = "recommend" /\ rec(s).other = q.other /\ rec(s).shown = q.shown
      BY <1>6 DEF RecommendRequest
    <2>3. q.op = "recommend" /\ RecommendRequest \subseteq Request
      BY <1>6 DEF RecommendRequest, Request
    <2>4. PICK s \in SettingsType :
              /\ s = Default \/ \E c \in configs : s = c.settings
              /\ Proceed(w, rec(s)) \/ Proceed(w, widen)
      BY <1>4, <2>3
    <2> HIDE DEF widen, rec
    <2>5. CASE Proceed(w, widen)
      BY <2>1, <2>3, <2>5 DEF Known
    <2>6. CASE Proceed(w, rec(s))
      BY <2>2, <2>3, <2>4, <2>6 DEF Known
    <2> QED
      BY <2>4, <2>5, <2>6
  <1> QED
    BY <1>1, <1>5, <1>6

LEMMA FindPinKeeps ==
    ASSUME Current, IdsBounded, NEW w \in Workers, FindPin(w)
    PROVE  Kept(w)
  <1>1. request[w] \in PinRequest /\ ~Free(w)
    BY KindInHand DEF FindPin, At
  <1>2. ASSUME NEW p \in PinsOf(request[w].target),
               Proceed(w, [request[w] EXCEPT !.step = "count", !.row = p.id, !.read = p.expires])
        PROVE  Kept(w)
    <2> DEFINE r == [request[w] EXCEPT !.step = "count", !.row = p.id, !.read = p.expires]
    <2>1. p \in pins /\ p.id \in Nat /\ p.expires \in Nat \cup {Never}
      BY DEF PinsOf, Current, PinRow
    <2>2. r \in PinRequest /\ r.row = p.id
      BY <1>1, <2>1 DEF PinRequest
    <2>3. r \in Managing /\ Known(w, r)
      BY <2>1, <2>2 DEF Managing, Known
    <2> QED
      BY <1>2, <2>3, ManagingKept
  <1>3. ASSUME Proceed(w, [request[w] EXCEPT !.step = "count"])
        PROVE  Kept(w)
    <2>1. [request[w] EXCEPT !.step = "count"] \in PinRequest
          /\ [request[w] EXCEPT !.step = "count"].row = request[w].row
      BY <1>1 DEF PinRequest
    <2> QED
      BY <1>1, <1>3, <2>1, ManagingKept DEF Managing, Known
  <1> QED
    BY <1>2, <1>3 DEF FindPin

LEMMA CountPinsKeeps ==
    ASSUME Current, IdsBounded, NEW w \in Workers, CountPins(w)
    PROVE  Kept(w)
  <1> DEFINE r == [request[w] EXCEPT !.step = "commit", !.at = now]
  <1>1. request[w] \in PinRequest /\ ~Free(w)
    BY KindInHand DEF CountPins, At
  <1>2. now \in Nat
    BY RecommendationAssumption DEF RecommendationAssumption, Current
  <1>3. r \in PinRequest /\ r.row = request[w].row
    BY <1>1, <1>2 DEF PinRequest
  <1>4. r \in Managing /\ Known(w, r) /\ Idle \in Managing
    BY <1>1, <1>3 DEF Managing, Known
  <1>5. Proceed(w, r) \/ Proceed(w, Idle)
    BY DEF CountPins
  <1> QED
    BY <1>4, <1>5, ManagingKept

LEMMA FindPinToRemoveKeeps ==
    ASSUME Current, IdsBounded, NEW w \in Workers, FindPinToRemove(w)
    PROVE  Kept(w)
  <1>1. request[w] \in UnpinRequest
    BY KindInHand DEF FindPinToRemove, At
  <1>2. ASSUME NEW p \in pins, Proceed(w, [request[w] EXCEPT !.step = "commit", !.row = p.id])
        PROVE  Kept(w)
    <2> DEFINE r == [request[w] EXCEPT !.step = "commit", !.row = p.id]
    <2>1. p.id \in Nat
      BY DEF Current, PinRow
    <2>2. r \in UnpinRequest /\ r.row = p.id
      BY <1>1, <2>1 DEF UnpinRequest
    <2> QED
      BY <1>2, <2>2, ManagingKept DEF Managing, Known
  <1>3. ASSUME Proceed(w, Idle) PROVE Kept(w)
    BY <1>3, ManagingKept DEF Managing
  <1> QED
    BY <1>2, <1>3 DEF FindPinToRemove

LEMMA RuleReceived ==
    ASSUME Current, IdsBounded, NEW w \in Workers,
           CreatePairingRule(w) \/ DeletePairingRule(w)
    PROVE  Kept(w)
  <1>1. ASSUME NEW ruling \in Ruling, NEW op \in {"rule", "delete"}, NEW n \in Nat,
               n = NoRow \/ \E q \in rules : n = q.id,
               Receive(w, [op |-> op, ruling |-> ruling, step |-> "find", row |-> n])
        PROVE  Kept(w)
    <2> DEFINE r == [op |-> op, ruling |-> ruling, step |-> "find", row |-> n]
    <2>1. r \in RuleRequest /\ r.row = n
      BY DEF RuleRequest
    <2> QED
      BY <1>1, <2>1, ReceiveKeeps DEF Managing
  <1>2. CASE CreatePairingRule(w)
    <2>1. PICK ruling \in Rulings :
              Receive(w, [op |-> "rule", ruling |-> ruling, step |-> "find", row |-> NoRow])
      BY <1>2 DEF CreatePairingRule
    <2>2. ruling \in Ruling /\ NoRow \in Nat
      BY RecommendationAssumption DEF RecommendationAssumption, NoRow
    <2> QED
      BY <1>1, <2>1, <2>2
  <1>3. CASE DeletePairingRule(w)
    <2>1. PICK q \in rules :
              Receive(w, [op |-> "delete", ruling |-> [pair |-> q.pair, effect |-> q.effect],
                          step |-> "find", row |-> q.id])
      BY <1>3 DEF DeletePairingRule
    <2>2. [pair |-> q.pair, effect |-> q.effect] \in Ruling /\ q.id \in Nat
      BY DEF Current, RuleRow, Ruling
    <2> QED
      BY <1>1, <2>1, <2>2
  <1> QED
    BY <1>2, <1>3

LEMMA FindRuleKeeps ==
    ASSUME Current, IdsBounded, NEW w \in Workers, FindRule(w) \/ FindRuleToRemove(w)
    PROVE  Kept(w)
  <1> DEFINE r == [request[w] EXCEPT !.step = "commit"]
  <1>1. request[w] \in RuleRequest /\ ~Free(w)
    BY KindInHand DEF FindRule, FindRuleToRemove, At
  <1>2. r \in RuleRequest /\ r.row = request[w].row
    BY <1>1 DEF RuleRequest
  <1>3. r \in Managing /\ Idle \in Managing /\ Known(w, r)
    BY <1>1, <1>2 DEF Managing, Known
  <1>4. Proceed(w, r) \/ Proceed(w, Idle)
    BY DEF FindRule, FindRuleToRemove
  <1> QED
    BY <1>3, <1>4, ManagingKept

-----------------------------------------------------------------------------
(* Commits.                                                                *)

LEMMA CommitKept ==
    ASSUME Current, IdsBounded, NEW w \in Workers,
           request' = [request EXCEPT ![w] = Idle], now' = now,
           configs' \subseteq ConfigRow, pins' \subseteq PinRow, rules' \subseteq RuleRow,
           NEW m \in Nat,
           \A row \in configs' \cup pins' \cup rules' :
               row.id = m \/ \E old \in configs \cup pins \cup rules : row.id = old.id
    PROVE  Kept(w)
  <1>1. Current' /\ request'[w].op # "recommend"
    BY DEF Current, Request, Idle
  <1>2. PICK n \in Nat : IdsUpTo(n)
    BY DEF IdsBounded
  <1>3. PICK k \in Nat : n <= k /\ m <= k
    <2>1. n <= n + m /\ m <= n + m /\ n + m \in Nat
      OBVIOUS
    <2> QED
      BY <2>1
  <1>4. \A old \in configs \cup pins \cup rules : old.id \in Nat /\ old.id <= k
    BY <1>2, <1>3 DEF IdsUpTo, Current, ConfigRow, PinRow, RuleRow
  <1>5. \A row \in configs' \cup pins' \cup rules' : row.id <= k
    BY <1>3, <1>4
  <1>6. \A v \in Workers : ~Free(v)' => request'[v].row <= k
    <2> SUFFICES ASSUME NEW v \in Workers, ~Free(v)' PROVE request'[v].row <= k
      OBVIOUS
    <2>1. v # w /\ request'[v] = request[v] /\ ~Free(v)
      BY DEF Current, Free
    <2> QED
      BY <1>2, <1>3, <2>1, KindInHand DEF IdsUpTo
  <1>7. IdsUpTo(k)'
    BY <1>5, <1>6 DEF IdsUpTo
  <1> QED
    BY <1>1, <1>7 DEF Kept, IdsBounded

\* Fresh ids, among rows of a table.
LEMMA FreshInTable ==
    ASSUME Current, IdsBounded, NEW rows,
           rows \subseteq configs \/ rows \subseteq pins \/ rows \subseteq rules
    PROVE  Fresh(rows) \in Nat \ {0} /\ \A r \in rows : r.id # Fresh(rows)
  <1>1. PICK n \in Nat : IdsUpTo(n)
    BY DEF IdsBounded
  <1>2. \A r \in rows : r.id \in Nat /\ r.id <= n
    BY <1>1 DEF IdsUpTo, Current, ConfigRow, PinRow, RuleRow
  <1>3. \A w \in Workers : ~Free(w) => request[w].row \in Nat /\ request[w].row <= n
    BY <1>1, KindInHand DEF IdsUpTo
  <1> QED
    BY <1>2, <1>3, FreshIsNew

LEMMA CommitConfigKeeps ==
    ASSUME Current, IdsBounded, NEW w \in Workers, CommitConfig(w)
    PROVE  Kept(w)
  <1> DEFINE r == request[w]
             settings == Saved(r.scope, r.payload)
             fresh == Fresh(Exact(r.scope))
             new == [id |-> fresh, scope |-> r.scope, settings |-> settings]
             changed(c) == [c EXCEPT !.settings = Assigned(@, r.read, settings)]
  <1>1. r \in PutRequest
    BY KindInHand DEF CommitConfig, At
  <1>2. r.scope \in Scopes /\ r.payload \in SettingsType /\ r.read \in SettingsType
    BY <1>1 DEF PutRequest
  <1>3. settings \in SettingsType
    BY <1>2, SavedIsSettings
  <1>4. fresh \in Nat
    BY FreshInTable DEF Exact
  <1>5. new \in ConfigRow /\ new.id = fresh
    BY <1>2, <1>3, <1>4 DEF ConfigRow
  <1>6. \A c \in configs : changed(c) \in ConfigRow /\ changed(c).id = c.id
    <2> SUFFICES ASSUME NEW c \in configs
                 PROVE  changed(c) \in ConfigRow /\ changed(c).id = c.id
      OBVIOUS
    <2>1. c \in ConfigRow
      BY DEF Current
    <2>2. Assigned(c.settings, r.read, settings) \in SettingsType
      BY <1>2, <1>3, <2>1, AssignedIsSettings DEF ConfigRow
    <2> QED
      BY <2>1, <2>2 DEF ConfigRow
  <1>7. /\ request' = [request EXCEPT ![w] = Idle]
        /\ now' = now /\ pins' = pins /\ rules' = rules
        /\ \A c \in configs' : c = new \/ c \in configs \/ \E d \in configs : c = changed(d)
    BY DEF CommitConfig
  <1> HIDE DEF new, changed, fresh
  <1>8. configs' \subseteq ConfigRow
    BY <1>5, <1>6, <1>7 DEF Current
  <1>9. \A row \in configs' \cup pins' \cup rules' :
            row.id = fresh \/ \E old \in configs \cup pins \cup rules : row.id = old.id
    BY <1>5, <1>6, <1>7
  <1>10. pins' \subseteq PinRow /\ rules' \subseteq RuleRow
    BY <1>7 DEF Current
  <1> QED
    BY <1>4, <1>7, <1>8, <1>9, <1>10, CommitKept

LEMMA CommitPinKeeps ==
    ASSUME Current, IdsBounded, NEW w \in Workers, CommitPin(w)
    PROVE  Kept(w)
  <1> DEFINE r == request[w]
             fresh == Fresh(PinsOf(r.target))
             new == [id |-> fresh, target |-> r.target, created |-> r.at, expires |-> Until(r)]
             changed(p) == [p EXCEPT !.created = r.at,
                                     !.expires = IF Until(r) # r.read THEN Until(r) ELSE @]
  <1>1. r \in PinRequest
    BY KindInHand DEF CommitPin, At
  <1>2. r.at \in Nat /\ r.target \in Featurable /\ r.until \in Nat \cup {Never}
        /\ r.applies.pin_ttl_hours \in Nat
    BY <1>1, RecommendationAssumption DEF PinRequest, SettingsType, RecommendationAssumption
  <1>3. Until(r) \in Nat \cup {Never}
    BY <1>2 DEF Until
  <1>4. fresh \in Nat
    BY FreshInTable DEF PinsOf
  <1>5. new \in PinRow /\ new.id = fresh
    BY <1>2, <1>3, <1>4 DEF PinRow
  <1>6. \A p \in pins : changed(p) \in PinRow /\ changed(p).id = p.id
    BY <1>2, <1>3 DEF Current, PinRow
  <1>7. /\ request' = [request EXCEPT ![w] = Idle]
        /\ now' = now /\ configs' = configs /\ rules' = rules
        /\ \A p \in pins' : p = new \/ p \in pins \/ \E q \in pins : p = changed(q)
    BY DEF CommitPin
  <1> HIDE DEF new, changed, fresh
  <1>8. pins' \subseteq PinRow
    BY <1>5, <1>6, <1>7 DEF Current
  <1>9. \A row \in configs' \cup pins' \cup rules' :
            row.id = fresh \/ \E old \in configs \cup pins \cup rules : row.id = old.id
    BY <1>5, <1>6, <1>7
  <1>10. configs' \subseteq ConfigRow /\ rules' \subseteq RuleRow
    BY <1>7 DEF Current
  <1> QED
    BY <1>4, <1>7, <1>8, <1>9, <1>10, CommitKept

LEMMA CommitRuleKeeps ==
    ASSUME Current, IdsBounded, NEW w \in Workers, CommitRule(w)
    PROVE  Kept(w)
  <1> DEFINE r == request[w]
             new == NewRule(r.ruling)
             fresh == Fresh(RulesFor(r.ruling))
  <1>1. r.ruling \in Ruling
    BY KindInHand DEF CommitRule, At, RuleRequest
  <1>2. fresh \in Nat
    BY FreshInTable DEF RulesFor
  <1>3. new \in RuleRow /\ new.id = fresh
    BY <1>1, <1>2 DEF RuleRow, NewRule, Ruling
  <1>4. /\ request' = [request EXCEPT ![w] = Idle]
        /\ now' = now /\ configs' = configs /\ pins' = pins
        /\ \A q \in rules' : q = new \/ q \in rules
    BY DEF CommitRule
  <1> HIDE DEF new, fresh
  <1>5. rules' \subseteq RuleRow /\ configs' \subseteq ConfigRow /\ pins' \subseteq PinRow
    BY <1>3, <1>4 DEF Current
  <1>6. \A row \in configs' \cup pins' \cup rules' :
            row.id = fresh \/ \E old \in configs \cup pins \cup rules : row.id = old.id
    BY <1>3, <1>4
  <1> QED
    BY <1>2, <1>4, <1>5, <1>6, CommitKept

LEMMA RemovalKeeps ==
    ASSUME Current, IdsBounded, NEW w \in Workers, CommitUnpin(w) \/ CommitDelete(w)
    PROVE  Kept(w)
  <1>1. /\ request' = [request EXCEPT ![w] = Idle] /\ now' = now
        /\ configs' = configs /\ pins' \subseteq pins /\ rules' \subseteq rules
    BY DEF CommitUnpin, CommitDelete
  <1>2. configs' \subseteq ConfigRow /\ pins' \subseteq PinRow /\ rules' \subseteq RuleRow
    BY <1>1 DEF Current
  <1>3. \A row \in configs' \cup pins' \cup rules' :
            row.id = 0 \/ \E old \in configs \cup pins \cup rules : row.id = old.id
    BY <1>1
  <1> QED
    BY <1>1, <1>2, <1>3, CommitKept
-----------------------------------------------------------------------------
(* Recommendations.                                                        *)

\* What is shown was not forbidden all along; and once the settings are known
\* and leave rules unenforced, there was a moment when nothing was barred.
Honest(w) ==
    request[w].op = "recommend" =>
        /\ \A t \in request[w].shown : PairOf(t, request[w].other) \notin barred[w]
        /\ request[w].step \notin Scopes /\ ~request[w].applies.enforce_pairing_rules =>
               barred[w] = {}

BlocklistInv == \A w \in Workers : Honest(w)

LEMMA BarredNarrows ==
    ASSUME Remember, NEW w \in Workers,
           request[w].op = "recommend", request'[w].op = "recommend"
    PROVE  barred'[w] = barred[w] \cap Barred'
  BY DEF Remember

LEMMA OthersHonest ==
    ASSUME Remember, NEW w \in Workers, Honest(w), request'[w] = request[w]
    PROVE  Honest(w)'
  <1>1. CASE request[w].op = "recommend"
    BY <1>1, BarredNarrows DEF Honest
  <1>2. CASE request[w].op # "recommend"
    BY <1>2 DEF Honest
  <1> QED
    BY <1>1, <1>2

\* The code's test agrees with what the documents forbid.
LEMMA AllowedIsNotForbidden ==
    ASSUME NEW pair, PairingAllows(pair)
    PROVE  ~Forbidden(pair)
  BY DEF PairingAllows, Forbidden

LEMMA SameTablesSameBarred ==
    ASSUME NEW w, NEW r, Proceed(w, r)
    PROVE  Barred' = Barred
  BY DEF Proceed, tables, Barred, Forbidden

LEMMA RecommendReceived ==
    ASSUME Current, IdsBounded, Remember, NEW w \in Workers,
           RecommendDirectory(w) \/ RecommendRepertoire(w)
    PROVE  Current' /\ IdsBounded' /\ Honest(w)'
  <1>1. PICK other \in Named, todo \in SUBSET Named :
            Receive(w, [op |-> "recommend", other |-> other, step |-> "event_store",
                        row |-> NoRow, applies |-> Default, todo |-> todo,
                        shown |-> {}, featured |-> {}])
    BY DEF RecommendDirectory, RecommendRepertoire, Named
  <1> DEFINE r == [op |-> "recommend", other |-> other, step |-> "event_store",
                   row |-> NoRow, applies |-> Default, todo |-> todo,
                   shown |-> {}, featured |-> {}]
  <1>2. r \in RecommendRequest /\ r.row = NoRow /\ r.shown = {} /\ r.step \in Scopes
    BY DefaultIsSettings DEF RecommendRequest, Scopes
  <1>3. r \in Request
    BY <1>2 DEF Request
  <1> HIDE DEF r
  <1>4. Receive(w, r)
    BY <1>1 DEF r
  <1>5. Proceed(w, r) /\ Known(w, r)
    BY <1>2, <1>4 DEF Receive, Proceed, Known
  <1>6. Current' /\ IdsBounded' /\ request'[w] = r
    BY <1>3, <1>5, ProceedKeeps
  <1> QED
    BY <1>2, <1>6 DEF Honest

LEMMA ResolveKeeps ==
    ASSUME Current, IdsBounded, BlocklistInv, Remember, NEW w \in Workers,
           ResolveEffectiveConfig(w)
    PROVE  Current' /\ IdsBounded' /\ Honest(w)'
  <1>1. PICK r \in Request :
            /\ Proceed(w, r)
            /\ r = Idle \/ Known(w, r)
            /\ request[w].op = "pin" =>
                   r = Idle \/ (r.op = "pin" /\ r.step \in Scopes \cup {"find"})
            /\ request[w].op = "recommend" =>
                   /\ r.op = "recommend" /\ r.other = request[w].other
                   /\ r.shown = request[w].shown
                   /\ \/ r.step \in Scopes
                      \/ r.applies = Default
                      \/ \E c \in configs : r.applies = c.settings
    BY ResolveProceeds
  <1>2. Current' /\ IdsBounded' /\ request'[w] = r
    BY <1>1, ProceedKeeps
  <1>3. CASE request[w].op = "pin"
    BY <1>1, <1>2, <1>3 DEF Honest, Idle
  <1>4. CASE request[w].op = "recommend"
    <2>1. barred'[w] = barred[w] \cap Barred
      BY <1>1, <1>2, <1>4, BarredNarrows, SameTablesSameBarred
    <2>2. \A t \in r.shown : PairOf(t, r.other) \notin barred'[w]
      BY <1>1, <1>4, <2>1 DEF BlocklistInv, Honest
    <2>3. Default.enforce_pairing_rules
      BY DEF Default
    <2>4. (\E c \in configs : ~c.settings.enforce_pairing_rules) => Barred = {}
      BY DEF Barred
    <2>5. r.step \notin Scopes /\ ~r.applies.enforce_pairing_rules => barred'[w] = {}
      BY <1>1, <1>4, <2>1, <2>3, <2>4
    <2>6. \A t \in request'[w].shown : PairOf(t, request'[w].other) \notin barred'[w]
      BY <1>2, <2>2
    <2> QED
      BY <1>2, <2>5, <2>6 DEF Honest, PairOf
  <1> QED
    BY <1>3, <1>4 DEF ResolveEffectiveConfig

LEMMA ReadPinsKeeps ==
    ASSUME Current, IdsBounded, BlocklistInv, Remember, NEW w \in Workers, ReadPins(w)
    PROVE  Current' /\ IdsBounded' /\ Honest(w)'
  <1>1. request[w] \in RecommendRequest /\ ~Free(w)
        /\ request[w].op = "recommend" /\ request[w].step = "pins"
    BY KindInHand DEF ReadPins, At
  <1>2. PICK s \in SUBSET pins :
            Proceed(w, [request[w] EXCEPT !.step = "check", !.featured = {p.target : p \in s}])
    BY DEF ReadPins, Newest, ActivePins
  <1> DEFINE r == [request[w] EXCEPT !.step = "check", !.featured = {p.target : p \in s}]
  <1>3. {p.target : p \in s} \in SUBSET Named
    BY RecommendationAssumption DEF Current, PinRow, RecommendationAssumption, Named
  <1>4. /\ r \in RecommendRequest /\ r.op = "recommend" /\ r.row = request[w].row
        /\ r.shown = request[w].shown /\ r.other = request[w].other
        /\ r.applies = request[w].applies
    BY <1>1, <1>3 DEF RecommendRequest
  <1> HIDE DEF r
  <1>5. Proceed(w, r)
    BY <1>2 DEF r
  <1>6. Current' /\ IdsBounded' /\ request'[w] = r
    BY <1>1, <1>4, <1>5, ProceedKeeps DEF Request, Known
  <1>7. barred'[w] \subseteq barred[w]
    BY <1>1, <1>4, <1>6, BarredNarrows
  <1>8. "pins" \notin Scopes
    BY DEF Scopes
  <1>9. /\ \A t \in r.shown : PairOf(t, r.other) \notin barred'[w]
        /\ ~r.applies.enforce_pairing_rules => barred'[w] = {}
    BY <1>1, <1>4, <1>7, <1>8 DEF BlocklistInv, Honest
  <1>10. \A t \in request'[w].shown : PairOf(t, request'[w].other) \notin barred'[w]
    BY <1>6, <1>9
  <1> QED
    BY <1>6, <1>9, <1>10 DEF Honest, PairOf

LEMMA CheckKeeps ==
    ASSUME Current, IdsBounded, BlocklistInv, Remember, NEW w \in Workers, CheckCandidate(w)
    PROVE  Current' /\ IdsBounded' /\ Honest(w)'
  <1> DEFINE q == request[w]
             passes(t) == ~q.applies.enforce_pairing_rules \/ PairingAllows(PairOf(t, q.other))
  <1>1. q \in RecommendRequest /\ ~Free(w) /\ q.op = "recommend" /\ q.step = "check"
    BY KindInHand DEF CheckCandidate, At
  <1>2. PICK t \in q.todo :
            Proceed(w, [q EXCEPT
                !.todo = @ \ {t},
                !.shown = IF q.applies.enforce_pairing_rules /\ ~PairingAllows(PairOf(t, q.other))
                          THEN @ ELSE @ \cup {t}])
    BY DEF CheckCandidate
  <1> DEFINE r == [q EXCEPT
                !.todo = @ \ {t},
                !.shown = IF q.applies.enforce_pairing_rules /\ ~PairingAllows(PairOf(t, q.other))
                          THEN @ ELSE @ \cup {t}]
  <1>3. /\ r \in RecommendRequest /\ r.op = "recommend" /\ r.row = q.row
        /\ r.other = q.other /\ r.applies = q.applies
        /\ \A u \in r.shown : u \in q.shown \/ (u = t /\ passes(t))
    BY <1>1 DEF RecommendRequest
  <1> HIDE DEF r
  <1>4. Proceed(w, r)
    BY <1>2 DEF r
  <1>5. Current' /\ IdsBounded' /\ request'[w] = r
    BY <1>1, <1>3, <1>4, ProceedKeeps DEF Request, Known
  <1>6. barred'[w] = barred[w] \cap Barred
    BY <1>1, <1>3, <1>4, <1>5, BarredNarrows, SameTablesSameBarred
  <1>7. "check" \notin Scopes
    BY DEF Scopes
  <1>8. ~q.applies.enforce_pairing_rules => barred[w] = {}
    BY <1>1, <1>7 DEF BlocklistInv, Honest
  <1>9. passes(t) => PairOf(t, q.other) \notin barred'[w]
    BY <1>6, <1>8, AllowedIsNotForbidden DEF Barred
  <1>10. \A u \in q.shown : PairOf(u, q.other) \notin barred'[w]
    BY <1>1, <1>6 DEF BlocklistInv, Honest
  <1>11. \A u \in r.shown : PairOf(u, r.other) \notin barred'[w]
    BY <1>3, <1>9, <1>10
  <1>12. \A u \in request'[w].shown : PairOf(u, request'[w].other) \notin barred'[w]
    BY <1>5, <1>11
  <1>13. ~request'[w].applies.enforce_pairing_rules => barred'[w] = {}
    BY <1>3, <1>5, <1>6, <1>8
  <1> QED
    BY <1>5, <1>12, <1>13 DEF Honest, PairOf

LEMMA AnswerKeeps ==
    ASSUME Current, IdsBounded, NEW w \in Workers, Answer(w)
    PROVE  Kept(w)
  BY ManagingKept DEF Answer, Managing
-----------------------------------------------------------------------------
(* The steps together.                                                     *)

Inv == TypeOK /\ IdsBounded /\ BlocklistInv

LEMMA InitHolds == Init => Inv
  <1> SUFFICES ASSUME Init PROVE Inv
    OBVIOUS
  <1>1. TypeOK
    BY RecommendationAssumption DEF Init, TypeOK, Request, RecommendationAssumption
  <1>2. IdsUpTo(0)
    BY DEF Init, IdsUpTo, Free
  <1>3. BlocklistInv
    BY DEF Init, BlocklistInv, Honest, Idle
  <1> QED
    BY <1>1, <1>2, <1>3 DEF Inv, IdsBounded

LEMMA TypeOKParts ==
    TypeOK <=> /\ Current
               /\ barred \in [Workers -> SUBSET Pairs]
               /\ granted \subseteq Workers /\ calm \subseteq Workers
  BY DEF TypeOK, Current

\* A step of one worker leaves what the others do alone.
LEMMA OthersUntouched ==
    ASSUME Current, NEW w \in Workers, NEW v \in Workers \ {w},
           Configure(w) \/ Feature(w) \/ Pair(w) \/ Recommend(w)
    PROVE  request'[v] = request[v]
  <1>1. CASE Configure(w)
    BY <1>1 DEF Configure, UpsertRecommendationConfig, StaffCanManageEventStore, LoadConfig,
       CommitConfig, Receive, Proceed, Current
  <1>2. CASE Feature(w)
    BY <1>2 DEF Feature, PinFeaturedTarget, FindPin, CountPins, CommitPin,
       UnpinFeaturedTarget, FindPinToRemove, CommitUnpin, Receive, Proceed, Current
  <1>3. CASE Pair(w)
    BY <1>3 DEF Pair, CreatePairingRule, DeletePairingRule, FindRule, CommitRule,
       FindRuleToRemove, CommitDelete, Receive, Proceed, Current
  <1>4. CASE Recommend(w)
    BY <1>4 DEF Recommend, RecommendDirectory, RecommendRepertoire, ResolveEffectiveConfig,
       ReadPins, CheckCandidate, Answer, Receive, Proceed, Current
  <1> QED
    BY <1>1, <1>2, <1>3, <1>4

LEMMA ActionKeeps ==
    ASSUME Current, IdsBounded, BlocklistInv, Remember, NEW w \in Workers,
           Configure(w) \/ Feature(w) \/ Pair(w) \/ Recommend(w)
    PROVE  Current' /\ IdsBounded' /\ Honest(w)'
  <1>1. Kept(w) => Current' /\ IdsBounded' /\ Honest(w)'
    BY DEF Kept, Honest
  <1>2. CASE Configure(w)
    BY <1>1, <1>2, UpsertKeeps, DelegationKeeps, LoadConfigKeeps, CommitConfigKeeps
       DEF Configure
  <1>3. CASE Feature(w)
    BY <1>1, <1>3, PinReceived, UnpinReceived, FindPinKeeps, CountPinsKeeps, CommitPinKeeps,
       FindPinToRemoveKeeps, RemovalKeeps DEF Feature
  <1>4. CASE Pair(w)
    BY <1>1, <1>4, RuleReceived, FindRuleKeeps, CommitRuleKeeps, RemovalKeeps DEF Pair
  <1>5. CASE Recommend(w)
    BY <1>1, <1>5, RecommendReceived, ResolveKeeps, ReadPinsKeeps, CheckKeeps, AnswerKeeps
       DEF Recommend
  <1> QED
    BY <1>2, <1>3, <1>4, <1>5

LEMMA TickKeeps ==
    ASSUME Current, IdsBounded, Tick
    PROVE  Current' /\ IdsBounded' /\ request' = request
  <1>1. now' \in 0..MaxNow
    BY RecommendationAssumption DEF Current, Tick, RecommendationAssumption
  <1>2. request' = request /\ configs' = configs /\ pins' = pins /\ rules' = rules
    BY DEF Tick, tables
  <1> QED
    BY <1>1, <1>2 DEF Current, IdsBounded, IdsUpTo, Free

LEMMA StepHolds ==
    ASSUME Inv, [Next]_vars
    PROVE  Inv'
  <1>1. Current /\ IdsBounded /\ BlocklistInv /\ barred \in [Workers -> SUBSET Pairs]
    BY TypeOKParts DEF Inv
  <1>2. CASE UNCHANGED vars
    BY <1>2 DEF vars, Inv, TypeOK, IdsBounded, IdsUpTo, Free, BlocklistInv, Honest, PairOf
  <1>3. CASE Next
    <2>1. Remember
      BY <1>3 DEF Next
    <2>2. Current' /\ IdsBounded' /\ BlocklistInv'
      <3>1. CASE Tick
        <4>1. Current' /\ IdsBounded' /\ request' = request
          BY <1>1, <3>1, TickKeeps
        <4> QED
          BY <1>1, <2>1, <4>1, OthersHonest DEF BlocklistInv
      <3>2. ASSUME NEW w \in Workers, Configure(w) \/ Feature(w) \/ Pair(w) \/ Recommend(w)
            PROVE  Current' /\ IdsBounded' /\ BlocklistInv'
        <4>1. Current' /\ IdsBounded' /\ Honest(w)'
          BY <1>1, <2>1, <3>2, ActionKeeps
        <4>2. ASSUME NEW v \in Workers \ {w} PROVE Honest(v)'
          BY <1>1, <2>1, <3>2, <4>2, OthersUntouched, OthersHonest DEF BlocklistInv
        <4> QED
          BY <4>1, <4>2 DEF BlocklistInv
      <3> QED
        BY <1>3, <3>1, <3>2 DEF Next
    <2>3. Barred' \subseteq Pairs
      BY DEF Barred
    <2>4. barred' \in [Workers -> SUBSET Pairs]
      BY <1>1, <2>1, <2>3 DEF Remember
    <2>5. granted' \subseteq Workers /\ calm' \subseteq Workers
      BY <2>1 DEF Remember
    <2> QED
      BY <2>2, <2>4, <2>5 DEF Inv, TypeOK, Current
  <1> QED
    BY <1>2, <1>3

\* Whatever requests overlap, and however many there are, every row and every
\* request in hand holds values of its kind.
THEOREM TypeCorrect == Spec => []TypeOK
  <1>1. Inv => TypeOK
    BY DEF Inv
  <1> QED
    BY <1>1, InitHolds, StepHolds, PTL DEF Spec

\* Whatever requests overlap, a recommendation never holds a pair that was
\* forbidden, with no settings against it, ever since the request began.
THEOREM BlocklistSafe == Spec => []BlocklistHolds
  <1>1. Inv => BlocklistHolds
    BY DEF Inv, BlocklistInv, Honest, BlocklistHolds
  <1> QED
    BY <1>1, InitHolds, StepHolds, PTL DEF Spec
-----------------------------------------------------------------------------
(* Requests apart.                                                         *)

RowsNumbered == \A row \in configs \cup pins : row.id # NoRow

\* What a request found is still so: nobody else saves its scope or its target.
Settled(w) ==
    LET r == request[w]
    IN  /\ r.op = "put" /\ r.step = "commit" /\ r.row = NoRow => Exact(r.scope) = {}
        /\ r.op = "pin" /\ r.step \in {"count", "commit"} /\ r.row = NoRow =>
               PinsOf(r.target) = {}
        /\ r.op = "unpin" /\ r.step = "commit" => \A p \in PinsOf(r.target) : p.id = r.row

ApartInv ==
    Inv /\ RowsNumbered /\ Apart /\ OneRowEach /\ \A w \in Workers : Settled(w)

LEMMA ApartInit == Init => ApartInv
  <1> SUFFICES ASSUME Init PROVE ApartInv
    OBVIOUS
  <1>1. \A w \in Workers : Free(w)
    BY DEF Init, Free
  <1>2. RowsNumbered /\ OneRowEach
    BY DEF Init, RowsNumbered, OneRowEach
  <1>3. Apart
    BY <1>1 DEF Apart
  <1>4. \A w \in Workers : Settled(w)
    BY DEF Init, Settled, Idle
  <1> QED
    BY <1>2, <1>3, <1>4, InitHolds DEF ApartInv

\* Between its commits a request changes no row, and goes on from what it finds.
Between(w) ==
    \/ UpsertRecommendationConfig(w) \/ StaffCanManageEventStore(w) \/ LoadConfig(w)
    \/ PinFeaturedTarget(w) \/ FindPin(w) \/ CountPins(w)
    \/ UnpinFeaturedTarget(w) \/ FindPinToRemove(w)
    \/ Pair(w) \/ Recommend(w)

LEMMA BetweenIsSettled ==
    ASSUME ApartInv, NEW w \in Workers, Between(w)
    PROVE  configs' = configs /\ pins' = pins /\ Settled(w)'
  <1>1. Current /\ Settled(w) /\ OneRowEach /\ RowsNumbered
    BY TypeOKParts DEF ApartInv, Inv
  <1>2. CASE UpsertRecommendationConfig(w)
    BY <1>1, <1>2 DEF UpsertRecommendationConfig, Receive, tables, Current, Settled
  <1>3. CASE StaffCanManageEventStore(w)
    <2>1. request[w] \in PutRequest
      BY <1>1, <1>3, KindInHand DEF StaffCanManageEventStore
    <2> QED
      BY <1>1, <1>3, <2>1 DEF StaffCanManageEventStore, Proceed, tables, Current, Settled,
         PutRequest, Idle
  <1>4. CASE LoadConfig(w)
    <2>1. request[w] \in PutRequest
      BY <1>1, <1>4, KindInHand DEF LoadConfig, At
    <2>2. ASSUME NEW c \in Exact(request[w].scope),
                 Proceed(w, [request[w] EXCEPT !.step = "commit", !.row = c.id, !.read = c.settings])
          PROVE  configs' = configs /\ pins' = pins /\ Settled(w)'
      <3>1. c.id # NoRow
        BY <1>1 DEF RowsNumbered, Exact
      <3> QED
        BY <1>1, <2>1, <2>2, <3>1 DEF Proceed, tables, Current, Settled, PutRequest
    <2>3. ASSUME Exact(request[w].scope) = {},
                 Proceed(w, [request[w] EXCEPT !.step = "commit"])
          PROVE  configs' = configs /\ pins' = pins /\ Settled(w)'
      BY <1>1, <2>1, <2>3 DEF Proceed, tables, Current, Settled, PutRequest, Exact
    <2> QED
      BY <1>4, <2>2, <2>3 DEF LoadConfig
  <1>5. CASE PinFeaturedTarget(w)
    BY <1>1, <1>5 DEF PinFeaturedTarget, Receive, tables, Current, Settled
  <1>6. CASE FindPin(w)
    <2>1. request[w] \in PinRequest
      BY <1>1, <1>6, KindInHand DEF FindPin, At
    <2>2. ASSUME NEW p \in PinsOf(request[w].target),
                 Proceed(w, [request[w] EXCEPT !.step = "count", !.row = p.id, !.read = p.expires])
          PROVE  configs' = configs /\ pins' = pins /\ Settled(w)'
      <3>1. p.id # NoRow
        BY <1>1 DEF RowsNumbered, PinsOf
      <3> QED
        BY <1>1, <2>1, <2>2, <3>1 DEF Proceed, tables, Current, Settled, PinRequest
    <2>3. ASSUME PinsOf(request[w].target) = {},
                 Proceed(w, [request[w] EXCEPT !.step = "count"])
          PROVE  configs' = configs /\ pins' = pins /\ Settled(w)'
      BY <1>1, <2>1, <2>3 DEF Proceed, tables, Current, Settled, PinRequest, PinsOf
    <2> QED
      BY <1>6, <2>2, <2>3 DEF FindPin
  <1>7. CASE CountPins(w)
    <2>1. request[w] \in PinRequest
      BY <1>1, <1>7, KindInHand DEF CountPins, At
    <2>2. configs' = configs /\ pins' = pins
      BY <1>7 DEF CountPins, Proceed, tables
    <2>3. request'[w] = Idle \/ request'[w] = [request[w] EXCEPT !.step = "commit", !.at = now]
      BY <1>1, <1>7 DEF CountPins, Proceed, Current
    <2>4. request[w].row = NoRow => PinsOf(request[w].target) = {}
      BY <1>1, <1>7 DEF CountPins, At, Settled
    <2>5. PinsOf(request[w].target)' = {p \in pins : p.target = request'[w].target}
      BY <2>2 DEF PinsOf
    <2>6. CASE request'[w] = Idle
      BY <2>2, <2>6 DEF Settled, Idle
    <2>7. CASE request'[w] = [request[w] EXCEPT !.step = "commit", !.at = now]
      <3>1. /\ request'[w].op = "pin" /\ request'[w].row = request[w].row
            /\ request'[w].target = request[w].target
        BY <2>1, <2>7 DEF PinRequest
      <3> QED
        BY <2>2, <2>4, <3>1 DEF Settled, PinsOf
    <2> QED
      BY <2>2, <2>3, <2>6, <2>7
  <1>8. CASE UnpinFeaturedTarget(w)
    BY <1>1, <1>8 DEF UnpinFeaturedTarget, Receive, tables, Current, Settled
  <1>9. CASE FindPinToRemove(w)
    <2>1. request[w] \in UnpinRequest
      BY <1>1, <1>9, KindInHand DEF FindPinToRemove, At
    <2>2. ASSUME NEW p \in pins, p.target = request[w].target,
                 Proceed(w, [request[w] EXCEPT !.step = "commit", !.row = p.id])
          PROVE  configs' = configs /\ pins' = pins /\ Settled(w)'
      <3>1. \A q \in PinsOf(request[w].target) : q.id = p.id
        BY <1>1, <2>2 DEF OneRowEach, PinsOf
      <3> QED
        BY <1>1, <2>1, <2>2, <3>1 DEF Proceed, tables, Current, Settled, UnpinRequest, PinsOf
    <2>3. ASSUME Proceed(w, Idle)
          PROVE  configs' = configs /\ pins' = pins /\ Settled(w)'
      BY <1>1, <2>3 DEF Proceed, tables, Current, Settled, Idle
    <2> QED
      BY <1>9, <2>2, <2>3 DEF FindPinToRemove
  <1>10. CASE Pair(w)
    <2>1. configs' = configs /\ pins' = pins
      BY <1>10 DEF Pair, CreatePairingRule, DeletePairingRule, FindRule, CommitRule,
         FindRuleToRemove, CommitDelete, Receive, Proceed, tables
    <2>2. CASE CreatePairingRule(w) \/ DeletePairingRule(w) \/ CommitRule(w) \/ CommitDelete(w)
      <3>1. request'[w].op \in {"rule", "delete", "none"}
        BY <1>1, <2>2 DEF CreatePairingRule, DeletePairingRule, CommitRule, CommitDelete,
           Receive, Current, Idle
      <3> QED
        BY <2>1, <3>1 DEF Settled
    <2>3. CASE FindRule(w) \/ FindRuleToRemove(w)
      <3>1. request[w] \in RuleRequest
        BY <1>1, <2>3, KindInHand DEF FindRule, FindRuleToRemove, At
      <3>2. request'[w].op \in {"rule", "delete", "none"}
        BY <1>1, <2>3, <3>1 DEF FindRule, FindRuleToRemove, Proceed, Current, Idle, RuleRequest
      <3> QED
        BY <2>1, <3>2 DEF Settled
    <2> QED
      BY <1>10, <2>2, <2>3 DEF Pair
  <1>11. CASE Recommend(w)
    <2>1. configs' = configs /\ pins' = pins
      BY <1>11 DEF Recommend, RecommendDirectory, RecommendRepertoire, ResolveEffectiveConfig,
         ReadPins, CheckCandidate, Answer, Receive, Proceed, tables
    <2>2. CASE RecommendDirectory(w) \/ RecommendRepertoire(w) \/ Answer(w)
      <3>1. request'[w].op \in {"recommend", "none"}
        BY <1>1, <2>2 DEF RecommendDirectory, RecommendRepertoire, Answer, Receive, Proceed,
           Current, Idle
      <3> QED
        BY <2>1, <3>1 DEF Settled
    <2>3. CASE ReadPins(w) \/ CheckCandidate(w)
      <3>1. request[w] \in RecommendRequest
        BY <1>1, <2>3, KindInHand DEF ReadPins, CheckCandidate, At
      <3>2. ReadPins(w) => request'[w].op = "recommend"
        <4> SUFFICES ASSUME ReadPins(w) PROVE request'[w].op = "recommend"
          OBVIOUS
        <4>1. PICK s : Proceed(w, [request[w] EXCEPT !.step = "check",
                                                     !.featured = {p.target : p \in s}])
          BY DEF ReadPins
        <4> QED
          BY <1>1, <3>1, <4>1 DEF Proceed, Current, RecommendRequest
      <3>3. CheckCandidate(w) => request'[w].op = "recommend"
        <4> SUFFICES ASSUME CheckCandidate(w) PROVE request'[w].op = "recommend"
          OBVIOUS
        <4>1. PICK todo, shown : Proceed(w, [request[w] EXCEPT !.todo = todo, !.shown = shown])
          BY DEF CheckCandidate
        <4> QED
          BY <1>1, <3>1, <4>1 DEF Proceed, Current, RecommendRequest
      <3>4. request'[w].op = "recommend"
        BY <2>3, <3>2, <3>3
      <3> QED
        BY <2>1, <3>4 DEF Settled
    <2>4. CASE ResolveEffectiveConfig(w)
      <3>1. PICK r \in Request :
                /\ Proceed(w, r)
                /\ request[w].op = "pin" =>
                       r = Idle \/ (r.op = "pin" /\ r.step \in Scopes \cup {"find"})
                /\ request[w].op = "recommend" => r.op = "recommend"
        BY <1>1, <2>4, ResolveProceeds
      <3>2. request[w].op \in {"pin", "recommend"} /\ request'[w] = r
        BY <1>1, <2>4, <3>1 DEF ResolveEffectiveConfig, Proceed, Current
      <3>3. /\ request'[w].op \in {"pin", "recommend", "none"}
            /\ request'[w].op = "pin" => request'[w].step \notin {"count", "commit"}
        BY <3>1, <3>2 DEF Idle, Scopes
      <3> QED
        BY <2>1, <3>3 DEF Settled
    <2> QED
      BY <1>11, <2>2, <2>3, <2>4 DEF Recommend
  <1> QED
    BY <1>2, <1>3, <1>4, <1>5, <1>6, <1>7, <1>8, <1>9, <1>10, <1>11 DEF Between

\* A saved configuration is the only row of its scope.
LEMMA ConfigCommitted ==
    ASSUME ApartInv, NEW w \in Workers, CommitConfig(w)
    PROVE  /\ pins' = pins /\ request'[w] = Idle /\ request[w].op = "put"
           /\ \A c \in configs' : c.id # NoRow
           /\ \A c, d \in configs' : c.scope = d.scope => c = d
           /\ \A scope : scope # request[w].scope => Exact(scope)' = Exact(scope)
  <1> DEFINE r == request[w]
             settings == Saved(r.scope, r.payload)
             fresh == Fresh(Exact(r.scope))
             new == [id |-> fresh, scope |-> r.scope, settings |-> settings]
             changed(c) == IF c.scope = r.scope /\ c.id = r.row
                           THEN [c EXCEPT !.settings = Assigned(@, r.read, settings)] ELSE c
  <1>1. /\ Current /\ IdsBounded /\ configs \subseteq ConfigRow
        /\ \A c \in configs : c.id # NoRow
        /\ \A c, d \in configs : c.scope = d.scope => c = d
    BY TypeOKParts DEF ApartInv, Inv, RowsNumbered, OneRowEach, Current
  <1>2. /\ pins' = pins /\ request'[w] = Idle /\ r.op = "put" /\ r.step = "commit"
    BY <1>1 DEF CommitConfig, At, Current
  <1>3. CASE r.row # NoRow
    <2>1. configs' = {changed(c) : c \in configs}
      BY <1>3 DEF CommitConfig
    <2>2. \A c \in configs : changed(c).id = c.id /\ changed(c).scope = c.scope
      BY <1>1 DEF ConfigRow
    <2>3. \A c \in configs : c.scope # r.scope => changed(c) = c
      OBVIOUS
    <2> HIDE DEF changed
    <2>4. \A c \in configs' : c.id # NoRow
      BY <1>1, <2>1, <2>2
    <2>5. \A c, d \in configs' : c.scope = d.scope => c = d
      BY <1>1, <2>1, <2>2
    <2>6. ASSUME NEW scope, scope # r.scope PROVE Exact(scope)' = Exact(scope)
      <3>1. \A c \in configs : c.scope = scope => c \in configs'
        BY <2>1, <2>3, <2>6
      <3>2. \A c \in configs' : c.scope = scope => c \in configs
        BY <2>1, <2>2, <2>3, <2>6
      <3> QED
        BY <3>1, <3>2 DEF Exact
    <2> QED
      BY <1>2, <2>4, <2>5, <2>6
  <1>4. CASE r.row = NoRow
    <2>1. Exact(r.scope) = {}
      BY <1>2, <1>4 DEF ApartInv, Settled
    <2>2. configs' = configs \cup {new}
      BY <1>4, <2>1 DEF CommitConfig, Refused
    <2>3. fresh # NoRow
      BY <1>1, FreshInTable DEF Exact, NoRow
    <2>4. new.id = fresh /\ new.scope = r.scope
      OBVIOUS
    <2>5. \A c \in configs : c.scope # r.scope
      BY <2>1 DEF Exact
    <2> HIDE DEF new, fresh
    <2>6. \A c \in configs' : c.id # NoRow
      BY <1>1, <2>2, <2>3, <2>4
    <2>7. \A c, d \in configs' : c.scope = d.scope => c = d
      BY <1>1, <2>2, <2>4, <2>5
    <2>8. \A scope : scope # r.scope => Exact(scope)' = Exact(scope)
      BY <2>2, <2>4 DEF Exact
    <2> QED
      BY <1>2, <2>6, <2>7, <2>8
  <1> QED
    BY <1>3, <1>4

\* A pinned target has one pin, and an unpinned one none.
LEMMA PinCommitted ==
    ASSUME ApartInv, NEW w \in Workers, CommitPin(w) \/ CommitUnpin(w)
    PROVE  /\ configs' = configs /\ request'[w] = Idle /\ request[w].op \in {"pin", "unpin"}
           /\ \A p \in pins' : p.id # NoRow
           /\ \A p, q \in pins' : p.target = q.target => p = q
           /\ \A target : target # request[w].target => PinsOf(target)' = PinsOf(target)
  <1> DEFINE r == request[w]
             fresh == Fresh(PinsOf(r.target))
             new == [id |-> fresh, target |-> r.target, created |-> r.at, expires |-> Until(r)]
             changed(p) == IF p.target = r.target /\ p.id = r.row
                           THEN [p EXCEPT !.created = r.at,
                                          !.expires = IF Until(r) # r.read THEN Until(r) ELSE @]
                           ELSE p
  <1>1. /\ Current /\ IdsBounded /\ pins \subseteq PinRow
        /\ \A p \in pins : p.id # NoRow
        /\ \A p, q \in pins : p.target = q.target => p = q
    BY TypeOKParts DEF ApartInv, Inv, RowsNumbered, OneRowEach, Current
  <1>2. /\ configs' = configs /\ request'[w] = Idle
        /\ r.op \in {"pin", "unpin"} /\ r.step = "commit"
    BY <1>1 DEF CommitPin, CommitUnpin, At, Current
  <1>3. CASE CommitUnpin(w)
    <2>1. pins' = {p \in pins : p.target # r.target \/ p.id # r.row}
      BY <1>3 DEF CommitUnpin
    <2> QED
      BY <1>1, <1>2, <2>1 DEF PinsOf
  <1>4. CASE CommitPin(w) /\ r.row # NoRow
    <2>1. pins' = {changed(p) : p \in pins}
      BY <1>4 DEF CommitPin
    <2>2. \A p \in pins : changed(p).id = p.id /\ changed(p).target = p.target
      BY <1>1 DEF PinRow
    <2>3. \A p \in pins : p.target # r.target => changed(p) = p
      OBVIOUS
    <2> HIDE DEF changed
    <2>4. \A p \in pins' : p.id # NoRow
      BY <1>1, <2>1, <2>2
    <2>5. \A p, q \in pins' : p.target = q.target => p = q
      BY <1>1, <2>1, <2>2
    <2>6. ASSUME NEW target, target # r.target PROVE PinsOf(target)' = PinsOf(target)
      <3>1. \A p \in pins : p.target = target => p \in pins'
        BY <2>1, <2>3, <2>6
      <3>2. \A p \in pins' : p.target = target => p \in pins
        BY <2>1, <2>2, <2>3, <2>6
      <3> QED
        BY <3>1, <3>2 DEF PinsOf
    <2> QED
      BY <1>2, <2>4, <2>5, <2>6
  <1>5. CASE CommitPin(w) /\ r.row = NoRow
    <2>1. r.op = "pin"
      BY <1>5 DEF CommitPin, At
    <2>2. PinsOf(r.target) = {}
      BY <1>2, <1>5, <2>1 DEF ApartInv, Settled
    <2>3. pins' = pins \cup {new}
      BY <1>5 DEF CommitPin
    <2>4. fresh # NoRow
      BY <1>1, FreshInTable DEF PinsOf, NoRow
    <2>5. new.id = fresh /\ new.target = r.target
      OBVIOUS
    <2>6. \A p \in pins : p.target # r.target
      BY <2>2 DEF PinsOf
    <2> HIDE DEF new, fresh
    <2>7. \A p \in pins' : p.id # NoRow
      BY <1>1, <2>3, <2>4, <2>5
    <2>8. \A p, q \in pins' : p.target = q.target => p = q
      BY <1>1, <2>3, <2>5, <2>6
    <2>9. \A target : target # r.target => PinsOf(target)' = PinsOf(target)
      BY <2>3, <2>5 DEF PinsOf
    <2> QED
      BY <1>2, <2>7, <2>8, <2>9
  <1> QED
    BY <1>3, <1>4, <1>5

\* What another request found is not touched by a commit about something else.
LEMMA OthersSettled ==
    ASSUME NEW v \in Workers, NEW w \in Workers, Settled(v), request'[v] = request[v],
           request[w].op \in {"put", "pin", "unpin"}, About(v) # About(w),
           \/ /\ pins' = pins /\ request[w].op = "put"
              /\ \A scope : scope # request[w].scope => Exact(scope)' = Exact(scope)
           \/ /\ configs' = configs /\ request[w].op \in {"pin", "unpin"}
              /\ \A target : target # request[w].target => PinsOf(target)' = PinsOf(target)
    PROVE  Settled(v)'
  <1>1. CASE request[v].op = "put"
    <2>1. Exact(request[v].scope)' = Exact(request[v].scope)
      BY <1>1 DEF About, Exact
    <2> QED
      BY <1>1, <2>1 DEF Settled, Exact
  <1>2. CASE request[v].op \in {"pin", "unpin"}
    <2>1. PinsOf(request[v].target)' = PinsOf(request[v].target)
      BY <1>2 DEF About, PinsOf
    <2> QED
      BY <1>2, <2>1 DEF Settled, PinsOf
  <1>3. CASE request[v].op \notin {"put", "pin", "unpin"}
    BY <1>3 DEF Settled
  <1> QED
    BY <1>1, <1>2, <1>3

LEMMA ApartStep ==
    ASSUME ApartInv, [Next /\ Apart']_vars
    PROVE  ApartInv'
  <1>1. Inv' /\ Current
    BY StepHolds, TypeOKParts DEF ApartInv, Inv
  <1>2. CASE UNCHANGED vars
    <2>1. configs' = configs /\ pins' = pins /\ request' = request
      BY <1>2 DEF vars
    <2>2. RowsNumbered' /\ OneRowEach'
      BY <2>1 DEF ApartInv, RowsNumbered, OneRowEach
    <2>3. Apart'
      <3>1. \A w \in Workers : Free(w)' = Free(w) /\ About(w)' = About(w)
        BY <2>1 DEF Free, About
      <3> QED
        BY <3>1 DEF ApartInv, Apart
    <2>4. \A w \in Workers : Settled(w)'
      BY <2>1 DEF ApartInv, Settled, Exact, PinsOf
    <2> QED
      BY <1>1, <2>2, <2>3, <2>4 DEF ApartInv
  <1>3. CASE Next /\ Apart'
    <2>1. ASSUME configs' = configs, pins' = pins,
                 NEW w \in Workers, Settled(w)',
                 \A v \in Workers \ {w} : request'[v] = request[v]
          PROVE  ApartInv'
      <3>1. \A v \in Workers \ {w} : Settled(v)'
        BY <2>1 DEF ApartInv, Settled, Exact, PinsOf
      <3> QED
        BY <1>1, <1>3, <2>1, <3>1 DEF ApartInv, RowsNumbered, OneRowEach
    <2>2. CASE Tick
      <3>1. configs' = configs /\ pins' = pins /\ request' = request
        BY <2>2 DEF Tick, tables
      <3>2. \A w \in Workers : Settled(w)'
        BY <3>1 DEF ApartInv, Settled, Exact, PinsOf
      <3> QED
        BY <1>1, <1>3, <3>1, <3>2 DEF ApartInv, RowsNumbered, OneRowEach
    <2>3. ASSUME NEW w \in Workers, Configure(w) \/ Feature(w) \/ Pair(w) \/ Recommend(w)
          PROVE  ApartInv'
      <3>1. \A v \in Workers \ {w} : request'[v] = request[v]
        BY <1>1, <2>3, OthersUntouched
      <3>2. CASE Between(w)
        BY <2>1, <3>1, <3>2, BetweenIsSettled
      <3>3. CASE CommitConfig(w) \/ CommitPin(w) \/ CommitUnpin(w)
        <4>1. /\ request'[w] = Idle /\ request[w].op \in {"put", "pin", "unpin"}
              /\ RowsNumbered' /\ OneRowEach'
          BY <3>3, ConfigCommitted, PinCommitted DEF ApartInv, RowsNumbered, OneRowEach
        <4>2. Settled(w)'
          BY <4>1 DEF Settled, Idle
        <4>3. ASSUME NEW v \in Workers \ {w} PROVE Settled(v)'
          <5>1. CASE request[v] = Idle
            BY <3>1, <5>1 DEF Settled, Idle
          <5>2. CASE request[v] # Idle
            <6>1. request[w] # Idle
              BY <4>1 DEF Idle
            <6>2. About(v) # About(w)
              BY <5>2, <6>1 DEF ApartInv, Apart, Free
            <6> QED
              BY <3>1, <3>3, <4>1, <6>2, ConfigCommitted, PinCommitted, OthersSettled
                 DEF ApartInv
          <5> QED
            BY <5>1, <5>2
        <4> QED
          BY <1>1, <1>3, <4>1, <4>2, <4>3 DEF ApartInv
      <3> QED
        BY <2>3, <3>2, <3>3 DEF Configure, Feature, Between
    <2> QED
      BY <1>3, <2>2, <2>3 DEF Next
  <1> QED
    BY <1>2, <1>3

\* While requests about one configuration or target do not overlap, a scope has
\* one row of settings and a target one pin, however many there are of each.
THEOREM ApartOneRow == ApartSpec => []OneRowEach
  <1>1. ApartInv => OneRowEach
    BY DEF ApartInv
  <1> QED
    BY <1>1, ApartInit, ApartStep, PTL DEF ApartSpec

LEMMA UnpinStep ==
    ASSUME ApartInv, [Next /\ Apart']_vars, NEW u \in Workers,
           request[u].op = "unpin", request'[u] = Idle, request' # request
    PROVE  \A p \in pins' : p.target # request[u].target
  <1>1. Current /\ Settled(u) /\ request[u] # request'[u]
    BY TypeOKParts DEF ApartInv, Inv, Idle
  <1>2. PICK w \in Workers : Configure(w) \/ Feature(w) \/ Pair(w) \/ Recommend(w)
    BY DEF vars, Next, Tick
  <1>3. w = u
    BY <1>1, <1>2, OthersUntouched
  <1>4. ~Free(u) /\ request[u] \in UnpinRequest
    BY <1>1, KindInHand DEF Free, Idle
  <1>5. FindPinToRemove(u) \/ CommitUnpin(u)
    BY <1>2, <1>3, <1>4 DEF Configure, UpsertRecommendationConfig, StaffCanManageEventStore,
       LoadConfig, CommitConfig, Feature, PinFeaturedTarget, FindPin, CountPins, CommitPin,
       UnpinFeaturedTarget, Pair, CreatePairingRule, DeletePairingRule, FindRule, CommitRule,
       FindRuleToRemove, CommitDelete, Recommend, RecommendDirectory, RecommendRepertoire,
       ResolveEffectiveConfig, ReadPins, CheckCandidate, Answer, Receive, At
  <1>6. CASE FindPinToRemove(u)
    <2>1. ASSUME NEW p \in pins,
                 Proceed(u, [request[u] EXCEPT !.step = "commit", !.row = p.id])
          PROVE  FALSE
      BY <1>1, <1>4, <2>1 DEF Proceed, Current, UnpinRequest, Idle
    <2>2. {q \in pins : q.target = request[u].target} = {} /\ pins' = pins
      BY <1>6, <2>1 DEF FindPinToRemove, Proceed, tables
    <2> QED
      BY <2>2
  <1>7. CASE CommitUnpin(u)
    <2>1. \A p \in PinsOf(request[u].target) : p.id = request[u].row
      BY <1>1, <1>7 DEF CommitUnpin, At, Settled
    <2> QED
      BY <1>7, <2>1 DEF CommitUnpin, PinsOf
  <1> QED
    BY <1>5, <1>6, <1>7

\* While requests about one configuration or target do not overlap, an unpin
\* leaves no pin of its target.
THEOREM ApartUnpin == ApartSpec => UnpinTakesEffect
  <1>1. ASSUME ApartInv, [Next /\ Apart']_vars, NEW w \in Workers,
               request[w].op = "unpin", request'[w] = Idle
        PROVE  \A p \in pins' : p.target # request[w].target
    <2>1. request' # request
      BY <1>1 DEF Idle
    <2> QED
      BY <1>1, <2>1, UnpinStep
  <1>2. ApartInv /\ [Next /\ Apart']_vars =>
            [\A w \in Workers : request[w].op = "unpin" /\ request'[w] = Idle =>
                \A p \in pins' : p.target # request[w].target]_vars
    BY <1>1
  <1> QED
    BY <1>2, ApartInit, ApartStep, PTL DEF ApartSpec, UnpinTakesEffect

-----------------------------------------------------------------------------
(* Settings looked up scope by scope, whatever requests overlap.           *)

\* Settings that apply: of the nearest scope that has any.
Applying(s) ==
    \/ \E c \in Exact("event_store") : s = c.settings
    \/ Exact("event_store") = {} /\ \E c \in Exact("program") : s = c.settings
    \/ /\ Exact("event_store") = {} /\ Exact("program") = {}
       /\ \E c \in Exact("organization") : s = c.settings
    \/ /\ Exact("event_store") = {} /\ Exact("program") = {} /\ Exact("organization") = {}
       /\ s = Default

Delegating ==
    \E c \in IF Exact("program") # {} THEN Exact("program") ELSE Exact("organization") :
        c.settings.allow_staff_event_store_manage

\* By staff, about to write.
Admitted(r) == r.op = "put" /\ r.role = "staff" /\ r.step \in {"load", "commit"}

\* What a request has made sure of that no change of settings disturbed: the
\* scopes it has passed hold no rows, and it goes by the settings that apply.
Undisturbed(r) ==
    /\ r.op \in {"pin", "recommend"} =>
           /\ r.step = "program" => Exact("event_store") = {}
           /\ r.step = "organization" => Exact("event_store") = {} /\ Exact("program") = {}
           /\ r.step \notin Scopes => Applying(r.applies)
    /\ r.op = "put" /\ r.role = "staff" =>
           /\ r.step = "organization" => Exact("program") = {}
           /\ r.step \in {"load", "commit"} => Delegating

Looked(w) ==
    /\ w \in calm => Undisturbed(request[w])
    /\ Admitted(request[w]) => w \in granted

LookedInv == Inv /\ \A w \in Workers : Looked(w)

LEMMA ApplyingIsRequested ==
    ASSUME NEW s, Applying(s)
    PROVE  s \in Requested("event_store")
  <1> DEFINE chain == <<"event_store", "program", "organization">>
             found == {i \in DOMAIN chain : Exact(chain[i]) # {}}
             nearest == CHOOSE i \in found : \A j \in found : i <= j
  <1>1. Chain("event_store") = chain
    BY DEF Chain
  <1>2. Requested("event_store") =
            IF found = {} THEN {Default} ELSE {c.settings : c \in Exact(chain[nearest])}
    BY <1>1 DEF Requested
  <1>3. /\ DOMAIN chain = {1, 2, 3}
        /\ chain[1] = "event_store" /\ chain[2] = "program" /\ chain[3] = "organization"
    OBVIOUS
  <1> HIDE DEF chain
  <1>4. ASSUME NEW i \in found, \A j \in found : i <= j
        PROVE  nearest = i
    <2>1. nearest \in found /\ \A j \in found : nearest <= j
      BY <1>4
    <2> QED
      BY <1>3, <1>4, <2>1
  <1> HIDE DEF nearest
  <1>5. CASE \E c \in Exact("event_store") : s = c.settings
    <2>1. nearest = 1 /\ found # {}
      BY <1>3, <1>4, <1>5
    <2> QED
      BY <1>2, <1>3, <1>5, <2>1
  <1>6. CASE Exact("event_store") = {} /\ \E c \in Exact("program") : s = c.settings
    <2>1. nearest = 2 /\ found # {}
      BY <1>3, <1>4, <1>6
    <2> QED
      BY <1>2, <1>3, <1>6, <2>1
  <1>7. CASE /\ Exact("event_store") = {} /\ Exact("program") = {}
             /\ \E c \in Exact("organization") : s = c.settings
    <2>1. nearest = 3 /\ found # {}
      BY <1>3, <1>4, <1>7
    <2> QED
      BY <1>2, <1>3, <1>7, <2>1
  <1>8. CASE /\ Exact("event_store") = {} /\ Exact("program") = {}
             /\ Exact("organization") = {} /\ s = Default
    <2>1. found = {}
      BY <1>3, <1>8
    <2> QED
      BY <1>2, <1>8, <2>1
  <1> QED
    BY <1>5, <1>6, <1>7, <1>8 DEF Applying

\* Of settings nothing changes, everything stays true.
LEMMA UndisturbedStays ==
    ASSUME NEW r, configs' = configs, Undisturbed(r)
    PROVE  Undisturbed(r)'
  BY DEF Undisturbed, Applying, Delegating, Exact

LEMMA IdleLooks ==
    ASSUME NEW w \in Workers, request'[w] = Idle
    PROVE  Looked(w)'
  BY DEF Looked, Undisturbed, Admitted, Idle

LEMMA OthersLook ==
    ASSUME Remember, NEW w \in Workers, Looked(w), request'[w] = request[w]
    PROVE  Looked(w)'
  <1>1. ASSUME w \in calm' PROVE Undisturbed(request[w])'
    <2>1. Free(w) \/ (w \in calm /\ configs' = configs)
      BY <1>1 DEF Remember
    <2>2. CASE Free(w)
      BY <2>2 DEF Free, Undisturbed, Idle
    <2>3. CASE w \in calm /\ configs' = configs
      <3>1. PICK r : r = request[w]
        OBVIOUS
      <3>2. Undisturbed(r)'
        BY <2>3, <3>1, UndisturbedStays DEF Looked
      <3> QED
        BY <3>1, <3>2
    <2> QED
      BY <2>1, <2>2, <2>3
  <1>2. Admitted(request[w]) => w \in granted'
    BY DEF Remember, Looked, Admitted, ByStaff
  <1> QED
    BY <1>1, <1>2 DEF Looked

\* A step that writes nothing, by what its request is afterwards.
LEMMA ProceedLooks ==
    ASSUME Current, Remember, NEW w \in Workers, NEW r, Proceed(w, r),
           Free(w) \/ w \in calm => Undisturbed(r),
           Admitted(r) => w \in granted \/ Granting
    PROVE  Looked(w)'
  <1>1. request'[w] = r /\ configs' = configs
    BY DEF Current, Proceed, tables
  <1>2. ASSUME w \in calm' PROVE Undisturbed(r)'
    BY <1>1, <1>2, UndisturbedStays DEF Remember
  <1>3. Granting' <=> Granting
    BY <1>1 DEF Granting, Exact
  <1>4. Admitted(r) => w \in granted'
    BY <1>1, <1>3 DEF Remember, Admitted, ByStaff
  <1> QED
    BY <1>1, <1>2, <1>4 DEF Looked

\* A request of a kind that looks no settings up.
LEMMA OtherKindLooks ==
    ASSUME Current, Remember, NEW w \in Workers, NEW r, Proceed(w, r),
           r.op \notin {"put", "pin", "recommend"}
    PROVE  Looked(w)'
  BY ProceedLooks DEF Undisturbed, Admitted

\* A request that has just come in has passed no scope.
LEMMA FirstLook ==
    ASSUME Current, Remember, NEW w \in Workers, NEW r, Receive(w, r),
           r.op = "put" /\ r.role = "staff" => r.step = "program",
           r.op \in {"pin", "recommend"} => r.step = "event_store"
    PROVE  Looked(w)'
  <1>1. Proceed(w, r)
    BY DEF Receive, Proceed
  <1>2. Undisturbed(r) /\ ~Admitted(r)
    BY DEF Undisturbed, Admitted, Scopes
  <1> QED
    BY <1>1, <1>2, ProceedLooks

\* Once it has found what applies, a request goes by that.
LEMMA AppliesKept ==
    ASSUME Current, Remember, NEW w \in Workers, Looked(w), NEW r, Proceed(w, r),
           request[w].op \in {"pin", "recommend"}, request[w].step \notin Scopes,
           r.op = request[w].op, r.applies = request[w].applies, r.step \notin Scopes
    PROVE  Looked(w)'
  <1>1. ~Free(w)
    BY DEF Free, Idle
  <1>2. w \in calm => Applying(r.applies)
    BY DEF Looked, Undisturbed
  <1> QED
    BY <1>1, <1>2, ProceedLooks DEF Undisturbed, Admitted, Scopes

LEMMA ConfigureLooks ==
    ASSUME Current, Remember, NEW w \in Workers, Looked(w), Configure(w)
    PROVE  Looked(w)'
  <1>1. CASE UpsertRecommendationConfig(w)
    <2>1. PICK role \in {"administrator", "staff"}, edit \in Edits :
              Receive(w, [op |-> "put", role |-> role, scope |-> edit.scope,
                          payload |-> edit.settings,
                          step |-> IF role = "staff" THEN "program" ELSE "load",
                          row |-> NoRow, read |-> Default])
      BY <1>1 DEF UpsertRecommendationConfig
    <2> QED
      BY <2>1, FirstLook
  <1>2. CASE StaffCanManageEventStore(w)
    <2> DEFINE q == request[w]
               load == [q EXCEPT !.step = "load"]
               next == [q EXCEPT !.step = "organization"]
    <2>1. q \in PutRequest /\ ~Free(w) /\ q.step \in {"program", "organization"}
      BY <1>2, KindInHand DEF StaffCanManageEventStore
    <2>2. /\ load.op = "put" /\ load.role = q.role /\ load.step = "load"
          /\ next.op = "put" /\ next.role = q.role /\ next.step = "organization"
      BY <2>1 DEF PutRequest
    <2> HIDE DEF load, next
    <2>3. ASSUME NEW c \in Exact(q.step), c.settings.allow_staff_event_store_manage,
                 Proceed(w, load)
          PROVE  Looked(w)'
      <3>1. Granting
        BY <2>1, <2>3 DEF Granting
      <3>2. q.role = "staff" /\ w \in calm => Delegating
        BY <2>1, <2>3 DEF Looked, Undisturbed, Delegating, PutRequest
      <3>3. Free(w) \/ w \in calm => Undisturbed(load)
        BY <2>1, <2>2, <3>2 DEF Undisturbed
      <3> QED
        BY <2>3, <3>1, <3>3, ProceedLooks
    <2>4. ASSUME Exact("program") = {}, Proceed(w, next)
          PROVE  Looked(w)'
      <3>1. Undisturbed(next) /\ ~Admitted(next)
        BY <2>2, <2>4 DEF Undisturbed, Admitted
      <3> QED
        BY <2>4, <3>1, ProceedLooks
    <2>5. Proceed(w, Idle) => Looked(w)'
      BY OtherKindLooks DEF Idle
    <2> QED
      BY <1>2, <2>3, <2>4, <2>5 DEF StaffCanManageEventStore, load, next
  <1>3. CASE LoadConfig(w)
    <2>1. request[w] \in PutRequest /\ ~Free(w) /\ request[w].step = "load"
      BY <1>3, KindInHand DEF LoadConfig, At
    <2> DEFINE found(c) == [request[w] EXCEPT !.step = "commit", !.row = c.id, !.read = c.settings]
               none == [request[w] EXCEPT !.step = "commit"]
               Going(r) == r.op = "put" /\ r.step = "commit" /\ r.role = request[w].role
    <2>2. \A c : Going(found(c))
      BY <2>1 DEF PutRequest
    <2>3. Going(none)
      BY <2>1 DEF PutRequest
    <2>4. (\E c : Proceed(w, found(c))) \/ Proceed(w, none)
      BY <1>3 DEF LoadConfig
    <2>5. PICK r : Proceed(w, r) /\ Going(r)
      <3> HIDE DEF found, none, Going
      <3> QED
        BY <2>2, <2>3, <2>4
    <2>6. Free(w) \/ w \in calm => Undisturbed(r)
      BY <2>1, <2>5 DEF Looked, Undisturbed, PutRequest
    <2>7. Admitted(r) => w \in granted
      BY <2>1, <2>5 DEF Looked, Admitted, PutRequest
    <2> QED
      BY <2>5, <2>6, <2>7, ProceedLooks
  <1>4. CASE CommitConfig(w)
    BY <1>4, IdleLooks DEF CommitConfig, Current
  <1> QED
    BY <1>1, <1>2, <1>3, <1>4 DEF Configure

LEMMA FeatureLooks ==
    ASSUME Current, Remember, NEW w \in Workers, Looked(w), Feature(w)
    PROVE  Looked(w)'
  <1>1. Proceed(w, Idle) => Looked(w)'
    BY OtherKindLooks DEF Idle
  <1>2. CASE PinFeaturedTarget(w)
    <2>1. PICK target \in Featurable, until \in Expiries :
              Receive(w, [op |-> "pin", target |-> target, until |-> until,
                          step |-> "event_store", applies |-> Default,
                          row |-> NoRow, read |-> Never, at |-> 0])
      BY <1>2 DEF PinFeaturedTarget
    <2> QED
      BY <2>1, FirstLook
  <1>3. CASE FindPin(w)
    <2>1. request[w] \in PinRequest /\ request[w].step = "find"
      BY <1>3, KindInHand DEF FindPin, At
    <2> DEFINE found(p) == [request[w] EXCEPT !.step = "count", !.row = p.id, !.read = p.expires]
               none == [request[w] EXCEPT !.step = "count"]
               Going(r) == r.op = "pin" /\ r.step = "count" /\ r.applies = request[w].applies
    <2>2. \A p : Going(found(p))
      BY <2>1 DEF PinRequest
    <2>3. Going(none)
      BY <2>1 DEF PinRequest
    <2>4. (\E p : Proceed(w, found(p))) \/ Proceed(w, none)
      BY <1>3 DEF FindPin
    <2>5. PICK r : Proceed(w, r) /\ Going(r)
      <3> HIDE DEF found, none, Going
      <3> QED
        BY <2>2, <2>3, <2>4
    <2> QED
      BY <2>1, <2>5, AppliesKept DEF PinRequest, Scopes
  <1>4. CASE CountPins(w)
    <2> DEFINE r == [request[w] EXCEPT !.step = "commit", !.at = now]
    <2>1. request[w] \in PinRequest /\ request[w].step = "count"
      BY <1>4, KindInHand DEF CountPins, At
    <2>2. r.op = "pin" /\ r.step = "commit" /\ r.applies = request[w].applies
      BY <2>1 DEF PinRequest
    <2> HIDE DEF r
    <2>3. Proceed(w, r) => Looked(w)'
      BY <2>1, <2>2, AppliesKept DEF PinRequest, Scopes
    <2> QED
      BY <1>1, <1>4, <2>3 DEF CountPins, r
  <1>5. CASE CommitPin(w)
    BY <1>5, IdleLooks DEF CommitPin, Current
  <1>6. CASE UnpinFeaturedTarget(w)
    <2>1. PICK target \in Featurable :
              Receive(w, [op |-> "unpin", target |-> target, step |-> "find", row |-> NoRow])
      BY <1>6 DEF UnpinFeaturedTarget
    <2> QED
      BY <2>1, FirstLook
  <1>7. CASE FindPinToRemove(w)
    <2>1. request[w] \in UnpinRequest
      BY <1>7, KindInHand DEF FindPinToRemove, At
    <2>2. ASSUME NEW p, Proceed(w, [request[w] EXCEPT !.step = "commit", !.row = p.id])
          PROVE  Looked(w)'
      <3>1. [request[w] EXCEPT !.step = "commit", !.row = p.id].op = "unpin"
        BY <2>1 DEF UnpinRequest
      <3> QED
        BY <2>2, <3>1, OtherKindLooks
    <2> QED
      BY <1>1, <1>7, <2>2 DEF FindPinToRemove
  <1>8. CASE CommitUnpin(w)
    BY <1>8, IdleLooks DEF CommitUnpin, Current
  <1> QED
    BY <1>2, <1>3, <1>4, <1>5, <1>6, <1>7, <1>8 DEF Feature

LEMMA PairLooks ==
    ASSUME Current, Remember, NEW w \in Workers, Pair(w)
    PROVE  Looked(w)'
  <1>1. Proceed(w, Idle) => Looked(w)'
    BY OtherKindLooks DEF Idle
  <1>2. CASE CreatePairingRule(w)
    <2>1. PICK ruling \in Rulings :
              Receive(w, [op |-> "rule", ruling |-> ruling, step |-> "find", row |-> NoRow])
      BY <1>2 DEF CreatePairingRule
    <2> QED
      BY <2>1, FirstLook
  <1>3. CASE DeletePairingRule(w)
    <2>1. PICK r \in rules :
              Receive(w, [op |-> "delete", ruling |-> [pair |-> r.pair, effect |-> r.effect],
                          step |-> "find", row |-> r.id])
      BY <1>3 DEF DeletePairingRule
    <2> QED
      BY <2>1, FirstLook
  <1>4. CASE FindRule(w) \/ FindRuleToRemove(w)
    <2> DEFINE r == [request[w] EXCEPT !.step = "commit"]
    <2>1. request[w] \in RuleRequest
      BY <1>4, KindInHand DEF FindRule, FindRuleToRemove, At
    <2>2. r.op \in {"rule", "delete"}
      BY <2>1 DEF RuleRequest
    <2> HIDE DEF r
    <2>3. Proceed(w, r) => Looked(w)'
      BY <2>2, OtherKindLooks
    <2> QED
      BY <1>1, <1>4, <2>3 DEF FindRule, FindRuleToRemove, r
  <1>5. CASE CommitRule(w) \/ CommitDelete(w)
    BY <1>5, IdleLooks DEF CommitRule, CommitDelete, Current
  <1> QED
    BY <1>2, <1>3, <1>4, <1>5 DEF Pair

LEMMA RecommendLooks ==
    ASSUME Current, Remember, NEW w \in Workers, Looked(w), Recommend(w)
    PROVE  Looked(w)'
  <1>1. Proceed(w, Idle) => Looked(w)'
    BY OtherKindLooks DEF Idle
  <1>2. CASE RecommendDirectory(w) \/ RecommendRepertoire(w)
    <2>1. PICK other, todo :
              Receive(w, [op |-> "recommend", other |-> other, step |-> "event_store",
                          row |-> NoRow, applies |-> Default, todo |-> todo,
                          shown |-> {}, featured |-> {}])
      BY <1>2 DEF RecommendDirectory, RecommendRepertoire
    <2> QED
      BY <2>1, FirstLook
  <1>3. CASE ResolveEffectiveConfig(w)
    <2> DEFINE q == request[w]
               widen == [q EXCEPT !.step = Wider(q.step)]
               pin(s) == [q EXCEPT !.applies = s, !.step = "find"]
               rec(s) == [q EXCEPT !.applies = s, !.step = "pins"]
    <2>1. /\ q \in PinRequest \cup RecommendRequest /\ ~Free(w) /\ q.step \in Scopes
          /\ q.op \in {"pin", "recommend"}
      BY <1>3, KindInHand DEF ResolveEffectiveConfig
    <2>2. w \in calm =>
              /\ q.step = "program" => Exact("event_store") = {}
              /\ q.step = "organization" => Exact("event_store") = {} /\ Exact("program") = {}
      BY <2>1 DEF Looked, Undisturbed
    <2>3. widen.op = q.op /\ widen.step = Wider(q.step)
      BY <2>1 DEF PinRequest, RecommendRequest
    <2>4. \A s : pin(s).op = q.op /\ pin(s).step = "find" /\ pin(s).applies = s
      BY <2>1 DEF PinRequest, RecommendRequest
    <2>5. \A s : rec(s).op = q.op /\ rec(s).step = "pins" /\ rec(s).applies = s
      BY <2>1 DEF PinRequest, RecommendRequest
    <2>6. ASSUME Exact(q.step) = {}, q.step # "organization", Proceed(w, widen)
          PROVE  Looked(w)'
      <3>1. w \in calm => Undisturbed(widen)
        BY <2>1, <2>2, <2>3, <2>6 DEF Undisturbed, Wider, Scopes
      <3>2. ~Admitted(widen)
        BY <2>1, <2>3 DEF Admitted
      <3> QED
        BY <2>1, <2>6, <3>1, <3>2, ProceedLooks
    <2>7. ASSUME NEW s, w \in calm => Applying(s), NEW r, r.op = q.op,
                 r.step \in {"find", "pins"}, r.applies = s, Proceed(w, r)
          PROVE  Looked(w)'
      <3>1. w \in calm => Undisturbed(r)
        BY <2>1, <2>7 DEF Undisturbed
      <3>2. ~Admitted(r)
        BY <2>1, <2>7 DEF Admitted
      <3> QED
        BY <2>1, <2>7, <3>1, <3>2, ProceedLooks
    <2> HIDE DEF widen, pin, rec
    <2>8. ASSUME NEW s, w \in calm => Applying(s),
                 Proceed(w, IF q.op = "recommend" THEN rec(s)
                            ELSE IF s.pins_enabled THEN pin(s) ELSE Idle)
          PROVE  Looked(w)'
      BY <1>1, <2>4, <2>5, <2>7, <2>8
    <2>9. ASSUME NEW c \in Exact(q.step) PROVE w \in calm => Applying(c.settings)
      BY <2>1, <2>2, <2>9 DEF Applying, Scopes
    <2>10. Exact(q.step) = {} /\ q.step = "organization" => (w \in calm => Applying(Default))
      BY <2>2 DEF Applying
    <2>11. CASE \E c \in Exact(q.step) :
                    Proceed(w, IF q.op = "recommend" THEN rec(c.settings)
                               ELSE IF c.settings.pins_enabled THEN pin(c.settings) ELSE Idle)
      BY <2>8, <2>9, <2>11
    <2>12. CASE /\ Exact(q.step) = {} /\ q.step = "organization"
                /\ Proceed(w, IF q.op = "recommend" THEN rec(Default)
                              ELSE IF Default.pins_enabled THEN pin(Default) ELSE Idle)
      BY <2>8, <2>10, <2>12
    <2>13. CASE Exact(q.step) = {} /\ q.step # "organization" /\ Proceed(w, widen)
      BY <2>6, <2>13
    <2> QED
      BY <1>3, <2>11, <2>12, <2>13 DEF ResolveEffectiveConfig, widen, pin, rec
  <1>4. CASE ReadPins(w)
    <2>1. /\ request[w] \in RecommendRequest /\ request[w].op = "recommend"
          /\ request[w].step = "pins"
      BY <1>4, KindInHand DEF ReadPins, At
    <2>2. PICK f : Proceed(w, [request[w] EXCEPT !.step = "check", !.featured = f])
      BY <1>4 DEF ReadPins
    <2> DEFINE r == [request[w] EXCEPT !.step = "check", !.featured = f]
    <2>3. r.op = "recommend" /\ r.step = "check" /\ r.applies = request[w].applies
      BY <2>1 DEF RecommendRequest
    <2> HIDE DEF r
    <2>4. Proceed(w, r)
      BY <2>2 DEF r
    <2> QED
      BY <2>1, <2>3, <2>4, AppliesKept DEF Scopes
  <1>5. CASE CheckCandidate(w)
    <2>1. /\ request[w] \in RecommendRequest /\ request[w].op = "recommend"
          /\ request[w].step = "check"
      BY <1>5, KindInHand DEF CheckCandidate, At
    <2>2. PICK todo, shown :
              Proceed(w, [request[w] EXCEPT !.todo = todo, !.shown = shown])
      BY <1>5 DEF CheckCandidate
    <2> DEFINE r == [request[w] EXCEPT !.todo = todo, !.shown = shown]
    <2>3. r.op = "recommend" /\ r.step = "check" /\ r.applies = request[w].applies
      BY <2>1 DEF RecommendRequest
    <2> HIDE DEF r
    <2>4. Proceed(w, r)
      BY <2>2 DEF r
    <2> QED
      BY <2>1, <2>3, <2>4, AppliesKept DEF Scopes
  <1>6. CASE Answer(w)
    BY <1>1, <1>6 DEF Answer
  <1> QED
    BY <1>2, <1>3, <1>4, <1>5, <1>6 DEF Recommend

LEMMA LookedInit == Init => LookedInv
  <1>1. Init => \A w \in Workers : Looked(w)
    BY DEF Init, Looked, Undisturbed, Admitted, Idle
  <1> QED
    BY <1>1, InitHolds DEF LookedInv

LEMMA LookedStep ==
    ASSUME LookedInv, [Next]_vars
    PROVE  LookedInv'
  <1>1. Inv' /\ Current
    BY StepHolds, TypeOKParts DEF LookedInv, Inv
  <1>2. CASE UNCHANGED vars
    <2>1. ASSUME NEW w \in Workers PROVE Looked(w)'
      <3>1. request' = request /\ configs' = configs /\ calm' = calm /\ granted' = granted
        BY <1>2 DEF vars
      <3>2. PICK r : r = request[w]
        OBVIOUS
      <3>3. w \in calm => Undisturbed(r)'
        BY <3>1, <3>2, UndisturbedStays DEF LookedInv, Looked
      <3> QED
        BY <3>1, <3>2, <3>3 DEF LookedInv, Looked
    <2> QED
      BY <1>1, <2>1 DEF LookedInv
  <1>3. CASE Next
    <2>1. Remember
      BY <1>3 DEF Next
    <2>2. CASE Tick
      <3>1. request' = request
        BY <2>2 DEF Tick
      <3> QED
        BY <1>1, <2>1, <3>1, OthersLook DEF LookedInv
    <2>3. ASSUME NEW w \in Workers, Configure(w) \/ Feature(w) \/ Pair(w) \/ Recommend(w)
          PROVE  LookedInv'
      <3>1. Looked(w)'
        BY <1>1, <2>1, <2>3, ConfigureLooks, FeatureLooks, PairLooks, RecommendLooks
           DEF LookedInv
      <3>2. ASSUME NEW v \in Workers \ {w} PROVE Looked(v)'
        BY <1>1, <2>1, <2>3, <3>2, OthersUntouched, OthersLook DEF LookedInv
      <3> QED
        BY <1>1, <3>1, <3>2 DEF LookedInv
    <2> QED
      BY <1>3, <2>2, <2>3 DEF Next
  <1> QED
    BY <1>2, <1>3

\* Whatever requests overlap, a pin or a recommendation that no change of settings
\* disturbed goes by the settings that the page of the event and store shows
\* (resolve_effective_config, resolve_config_for_requested_scope).
THEOREM SettingsAgree == Spec => []PageShowsWhatApplies
  <1>1. LookedInv => PageShowsWhatApplies
    <2> SUFFICES ASSUME LookedInv, NEW w \in calm, request[w].op \in {"pin", "recommend"},
                        request[w].step \notin Scopes
                 PROVE  request[w].applies \in Requested("event_store")
      BY DEF PageShowsWhatApplies
    <2>1. w \in Workers
      BY DEF LookedInv, Inv, TypeOK
    <2>2. Applying(request[w].applies)
      BY <2>1 DEF LookedInv, Looked, Undisturbed
    <2> QED
      BY <2>2, ApplyingIsRequested
  <1> QED
    BY <1>1, LookedInit, LookedStep, PTL DEF Spec

\* Whatever requests overlap, staff writes the settings of an event and store only
\* after it has seen a row that delegates; and if no settings changed meanwhile,
\* the nearest settings above delegate as it writes (staff_can_manage_event_store).
THEOREM StaffDelegated == Spec => StaffWritesDelegated
  <1> DEFINE Goal(w) ==
          /\ w \in granted
          /\ w \in calm => \E c \in IF Exact("program") # {} THEN Exact("program")
                                    ELSE Exact("organization") :
                               c.settings.allow_staff_event_store_manage
  <1>1. ASSUME LookedInv, [Next]_vars, NEW w \in Workers,
               ByStaff(w), request'[w] = Idle, configs' # configs
        PROVE  Goal(w)
    <2>1. Current /\ Looked(w)
      BY <1>1, TypeOKParts DEF LookedInv, Inv
    <2>2. PICK v \in Workers : Configure(v) \/ Feature(v) \/ Pair(v) \/ Recommend(v)
      BY <1>1 DEF vars, Next, Tick, tables
    <2>3. request'[w] # request[w]
      BY <1>1 DEF ByStaff, Idle
    <2>4. v = w
      BY <2>1, <2>2, <2>3, OthersUntouched
    <2>5. CommitConfig(w)
      <3>1. ~Feature(w) \/ configs' = configs
        BY DEF Feature, PinFeaturedTarget, FindPin, CountPins, CommitPin, UnpinFeaturedTarget,
           FindPinToRemove, CommitUnpin, Receive, Proceed, tables
      <3>2. ~Pair(w) \/ configs' = configs
        BY DEF Pair, CreatePairingRule, DeletePairingRule, FindRule, CommitRule,
           FindRuleToRemove, CommitDelete, Receive, Proceed, tables
      <3>3. ~Recommend(w) \/ configs' = configs
        BY DEF Recommend, RecommendDirectory, RecommendRepertoire, ResolveEffectiveConfig,
           ReadPins, CheckCandidate, Answer, Receive, Proceed, tables
      <3>4. ~(UpsertRecommendationConfig(w) \/ StaffCanManageEventStore(w) \/ LoadConfig(w))
            \/ configs' = configs
        BY DEF UpsertRecommendationConfig, StaffCanManageEventStore, LoadConfig, Receive,
           Proceed, tables
      <3> QED
        BY <1>1, <2>2, <2>4, <3>1, <3>2, <3>3, <3>4 DEF Configure
    <2>6. Admitted(request[w])
      BY <1>1, <2>5 DEF CommitConfig, At, ByStaff, Admitted
    <2> QED
      BY <2>1, <2>6 DEF Looked, Undisturbed, Admitted, Delegating
  <1>2. LookedInv /\ [Next]_vars =>
            [\A w \in Workers : ByStaff(w) /\ request'[w] = Idle /\ configs' # configs =>
                 Goal(w)]_vars
    BY <1>1
  <1> QED
    BY <1>2, LookedInit, LookedStep, PTL DEF Spec, StaffWritesDelegated
=============================================================================
