----------------------------- MODULE MCRequests -----------------------------
(***************************************************************************)
(* Instances of what a request passes on the server, for TLC: the rate     *)
(* limit, the replay guard, the sign-in, the access checks, and, behind    *)
(* them, the handlers that renumber the kitchen queue.  They use different *)
(* tables and none reads another's, so the instance picks one part at the  *)
(* start and runs it while the others stay as they are.  For the same      *)
(* reason freezing and policy making are two parts.                        *)
(***************************************************************************)
EXTENDS RateLimit, ReplayGuard, SignIn, Access, KitchenQueue, TLC

CONSTANTS adm, stf, k1, k2

VARIABLE part   \* the one that runs

MCRole == (k1 :> (adm :> "administrator" @@ stf :> "staff"))
          @@ (k2 :> (stf :> "student"))

MCGroup == [u \in {adm, stf} |-> "operations"]

\* Everyone may look at the dashboard; staff may not, which comes first.
MCRuleChoices == {
    [surface |-> "dashboard", action |-> "view", effect |-> "allow",
     priority |-> 2, role |-> Unset, context |-> Unset, subject |-> Unset],
    [surface |-> "dashboard", action |-> "view", effect |-> "deny",
     priority |-> 1, role |-> "staff", context |-> Unset, subject |-> Unset] }

\* The order that came first is wanted last.
MCSlotOf == <<2, 1>>

MCTypeOf == <<"pickup", "delivery">>

\* The same threads, and the same names of rows, in all components.
Symmetry == Permutations(Threads) \cup Permutations(SettingIds)
            \cup Permutations(RuleIds)

Rate   == part = "rate"
          /\ UNCHANGED <<part, replayVars, signVars, accessVars, kitchenVars>>
Replay == part = "replay"
          /\ UNCHANGED <<part, rateVars, signVars, accessVars, kitchenVars>>
Sign   == part = "sign"
          /\ UNCHANGED <<part, rateVars, replayVars, accessVars, kitchenVars>>
Check  == part \in {"freeze", "policy"}
          /\ UNCHANGED <<part, rateVars, replayVars, signVars, kitchenVars>>
Kitchen == part = "kitchen"
           /\ UNCHANGED <<part, rateVars, replayVars, signVars, accessVars>>

OpsOf(p) == IF p = "freeze" THEN {"work", "switch", "freeze", "unfreeze"}
            ELSE {"work", "switch", "setSurface", "createRule", "deleteRule"}

Init ==
    /\ part \in {"rate", "replay", "sign", "freeze", "policy", "kitchen"}
    /\ RateInit /\ ReplayInit /\ SignInit /\ AccessInit /\ KitchenInit

Next ==
    \/ \E c \in Callers, device \in Devices,
          account_ \in Accounts \cup {NoAccount} :
          Rate /\ Arrive(c, device, account_)
    \/ \E c \in Callers : Rate /\ SelectBucket(c)
    \/ \E c \in Callers : Rate /\ InsertBucket(c)
    \/ \E c \in Callers : Rate /\ UpdateBucket(c)
    \/ \E c \in Callers : Rate /\ AbortCharge(c)
    \/ Rate /\ NextWindow
    \/ \E nonce \in Nonces, stamp \in Stamps : Replay /\ Send(nonce, stamp)
    \/ \E h \in Receivers, nonce \in Nonces : Replay /\ Deliver(h, nonce)
    \/ \E h \in Receivers : Replay /\ StoreNonce(h)
    \/ \E h \in Receivers : Replay /\ RejectNonce(h)
    \/ Replay /\ TickReplay
    \/ \E h \in Attempts : Sign /\ BeginLogin(h)
    \/ \E h \in Attempts : Sign /\ BeginSetup(h)
    \/ \E h \in Attempts : Sign /\ BeginEnable(h)
    \/ \E h \in Attempts : Sign /\ RefuseLogin(h)
    \/ \E h \in Attempts : Sign /\ WrongPassword(h)
    \/ \E h \in Attempts : Sign /\ LoginSucceeds(h)
    \/ \E h \in Attempts, secret \in Secrets :
          Sign /\ Fresh(secret) /\ SetupTotp(h, secret)
    \/ \E h \in Attempts : Sign /\ EnableTotp(h)
    \/ \E h \in Attempts : Sign /\ AbandonAttempt(h)
    \/ Sign /\ TickSign
    \/ \E user \in Users : Check /\ OpenSession(user)
    \/ \E user \in Users : Check /\ CloseSession(user)
    \/ \E h \in Threads, user \in Users, op \in OpsOf(part) :
          Check /\ BeginRequest(h, user, op)
    \/ \E h \in Threads : Check /\ Evaluate(h)
    \/ \E h \in Threads : Check /\ Refuse(h)
    \/ \E h \in Threads : Check /\ CommitWork(h)
    \/ \E h \in Threads : Check /\ CommitSwitch(h)
    \/ \E h \in Threads : Check /\ CommitFreeze(h)
    \/ \E h \in Threads : Check /\ CommitUnfreeze(h)
    \/ \E h \in Threads, enabled \in BOOLEAN : Check /\ CommitSetSurface(h, enabled)
    \/ \E h \in Threads, rule \in RuleChoices : Check /\ CommitCreateRule(h, rule)
    \/ \E h \in Threads, id \in RuleIds : Check /\ CommitDeleteRule(h, id)
    \/ \E h \in Cooks, o \in Orders,
          target \in UNION {Targets(TypeOf[p], orders[p].status) : p \in Orders} :
          Kitchen /\ LoadOrder(h, o, target)
    \/ \E h \in Cooks : Kitchen /\ FlushStatus(h)
    \/ \E h \in Cooks : Kitchen /\ Estimate(h)
    \/ \E h \in Cooks : Kitchen /\ UpdateEta(h)
    \/ \E h \in Cooks : Kitchen /\ CommitHandler(h)
    \/ \E h \in Cooks : Kitchen /\ AbortHandler(h)

vars == <<part, rateVars, replayVars, signVars, accessVars, kitchenVars>>

Spec == Init /\ [][Next]_vars

\* The tables, the clocks and the requests of the five components have their
\* types throughout, and no order is locked by two handlers.
TypesOK ==
    RateTypeOK /\ ReplayTypeOK /\ SignTypeOK /\ AccessTypeOK /\ KitchenTypeOK
=============================================================================
