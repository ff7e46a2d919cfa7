----------------------------- MODULE ReplayGuard -----------------------------
(***************************************************************************)
(* verify_replay_headers of api/app/api/deps.py over the table             *)
(* replay_nonces: what every request other than a GET passes before its    *)
(* handler.                                                                *)
(*                                                                         *)
(* A client stamps a request with a nonce of its own and with the time of  *)
(* its own clock, which may be off.  The network may deliver the request   *)
(* any number of times, at any time and in any order.  The server accepts  *)
(* a stamp at most ReplayWindow away from its clock, deletes the nonces    *)
(* received more than ReplayWindow ago and inserts this one; the unique    *)
(* constraint on the nonce refuses a second insertion.  The clock is read  *)
(* first and the transaction follows, so a handler that is held up between *)
(* them works with an old time.  DELETE, INSERT and COMMIT are one step: a *)
(* concurrent INSERT of the same nonce waits for the transaction.          *)
(*                                                                         *)
(* Left out: the method, path and user kept beside the nonce, which no     *)
(* code reads, and requests without the headers, which are refused.        *)
(***************************************************************************)
EXTENDS Integers

CONSTANTS
    Nonces,         \* the nonces clients draw; a client draws a fresh one
    Receivers,      \* the threads that run verify_replay_headers
    ReplayWindow,   \* timedelta(minutes=5)
    Skew,           \* bound: how far a client's clock is off
    MaxNow          \* bound: how long the server runs

ASSUME ReplayAssumption ==
    /\ ReplayWindow \in Nat \ {0}
    /\ Skew \in Nat
    /\ MaxNow \in Nat
    /\ Nonces # {}

VARIABLES
    now,        \* the server's clock
    stamped,    \* X-Request-Timestamp of each request sent, or Unsent
    stored,     \* created_at of the row of each nonce, or NotStored
    receiver,   \* what each thread is doing
    accepted    \* history: the created_at of the last acceptance, or Never

replayVars == <<now, stamped, stored, receiver, accepted>>

-----------------------------------------------------------------------------
Times == 0 .. MaxNow

Stamps == (0 - Skew) .. (MaxNow + Skew)

Unsent == MaxNow + Skew + 1
NotStored == 0 - 1
NotAccepted == 0 - 1

\* A thread that holds a delivered request has read the clock at "read".
Receiver == [busy : BOOLEAN, nonce : Nonces, read : Times]

Waiting == [busy |-> FALSE, nonce |-> CHOOSE n \in Nonces : TRUE, read |-> 0]

Distance(t, u) == IF t >= u THEN t - u ELSE u - t

\* The DELETE of verify_replay_headers, run by a thread that read `read`.
ForgottenTooSoon(nonce, read) == stored[nonce] < read

\* The rows it leaves.
Forgotten(nonce, read) == stored[nonce] < read - ReplayWindow

-----------------------------------------------------------------------------
ReplayInit ==
    /\ now = 0
    /\ stamped = [n \in Nonces |-> Unsent]
    /\ stored = [n \in Nonces |-> NotStored]
    /\ receiver = [h \in Receivers |-> Waiting]
    /\ accepted = [n \in Nonces |-> NotAccepted]

\* A client sends a request under a fresh nonce.
Send(nonce, stamp) ==
    /\ stamped[nonce] = Unsent
    /\ Distance(stamp, now) <= Skew
    /\ stamped' = [stamped EXCEPT ![nonce] = stamp]
    /\ UNCHANGED <<now, stored, receiver, accepted>>

\* A request, or one more copy of it, arrives with a stamp near the clock.
Deliver(h, nonce) ==
    /\ ~ receiver[h].busy
    /\ stamped[nonce] # Unsent
    /\ Distance(now, stamped[nonce]) <= ReplayWindow
    /\ receiver' = [receiver EXCEPT ![h] =
                       [busy |-> TRUE, nonce |-> nonce, read |-> now]]
    /\ UNCHANGED <<now, stamped, stored, accepted>>

\* The table without what the transaction deletes.
Remaining(read) == [n \in Nonces |-> IF Forgotten(n, read) THEN NotStored
                                     ELSE stored[n]]

\* The nonce is not among the remaining rows: inserted and committed.
StoreNonce(h) ==
    LET request == receiver[h] IN
    /\ request.busy
    /\ Remaining(request.read)[request.nonce] = NotStored
    /\ stored' = [Remaining(request.read) EXCEPT ![request.nonce] = request.read]
    /\ accepted' = [accepted EXCEPT ![request.nonce] = request.read]
    /\ receiver' = [receiver EXCEPT ![h] = Waiting]
    /\ UNCHANGED <<now, stamped>>

\* REPLAY_REJECTED: the rollback brings back what the DELETE took.  A failure
\* of the server before the commit leaves the same.
RejectNonce(h) ==
    /\ receiver[h].busy
    /\ receiver' = [receiver EXCEPT ![h] = Waiting]
    /\ UNCHANGED <<now, stamped, stored, accepted>>

TickReplay ==
    /\ now < MaxNow
    /\ now' = now + 1
    /\ UNCHANGED <<stamped, stored, receiver, accepted>>

ReplayNext ==
    \/ \E nonce \in Nonces, stamp \in Stamps : Send(nonce, stamp)
    \/ \E h \in Receivers, nonce \in Nonces : Deliver(h, nonce)
    \/ \E h \in Receivers : StoreNonce(h)
    \/ \E h \in Receivers : RejectNonce(h)
    \/ TickReplay

ReplaySpec == ReplayInit /\ [][ReplayNext]_replayVars

-----------------------------------------------------------------------------
\* The clock, the nonces and the threads have their types.
ReplayTypeOK ==
    /\ now \in Times
    /\ stamped \in [Nonces -> Stamps \cup {Unsent}]
    /\ stored \in [Nonces -> Times \cup {NotStored}]
    /\ receiver \in [Receivers -> Receiver]
    /\ accepted \in [Nonces -> Times \cup {NotAccepted}]

\* A request is accepted twice only when more than ReplayWindow has passed
\* since it was first received, and then only if its stamp was ahead of the
\* server's clock at that first acceptance, or if the second copy was held
\* up between the reading of the clock and the transaction while its nonce
\* was forgotten (verify_replay_headers reads the clock once, and stores
\* what it read rather than the stamp).
NonceRemembered ==
    [][\A nonce \in Nonces :
          /\ accepted[nonce] # NotAccepted
          /\ stored'[nonce] \notin {stored[nonce], NotStored}
          => /\ now > accepted[nonce] + ReplayWindow
             /\ \/ stamped[nonce] > accepted[nonce]
                \/ stored'[nonce] < now]_replayVars
=============================================================================
