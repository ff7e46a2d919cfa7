------------------------------- MODULE SignIn -------------------------------
(***************************************************************************)
(* The users row of one account under api/app/api/routes/auth.py: login    *)
(* with its lockout, and the set-up of the second factor (TOTP).           *)
(*                                                                         *)
(* Each request SELECTs the row, decides on that copy and the time it      *)
(* read, and at its end UPDATEs the columns whose value differs from the   *)
(* copy: there is no row lock, and the isolation level is READ COMMITTED.  *)
(* A request is a Begin step and the step that answers it.                 *)
(*                                                                         *)
(* A code is modelled by the secret it was computed from: it is valid for  *)
(* that secret and no other.  Left out: inactive users, who are refused as *)
(* unknown ones are, the audit rows of each attempt, the cookies, and      *)
(* POST /mfa/totp/verify, which changes nothing.                           *)
(***************************************************************************)
EXTENDS Integers, FiniteSets

CONSTANTS
    Attempts,       \* the threads that run requests of this account
    Secrets,        \* what pyotp.random_base32 returns, never twice the same
    NoSecret,       \* NULL in mfa_totp_secret
    MaxFailures,    \* 5 failed passwords lock the account ...
    LockLength,     \* ... for 15 minutes
    MaxTime         \* bound: how long the server runs

ASSUME LockAssumption ==
    /\ MaxFailures \in Nat \ {0}
    /\ LockLength \in Nat \ {0}
    /\ MaxTime \in Nat \ {0}

ASSUME AttemptsAssumption == IsFiniteSet(Attempts)

ASSUME SecretsAssumption == NoSecret \notin Secrets

VARIABLES
    time,       \* the server's clock
    account,    \* the row
    attempt,    \* what each thread is doing
    guesses,    \* history: wrong passwords since the last lock or success
    proved,     \* history: secrets for which enable received a valid code
    crossed     \* history: the set-up of the current secret and a confirmation overlapped

signVars == <<time, account, attempt, guesses, proved, crossed>>

-----------------------------------------------------------------------------
Clock == 1 .. MaxTime

NotLocked == 0

\* failed_login_attempts, locked_until, mfa_totp_secret, mfa_totp_enabled.
Account == [failed : 0 .. MaxFailures - 1,
            lockedUntil : {NotLocked} \cup (1 .. MaxTime + LockLength),
            secret : Secrets \cup {NoSecret}, enabled : BOOLEAN]

\* right tells whether the password is right, code the secret a TOTP code
\* was computed from.
Attempt == [op : {"none", "login", "setup", "enable"}, loaded : Account,
            read : Clock, right : BOOLEAN, code : Secrets \cup {NoSecret}]

\* An UPDATE leaves a column out when its value is what was loaded.
Written(loaded, value, current) == IF value = loaded THEN current ELSE value

Blank == [failed |-> 0, lockedUntil |-> NotLocked,
          secret |-> NoSecret, enabled |-> FALSE]

NoAttempt == [op |-> "none", loaded |-> Blank, read |-> 1,
              right |-> FALSE, code |-> NoSecret]

\* Faulty variant: the lock is not looked at.
LockedNever(a) == FALSE

\* locked_until and locked_until > now.
Locked(a) == a.loaded.lockedUntil > a.read

\* _validate_totp on the copy.
CodeAccepted(a) == a.loaded.enabled =>
    a.loaded.secret # NoSecret /\ a.code = a.loaded.secret

\* Faulty variant: one more wrong password before the lock.
LocksLate(failed) == failed > MaxFailures

\* The wrong password that locks the account.
Locks(failed) == failed >= MaxFailures

\* f[1] + ... + f[m], for every m.
RunningSum(f) ==
    LET sum[m \in Nat] == IF m = 0 THEN 0 ELSE sum[m - 1] + f[m] IN sum

\* Passwords checked by in-flight copies may be counted once for several:
\* GuessBound[h][m] is the most wrong ones that h threads can have checked
\* before a counter that locks at m locks.
GuessBound[h \in Nat] ==
    IF h = 0 THEN [m \in Nat |-> 1] ELSE RunningSum(GuessBound[h - 1])

-----------------------------------------------------------------------------
SignInit ==
    /\ time = 1
    /\ account = Blank
    /\ attempt = [h \in Attempts |-> NoAttempt]
    /\ guesses = 0
    /\ proved = {}
    /\ crossed = FALSE

\* The SELECT of the row, and the reading of the clock.
Begin(h, op, right, code) ==
    /\ attempt[h].op = "none"
    /\ attempt' = [attempt EXCEPT ![h] =
          [op |-> op, loaded |-> account, read |-> time,
           right |-> right, code |-> code]]
    /\ UNCHANGED <<time, account, guesses, proved, crossed>>

\* A missing, wrong or outdated code is NoSecret.
BeginLogin(h) ==
    \E right \in BOOLEAN, code \in {NoSecret, account.secret} :
        Begin(h, "login", right, code)

BeginSetup(h) == Begin(h, "setup", TRUE, NoSecret)

BeginEnable(h) ==
    \E code \in {NoSecret, account.secret} : Begin(h, "enable", TRUE, code)

Answered(h) == attempt' = [attempt EXCEPT ![h] = NoAttempt]

Login(h) == attempt[h].op = "login"

\* ACCOUNT_LOCKED, MFA_REQUIRED, MFA_INVALID: only the audit row is written.
RefuseLogin(h) ==
    LET a == attempt[h] IN
    /\ Login(h)
    /\ Locked(a) \/ (a.right /\ ~ CodeAccepted(a))
    /\ Answered(h)
    /\ UNCHANGED <<time, account, guesses, proved, crossed>>

\* A wrong password: counted, and the last one allowed locks the account.
WrongPassword(h) ==
    LET a == attempt[h]
        failed == a.loaded.failed + 1
        locks == Locks(failed)
    IN
    /\ Login(h) /\ ~ Locked(a) /\ ~ a.right
    /\ account' = [account EXCEPT
          !.failed = Written(a.loaded.failed, IF locks THEN 0 ELSE failed, @),
          !.lockedUntil = IF locks
             THEN Written(a.loaded.lockedUntil, a.read + LockLength, @) ELSE @]
    /\ guesses' = IF locks THEN 0 ELSE guesses + 1
    /\ Answered(h)
    /\ UNCHANGED <<time, proved, crossed>>

\* The counter and the lock are cleared, where the copy had them.
LoginSucceeds(h) ==
    LET a == attempt[h] IN
    /\ Login(h) /\ ~ Locked(a) /\ a.right /\ CodeAccepted(a)
    /\ account' = [account EXCEPT
          !.failed = Written(a.loaded.failed, 0, @),
          !.lockedUntil = Written(a.loaded.lockedUntil, NotLocked, @)]
    /\ guesses' = 0
    /\ Answered(h)
    /\ UNCHANGED <<time, proved, crossed>>

\* Faulty variant: the factor stays enabled under the new secret.
EnabledKept(a) == account.enabled

\* mfa_totp_enabled = False goes with the new secret.
EnabledAfterSetup(a) == Written(a.loaded.enabled, FALSE, account.enabled)

\* A new secret, to be confirmed before it is asked for.
SetupTotp(h, secret) ==
    /\ attempt[h].op = "setup"
    /\ account' = [account EXCEPT !.secret = secret,
                                  !.enabled = EnabledAfterSetup(attempt[h])]
    /\ crossed' = (attempt[h].loaded.enabled # account.enabled)
    /\ Answered(h)
    /\ UNCHANGED <<time, guesses, proved>>

\* A code that is valid for the copy's secret enables the factor.
EnableTotp(h) ==
    LET a == attempt[h] IN
    /\ a.op = "enable"
    /\ a.loaded.secret # NoSecret /\ a.code = a.loaded.secret
    /\ account' = [account EXCEPT
          !.enabled = Written(a.loaded.enabled, TRUE, @)]
    /\ proved' = proved \cup {a.code}
    /\ crossed' = (crossed \/ a.loaded.secret # account.secret)
    /\ Answered(h)
    /\ UNCHANGED <<time, guesses>>

\* MFA_SETUP_REQUIRED, MFA_INVALID, or any request that fails before its
\* commit.
AbandonAttempt(h) ==
    /\ attempt[h].op \in {"setup", "enable"}
    /\ Answered(h)
    /\ UNCHANGED <<time, account, guesses, proved, crossed>>

TickSign ==
    /\ time < MaxTime
    /\ time' = time + 1
    /\ UNCHANGED <<account, attempt, guesses, proved, crossed>>

Fresh(secret) == secret # account.secret /\ secret \notin proved

SignNext ==
    \/ \E h \in Attempts : BeginLogin(h)
    \/ \E h \in Attempts : BeginSetup(h)
    \/ \E h \in Attempts : BeginEnable(h)
    \/ \E h \in Attempts : RefuseLogin(h)
    \/ \E h \in Attempts : WrongPassword(h)
    \/ \E h \in Attempts : LoginSucceeds(h)
    \/ \E h \in Attempts, secret \in Secrets : Fresh(secret) /\ SetupTotp(h, secret)
    \/ \E h \in Attempts : EnableTotp(h)
    \/ \E h \in Attempts : AbandonAttempt(h)
    \/ TickSign

SignSpec == SignInit /\ [][SignNext]_signVars

-----------------------------------------------------------------------------
\* The row and the requests have their types; failed stays below the limit.
SignTypeOK ==
    /\ time \in Clock
    /\ account \in Account
    /\ attempt \in [Attempts -> Attempt]
    /\ guesses \in Nat
    /\ proved \subseteq Secrets
    /\ crossed \in BOOLEAN

\* While an account is locked, its lock is lifted or cut short only by a
\* request that had loaded the row before that lock was set: no attempt that
\* starts under the lock touches it, whatever password or code it brings
\* (login checks the lock before the password, README.md:41).
LockKept ==
    [][account.lockedUntil > time /\ account'.lockedUntil < account.lockedUntil =>
          \E h \in Attempts :
             /\ attempt[h].op = "login" /\ attempt'[h].op = "none"
             /\ attempt[h].loaded.lockedUntil # account.lockedUntil]_signVars

\* Overlapping attempts read the same counter and are counted once, and one
\* that was held up sets the counter back; still the account locks after
\* GuessBound wrong passwords at most, MaxFailures when they follow each
\* other (failed_login_attempts += 1 on the copy).  With overlap that is more
\* than the 5 attempts of questions.md:35: 15 for two threads.
GuessesBounded == guesses < GuessBound[Cardinality(Attempts)][MaxFailures]

\* Whoever is asked for a code once proved to have the secret: the factor is
\* enabled only for a secret a valid code confirmed.  A set-up whose factor was
\* enabled since it read the row, and a confirmation whose secret was replaced,
\* do enable a secret nobody confirmed; but they spoil that secret only, and
\* the next set-up that overlaps no confirmation makes it good, however often
\* requests overlapped before (setup_totp, enable_totp).
FactorConfirmed == account.enabled /\ ~ crossed => account.secret \in proved
=============================================================================
