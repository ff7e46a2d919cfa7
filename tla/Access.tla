------------------------------- MODULE Access -------------------------------
(***************************************************************************)
(* Who may do what: the session context, the frozen memberships and the    *)
(* attribute rules that every handler behind authorize_for_active_context  *)
(* (api/app/api/deps.py) is checked against, and the handlers that change  *)
(* them: freeze and unfreeze (imports_admin.py), the context switch        *)
(* (context.py) and the policy administration (policies.py), with the      *)
(* evaluator of authz/abac.py and the role table of authz/rbac.py.         *)
(*                                                                         *)
(* One organization; a context is one of its event stores, and a user has  *)
(* at most one membership in each.  A request runs in three steps, cut     *)
(* where the tables it reads are written by others: Begin reads the        *)
(* membership and one setting row of the surface; Evaluate reads the rules *)
(* and the row the handler changes; Commit writes.  Reads of tables that   *)
(* no step relates are put into one of these steps.                        *)
(*                                                                         *)
(* abac_surface_settings has no unique constraint and its reader takes any *)
(* row of the surface; rules of equal priority come in any order.          *)
(*                                                                         *)
(* Left out: audit rows, the reasons and stamps of a freeze, session       *)
(* expiry, inactive users, and the simulation and list handlers, which     *)
(* change nothing.                                                         *)
(***************************************************************************)
EXTENDS Integers, FiniteSets

CONSTANTS
    Users,          \* users.id
    Contexts,       \* event stores of the organization
    Role,           \* [users with a membership there -> role], per context
    Group,          \* a user's department, grade and class
    Threads,        \* the threads that run requests
    Surfaces,       \* surfaces the administrator configures
    SettingIds,     \* ids of abac_surface_settings rows
    RuleIds,        \* ids of abac_rules rows
    RuleChoices,    \* the rules the administrator creates
    Unset,          \* NULL in a column of a rule
    None,           \* no row, and no context in a token
    SignedOut       \* no session cookie

Roles == {"student", "referee", "staff", "administrator"}

ASSUME RolesAssumption ==
    \A k \in Contexts : DOMAIN Role[k] \subseteq Users
                        /\ \A u \in DOMAIN Role[k] : Role[k][u] \in Roles

ASSUME AccessNulls ==
    /\ None \notin Users \cup Contexts
    /\ None \notin Surfaces
    /\ None \notin SettingIds \cup BOOLEAN
    /\ SignedOut \notin Contexts \cup {None}

ASSUME ThreadsAssumption == IsFiniteSet(Threads) /\ Threads # {}

VARIABLES
    frozen,     \* the memberships with is_frozen
    token,      \* the context in the session token of each user
    settings,   \* abac_surface_settings
    rules,      \* abac_rules
    running,    \* what each thread is doing
    actsFrozen, \* history: commits in the name of a membership since its freeze
    passedBy    \* history: contexts where a frozen manager's freeze committed

accessVars == <<frozen, token, settings, rules, running, actsFrozen, passedBy>>

-----------------------------------------------------------------------------
\* <<context, user>>
Memberships == {m \in Contexts \X Users : m[2] \in DOMAIN Role[m[1]]}

ASSUME MembersAssumption == Memberships # {}

RoleOf(m) == Role[m[1]][m[2]]

MembershipsOf(user) == {m \in Memberships : m[2] = user}

\* ROLE_PERMISSIONS, for the permissions the operations here ask for.
ManagerRoles == {"staff", "administrator"}

AllowedRoles(op) ==
    CASE op \in {"freeze", "unfreeze"}                       -> ManagerRoles
      [] op \in {"setSurface", "createRule", "deleteRule"}   -> {"administrator"}
      [] op \in {"work", "switch"}                           -> Roles

\* The surface and the action each handler is registered under.
Ops == {"work", "switch", "freeze", "unfreeze",
        "setSurface", "createRule", "deleteRule"}

SurfaceOf(op) ==
    CASE op = "work"                                         -> "dashboard"
      [] op = "switch"                                       -> "context"
      [] op \in {"freeze", "unfreeze"}                       -> "accounts"
      [] op \in {"setSurface", "createRule", "deleteRule"}   -> "abac_admin"

ActionOf(op) ==
    CASE op = "work"                                         -> "view"
      [] op \in {"switch", "freeze", "unfreeze"}             -> op
      [] op \in {"setSurface", "createRule", "deleteRule"}   -> "manage"

AllSurfaces == {SurfaceOf(op) : op \in Ops}

SettingRow == [surface : AllSurfaces, enabled : BOOLEAN]

Rule == [surface : AllSurfaces, action : {ActionOf(op) : op \in Ops},
         effect : {"allow", "deny"}, priority : Nat,
         role : Roles \cup {Unset}, context : Contexts \cup {Unset},
         subject : {Group[u] : u \in Users} \cup {Unset}]

ASSUME RulesAssumption ==
    /\ RuleChoices \subseteq Rule
    /\ Surfaces \subseteq AllSurfaces
    /\ None \notin SettingRow

-----------------------------------------------------------------------------
(* authz/abac.py                                                           *)

\* _rule_matches_context.  The switch is evaluated without the subject's
\* attributes, and a missing attribute matches no rule that names one.
RuleMatches(rule, m, op) ==
    /\ rule.surface = SurfaceOf(op) /\ rule.action = ActionOf(op)
    /\ rule.role \in {Unset, RoleOf(m)}
    /\ rule.context \in {Unset, m[1]}
    /\ rule.subject \in {Unset} \cup (IF op = "switch" THEN {} ELSE {Group[m[2]]})

RuleRows == {id \in RuleIds : rules[id] # None}

\* The rules that match.
Matching(m, op) == {id \in RuleRows : RuleMatches(rules[id], m, op)}

\* Faulty variant: ORDER BY priority DESC.
LastMatches(m, op) ==
    {id \in Matching(m, op) : \A other \in Matching(m, op) :
        rules[id].priority >= rules[other].priority}

\* The matches that can come first in ORDER BY priority.
FirstMatches(m, op) ==
    {id \in Matching(m, op) : \A other \in Matching(m, op) :
        rules[id].priority <= rules[other].priority}

\* AbacPolicyEvaluator.evaluate after the surface was found enabled: what it
\* may answer on the rules of this moment.
Verdicts(m, op) ==
    IF Matching(m, op) = {} THEN {FALSE}
    ELSE {rules[id].effect # "deny" : id \in FirstMatches(m, op)}

SettingRows(surface) ==
    {id \in SettingIds : settings[id] # None /\ settings[id].surface = surface}

\* What the setting query may find: is the surface enforced?
Enforced(surface) ==
    IF SettingRows(surface) = {} THEN {FALSE}
    ELSE {settings[id].enabled : id \in SettingRows(surface)}

\* The policy of this moment may let m do op: no row that matches op has a
\* lower priority number than some rule that allows it, or the surface is not
\* enforced.
PolicyPermits(m, op) ==
    \/ FALSE \in Enforced(SurfaceOf(op))
    \/ \E id \in Matching(m, op) :
          /\ rules[id].effect = "allow"
          /\ \A other \in Matching(m, op) :
                rules[id].priority <= rules[other].priority

-----------------------------------------------------------------------------
\* object is what the handler changes and seen the value or the row it found
\* there; rightly is a history: the policy permitted the request at one of
\* its reads.
Request == [phase : {"idle", "checked", "allowed"}, op : Ops,
            acting : Memberships, object : Users \cup Surfaces \cup {None},
            enforced : BOOLEAN, seen : SettingIds \cup BOOLEAN \cup {None},
            rightly : BOOLEAN]

Idle == [phase |-> "idle", op |-> "work",
         acting |-> CHOOSE m \in Memberships : TRUE, object |-> None,
         enforced |-> FALSE, seen |-> None, rightly |-> TRUE]

AccessInit ==
    /\ frozen = {}
    /\ token = [u \in Users |-> SignedOut]
    /\ settings = [id \in SettingIds |-> None]
    /\ rules = [id \in RuleIds |-> None]
    /\ running = [h \in Threads |-> Idle]
    /\ actsFrozen = [m \in Memberships |-> 0]
    /\ passedBy = {}

tables == <<frozen, settings, rules>>
histories == <<actsFrozen, passedBy>>

\* login: the session starts in a membership that is not frozen, or in none
\* when the user has none; it is refused when all are frozen.
OpenSession(user) ==
    /\ \/ \E m \in MembershipsOf(user) \ frozen :
             token' = [token EXCEPT ![user] = m[1]]
       \/ /\ MembershipsOf(user) = {}
          /\ token' = [token EXCEPT ![user] = None]
    /\ UNCHANGED <<tables, running, histories>>

\* logout
CloseSession(user) ==
    /\ token[user] # SignedOut
    /\ token' = [token EXCEPT ![user] = SignedOut]
    /\ UNCHANGED <<tables, running, histories>>

\* Faulty variant: a frozen membership still acts.
ActsInContext(user) == {m \in Memberships : m = <<token[user], user>>}

\* get_active_membership: the token's membership, which must not be frozen;
\* one that is not frozen when the token names none.
ActsAs(user) ==
    IF <<token[user], user>> \in Memberships
    THEN {<<token[user], user>>} \ frozen
    ELSE MembershipsOf(user) \ frozen

\* The membership a request is checked as: for a switch, the one switched to.
CheckedAs(user, op) ==
    IF op = "switch" THEN MembershipsOf(user) \ frozen ELSE ActsAs(user)

\* get_active_membership, RBAC, and the setting query of the evaluator.
BeginRequest(h, user, op) ==
    /\ running[h].phase = "idle"
    /\ token[user] # SignedOut
    /\ \E m \in CheckedAs(user, op), enforced \in Enforced(SurfaceOf(op)) :
          /\ RoleOf(m) \in AllowedRoles(op)
          /\ running' = [running EXCEPT ![h] =
                [Idle EXCEPT !.phase = "checked", !.op = op, !.acting = m,
                             !.enforced = enforced,
                             !.rightly = PolicyPermits(m, op)]]
    /\ UNCHANGED <<tables, token, histories>>

\* Faulty variant: an account may freeze itself.
FreezableByAnyone(m) == {u \in Users : <<m[1], u>> \in Memberships}

\* Whom a manager can freeze: the others of the context.
Freezable(m) == {u \in Users \ {m[2]} : <<m[1], u>> \in Memberships}

\* What upsert_abac_surface may find for its surface.
FoundRows(surface) ==
    IF SettingRows(surface) = {} THEN {None} ELSE SettingRows(surface)

\* What the handler loads before it writes, as <<object, seen>>.
Loads(op, m) ==
    CASE op = "freeze"     -> {<<u, <<m[1], u>> \in frozen>> : u \in Freezable(m)}
      [] op = "unfreeze"   -> {<<u, <<m[1], u>> \in frozen>> :
                                  u \in {v \in Users : <<m[1], v>> \in Memberships}}
      [] op = "setSurface" -> UNION {{surface} \X FoundRows(surface) :
                                        surface \in Surfaces}
      [] OTHER             -> {<<None, None>>}

\* The rules query: allowed, and the handler loads what it is about to
\* change.
Evaluate(h) ==
    LET r == running[h] IN
    /\ r.phase = "checked"
    /\ ~ r.enforced \/ TRUE \in Verdicts(r.acting, r.op)
    /\ \E found \in Loads(r.op, r.acting) :
          running' = [running EXCEPT ![h] =
             [r EXCEPT !.phase = "allowed", !.object = found[1], !.seen = found[2],
                       !.rightly = @ \/ PolicyPermits(r.acting, r.op)]]
    /\ UNCHANGED <<tables, token, histories>>

\* FORBIDDEN, ACCOUNT_FROZEN, a request for a user who is not there, or any
\* failure before the commit: nothing is written.
Refuse(h) ==
    /\ running[h].phase # "idle"
    /\ running' = [running EXCEPT ![h] = Idle]
    /\ UNCHANGED <<tables, token, histories>>

\* The commit of a request, counted while its membership is frozen.
Finish(h, op) ==
    /\ running[h].phase = "allowed" /\ running[h].op = op
    /\ running' = [running EXCEPT ![h] = Idle]

CountAct(m) ==
    actsFrozen' = [actsFrozen EXCEPT ![m] = IF m \in frozen THEN @ + 1 ELSE @]

\* Any handler that changes rows of another component.
CommitWork(h) ==
    /\ Finish(h, "work")
    /\ CountAct(running[h].acting)
    /\ UNCHANGED <<tables, token, passedBy>>

\* set_active_context: the new token.
CommitSwitch(h) ==
    LET m == running[h].acting IN
    /\ Finish(h, "switch")
    /\ token' = [token EXCEPT ![m[2]] = m[1]]
    /\ UNCHANGED <<tables, histories>>

\* freeze_account: is_frozen is written unless it was loaded as such.
CommitFreeze(h) ==
    LET m == running[h].acting
        target == <<m[1], running[h].object>>
        freezes == ~ running[h].seen
    IN
    /\ Finish(h, "freeze")
    /\ frozen' = IF freezes THEN frozen \cup {target} ELSE frozen
    /\ CountAct(m)
    /\ passedBy' = IF m \in frozen THEN passedBy \cup {m[1]} ELSE passedBy
    /\ UNCHANGED <<settings, rules, token>>

\* unfreeze_account
CommitUnfreeze(h) ==
    LET m == running[h].acting
        target == <<m[1], running[h].object>>
    IN
    /\ Finish(h, "unfreeze")
    /\ frozen' = IF running[h].seen THEN frozen \ {target} ELSE frozen
    /\ actsFrozen' = [o \in Memberships |->
          IF o \notin frozen' THEN 0
          ELSE IF o = m THEN actsFrozen[o] + 1
          ELSE actsFrozen[o]]
    /\ UNCHANGED <<settings, rules, token, passedBy>>

\* upsert_abac_surface: the loaded row, or a new one.
CommitSetSurface(h, enabled) ==
    LET r == running[h] IN
    /\ Finish(h, "setSurface")
    /\ \/ /\ r.seen # None
          /\ settings' = [settings EXCEPT ![r.seen].enabled = enabled]
       \/ /\ r.seen = None
          /\ \E id \in SettingIds :
                /\ settings[id] = None
                /\ settings' = [settings EXCEPT ![id] =
                      [surface |-> r.object, enabled |-> enabled]]
    /\ CountAct(r.acting)
    /\ UNCHANGED <<frozen, rules, token, passedBy>>

\* create_abac_rule
CommitCreateRule(h, rule) ==
    /\ Finish(h, "createRule")
    /\ \E id \in RuleIds :
          /\ rules[id] = None
          /\ rules' = [rules EXCEPT ![id] = rule]
    /\ CountAct(running[h].acting)
    /\ UNCHANGED <<frozen, settings, token, passedBy>>

\* delete_abac_rule
CommitDeleteRule(h, id) ==
    /\ Finish(h, "deleteRule")
    /\ rules[id] # None
    /\ rules' = [rules EXCEPT ![id] = None]
    /\ CountAct(running[h].acting)
    /\ UNCHANGED <<frozen, settings, token, passedBy>>

AccessNext ==
    \/ \E user \in Users : OpenSession(user)
    \/ \E user \in Users : CloseSession(user)
    \/ \E h \in Threads, user \in Users, op \in Ops : BeginRequest(h, user, op)
    \/ \E h \in Threads : Evaluate(h)
    \/ \E h \in Threads : Refuse(h)
    \/ \E h \in Threads : CommitWork(h)
    \/ \E h \in Threads : CommitSwitch(h)
    \/ \E h \in Threads : CommitFreeze(h)
    \/ \E h \in Threads : CommitUnfreeze(h)
    \/ \E h \in Threads, enabled \in BOOLEAN : CommitSetSurface(h, enabled)
    \/ \E h \in Threads, rule \in RuleChoices : CommitCreateRule(h, rule)
    \/ \E h \in Threads, id \in RuleIds : CommitDeleteRule(h, id)

AccessSpec == AccessInit /\ [][AccessNext]_accessVars

-----------------------------------------------------------------------------
\* The tables, the tokens and the requests have their types.
AccessTypeOK ==
    /\ frozen \subseteq Memberships
    /\ token \in [Users -> Contexts \cup {None, SignedOut}]
    /\ settings \in [SettingIds -> SettingRow \cup {None}]
    /\ rules \in [RuleIds -> RuleChoices \cup {None}]
    /\ running \in [Threads -> Request]
    /\ actsFrozen \in [Memberships -> Nat]
    /\ passedBy \subseteq Contexts

Managers(k) == {m \in Memberships : m[1] = k /\ RoleOf(m) \in ManagerRoles}

\* A context keeps a manager who is not frozen, unless a frozen one's freeze
\* committed there.
ManagerRemains ==
    \A k \in Contexts : Managers(k) # {} /\ k \notin passedBy =>
        Managers(k) \ frozen # {}

\* Since a membership was frozen, fewer requests than there are threads have
\* changed anything in its name.
FrozenActsBounded ==
    \A m \in Memberships : actsFrozen[m] < Cardinality(Threads)

\* A freeze takes hold at once for all that is not yet under way, for the token
\* stays valid and get_active_membership alone looks at it: no more requests
\* commit in the name of a frozen membership than could have been checked
\* before, one for each other thread.  And it locks nobody out for good: nobody
\* freezes himself, and who is frozen freezes nobody, so a context keeps a
\* manager who can unfreeze the others.  The exception is a freeze that commits
\* for a manager who was himself frozen after his request was checked: two
\* managers who freeze each other at once leave none (freeze_account).
FreezeHolds == ManagerRemains /\ FrozenActsBounded

\* Whoever passes the attribute rules was permitted by them at one moment of
\* the check, although the surface and its rules are read one after the
\* other while the administrator changes both (AbacPolicyEvaluator).
AllowedWasRight ==
    \A h \in Threads : running[h].phase = "allowed" => running[h].rightly
=============================================================================
