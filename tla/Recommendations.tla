-------------------------- MODULE Recommendations --------------------------
(***************************************************************************)
(* Recommendation settings, featured pins and pairing rules:               *)
(* api/app/recommendations/engine.py and the handlers of                   *)
(* api/app/api/routes/recommendations.py, for one event and store.         *)
(*                                                                         *)
(* Requests overlap.  Each SELECT sees what is committed when it runs and  *)
(* is a step of its own; the writes of a request are one step, its commit. *)
(* Settings are kept for the organization, the program and the event with  *)
(* its store, and the nearest apply.  Scores, and with them the order of   *)
(* what is not featured, are left out.                                     *)
(***************************************************************************)
EXTENDS Integers, FiniteSets

CONSTANTS
    Workers,        \* the threads that run requests
    Entries,        \* directory entries
    Pieces,         \* repertoire items
    Featurable,     \* bound: the entries and pieces that users pin
    Asked,          \* bound: the entries and pieces they ask recommendations for
    Edits,          \* bound: the settings they save, each with its scope
    Rulings,        \* bound: the pairing rules they make
    Expiries,       \* bound: the expiry dates users give a pin
    Never,          \* no expiry date
    MaxNow          \* bound: time, in hours

Scopes == {"organization", "program", "event_store"}
Pairs == Entries \X Pieces

\* A pin_ttl_hours of 0 stands for none.
SettingsType ==
    [pins_enabled : BOOLEAN, max_pins : Nat, pin_ttl_hours : Nat,
     enforce_pairing_rules : BOOLEAN, allow_staff_event_store_manage : BOOLEAN]

Ruling == [pair : Pairs, effect : {"allow", "block"}]

ASSUME RecommendationAssumption ==
    /\ Featurable \cup Asked \subseteq Entries \cup Pieces
    /\ Entries \cap Pieces = {}
    /\ Edits \subseteq [scope : Scopes, settings : SettingsType]
    /\ Rulings \subseteq Ruling
    /\ Never \notin Int
    /\ Expiries \subseteq Nat \cup {Never}
    /\ MaxNow \in Nat

VARIABLES
    configs,    \* recommendation_configs
    pins,       \* recommendation_featured_pins
    rules,      \* pairing_rules
    now,
    request,    \* what each worker is doing
    barred,     \* history: the pairs forbidden since each recommendation began
    granted,    \* history: the staff requests that saw a delegation in some row
    calm        \* history: the staff requests during which no settings changed

tables == <<configs, pins, rules>>
history == <<barred, granted, calm>>
vars == <<configs, pins, rules, now, request, barred, granted, calm>>

-----------------------------------------------------------------------------
(* The settings that apply.                                                *)

Wider(scope) == IF scope = "event_store" THEN "program" ELSE "organization"

Default ==
    [pins_enabled |-> TRUE, max_pins |-> 20, pin_ttl_hours |-> 0,
     enforce_pairing_rules |-> TRUE, allow_staff_event_store_manage |-> FALSE]

\* The rows of a scope: the query that looks for one takes any of them.
Exact(scope) == {c \in configs : c.scope = scope}

\* Faulty variant of Chain: an event inherits from the organization at once.
ChainSkipsProgram(scope) ==
    IF scope = "organization" THEN <<"organization">> ELSE <<scope, "organization">>

\* The scopes that resolve_config_for_requested_scope asks, nearest first.
Chain(scope) ==
    CASE scope = "organization" -> <<"organization">>
      [] scope = "program" -> <<"program", "organization">>
      [] scope = "event_store" -> <<"event_store", "program", "organization">>

\* What the page about a scope may be shown.
Requested(scope) ==
    LET chain == Chain(scope)
        found == {i \in DOMAIN chain : Exact(chain[i]) # {}}
    IN  IF found = {} THEN {Default}
        ELSE {c.settings : c \in Exact(chain[CHOOSE i \in found : \A j \in found : i <= j])}

-----------------------------------------------------------------------------
(* Requests.                                                               *)

Idle == [op |-> "none"]

Free(w) == request[w] = Idle

Receive(w, r) ==
    /\ Free(w)
    /\ request' = [request EXCEPT ![w] = r]
    /\ UNCHANGED <<tables, now>>

\* A request goes on, or ends, without writing.
Proceed(w, r) ==
    /\ request' = [request EXCEPT ![w] = r]
    /\ UNCHANGED <<tables, now>>

At(w, op, step) == request[w].op = op /\ request[w].step = step

\* Ids are uuids.  Here they tell rows about the same thing apart: no other row
\* of it has the id, and no request remembers it.
Fresh(rows) ==
    LET used == {r.id : r \in rows} \cup {request[w].row : w \in {v \in Workers : ~Free(v)}}
    IN  CHOOSE i \in 1..Cardinality(used) + 1 : i \notin used

NoRow == 0

\* The session writes the columns that differ from what it read, and leaves the
\* others as they are by now.
Assigned(current, read, written) ==
    LET column(f) == IF written[f] # read[f] THEN written[f] ELSE current[f]
    IN  [pins_enabled |-> column("pins_enabled"),
         max_pins |-> column("max_pins"),
         pin_ttl_hours |-> column("pin_ttl_hours"),
         enforce_pairing_rules |-> column("enforce_pairing_rules"),
         allow_staff_event_store_manage |-> column("allow_staff_event_store_manage")]

-----------------------------------------------------------------------------
(* Saving a configuration.                                                 *)

\* Only wider settings delegate.
Saved(scope, payload) ==
    [payload EXCEPT !.allow_staff_event_store_manage = @ /\ scope # "event_store"]

\* An administrator needs no delegation; staff is refused any other scope before
\* a query is made.
UpsertRecommendationConfig(w) ==
    \E role \in {"administrator", "staff"}, edit \in Edits :
        /\ role = "staff" => edit.scope = "event_store"
        /\ Receive(w, [op |-> "put", role |-> role, scope |-> edit.scope, payload |-> edit.settings,
                       step |-> IF role = "staff" THEN "program" ELSE "load",
                       row |-> NoRow, read |-> Default])

\* Faulty variant of StaffCanManageEventStore: a program that does not delegate
\* leaves it to the organization.
StaffCanManageThroughOrganization(w) ==
    LET step == request[w].step
        allowing == {c \in Exact(step) : c.settings.allow_staff_event_store_manage}
    IN  /\ request[w].op = "put"
        /\ step \in {"program", "organization"}
        /\ Proceed(w, IF allowing # {} THEN [request[w] EXCEPT !.step = "load"]
                      ELSE IF step = "program"
                      THEN [request[w] EXCEPT !.step = "organization"] ELSE Idle)

\* Where staff goes on after a look at a scope's rows: the first scope that has
\* one decides.
StaffCanManageEventStore(w) ==
    LET step == request[w].step
    IN  /\ request[w].op = "put"
        /\ step \in {"program", "organization"}
        /\ \/ \E c \in Exact(step) :
                  Proceed(w, IF c.settings.allow_staff_event_store_manage
                             THEN [request[w] EXCEPT !.step = "load"] ELSE Idle)
           \/ /\ Exact(step) = {}
              /\ Proceed(w, IF step = "program"
                            THEN [request[w] EXCEPT !.step = "organization"] ELSE Idle)

LoadConfig(w) ==
    /\ At(w, "put", "load")
    /\ \/ \E c \in Exact(request[w].scope) :
              Proceed(w, [request[w] EXCEPT !.step = "commit", !.row = c.id, !.read = c.settings])
       \/ /\ Exact(request[w].scope) = {}
          /\ Proceed(w, [request[w] EXCEPT !.step = "commit"])

\* The unique constraint over the four scope columns stops a second row of an
\* event and store only: columns that are NULL differ from each other.
Refused(scope) == scope = "event_store" /\ Exact(scope) # {}

CommitConfig(w) ==
    LET r == request[w]
        settings == Saved(r.scope, r.payload)
    IN  /\ At(w, "put", "commit")
        /\ request' = [request EXCEPT ![w] = Idle]
        /\ configs' =
               IF r.row # NoRow
               THEN {IF c.scope = r.scope /\ c.id = r.row
                     THEN [c EXCEPT !.settings = Assigned(@, r.read, settings)] ELSE c :
                     c \in configs}
               ELSE IF Refused(r.scope) THEN configs
               ELSE configs \cup
                    {[id |-> Fresh(Exact(r.scope)), scope |-> r.scope, settings |-> settings]}
        /\ UNCHANGED <<pins, rules, now>>

-----------------------------------------------------------------------------
(* Featured pins.                                                          *)

Surface(target) == IF target \in Entries THEN Entries ELSE Pieces

Lasting(p) == p.expires = Never \/ p.expires >= now

ActivePins(surface) == {p \in pins : p.target \in surface /\ Lasting(p)}

PinFeaturedTarget(w) ==
    \E target \in Featurable, until \in Expiries :
        Receive(w, [op |-> "pin", target |-> target, until |-> until, step |-> "event_store",
                    applies |-> Default, row |-> NoRow, read |-> Never, at |-> 0])

\* A look at one scope for the settings that apply to a pin or a recommendation.
ResolveEffectiveConfig(w) ==
    LET r == request[w]
        go(settings) ==
            IF r.op = "recommend" THEN [r EXCEPT !.applies = settings, !.step = "pins"]
            ELSE IF settings.pins_enabled
            THEN [r EXCEPT !.applies = settings, !.step = "find"] ELSE Idle
    IN  /\ r.op \in {"pin", "recommend"}
        /\ r.step \in Scopes
        /\ \/ \E c \in Exact(r.step) : Proceed(w, go(c.settings))
           \/ /\ Exact(r.step) = {}
              /\ Proceed(w, IF r.step = "organization" THEN go(Default)
                            ELSE [r EXCEPT !.step = Wider(r.step)])

UnpinFeaturedTarget(w) ==
    \E target \in Featurable :
        Receive(w, [op |-> "unpin", target |-> target, step |-> "find", row |-> NoRow])

\* Faulty variant of PinsOf: an expired pin is not found, and a second made.
PinsLasting(target) == {p \in pins : p.target = target /\ Lasting(p)}

\* The pin of a target, if it has one: active or expired.
PinsOf(target) == {p \in pins : p.target = target}

FindPin(w) ==
    LET r == request[w]
    IN  /\ At(w, "pin", "find")
        /\ \/ \E p \in PinsOf(r.target) :
                  Proceed(w, [r EXCEPT !.step = "count", !.row = p.id, !.read = p.expires])
           \/ PinsOf(r.target) = {} /\ Proceed(w, [r EXCEPT !.step = "count"])

\* The limit holds for a target that has no pin yet.
CountPins(w) ==
    LET r == request[w]
    IN  /\ At(w, "pin", "count")
        /\ Proceed(w,
               IF r.row = NoRow /\ Cardinality(ActivePins(Surface(r.target))) >= r.applies.max_pins
               THEN Idle ELSE [r EXCEPT !.step = "commit", !.at = now])

Until(r) ==
    IF r.until = Never /\ r.applies.pin_ttl_hours # 0
    THEN r.at + r.applies.pin_ttl_hours ELSE r.until

\* The pin may be gone: the UPDATE then finds no row and the request fails.
CommitPin(w) ==
    LET r == request[w]
    IN  /\ At(w, "pin", "commit")
        /\ request' = [request EXCEPT ![w] = Idle]
        /\ pins' =
               IF r.row = NoRow
               THEN pins \cup {[id |-> Fresh(PinsOf(r.target)), target |-> r.target,
                                created |-> r.at, expires |-> Until(r)]}
               ELSE {IF p.target = r.target /\ p.id = r.row
                     THEN [p EXCEPT !.created = r.at,
                                    !.expires = IF Until(r) # r.read THEN Until(r) ELSE @]
                     ELSE p : p \in pins}
        /\ UNCHANGED <<configs, rules, now>>

\* Faulty variant of FindPinToRemove: only pins that last are looked for.
FindLastingToRemove(w) ==
    LET r == request[w]
    IN  /\ At(w, "unpin", "find")
        /\ \/ \E p \in PinsLasting(r.target) :
                  Proceed(w, [r EXCEPT !.step = "commit", !.row = p.id])
           \/ PinsLasting(r.target) = {} /\ Proceed(w, Idle)

FindPinToRemove(w) ==
    LET r == request[w]
    IN  /\ At(w, "unpin", "find")
        /\ \/ \E p \in {q \in pins : q.target = r.target} :
                  Proceed(w, [r EXCEPT !.step = "commit", !.row = p.id])
           \/ {q \in pins : q.target = r.target} = {} /\ Proceed(w, Idle)

CommitUnpin(w) ==
    /\ At(w, "unpin", "commit")
    /\ request' = [request EXCEPT ![w] = Idle]
    /\ pins' = {p \in pins : p.target # request[w].target \/ p.id # request[w].row}
    /\ UNCHANGED <<configs, rules, now>>

-----------------------------------------------------------------------------
(* Pairing rules.                                                          *)

PairOf(target, other) == IF target \in Entries THEN <<target, other>> ELSE <<other, target>>

\* Allowed by the rules of the piece, as one query returns them.
PairingAllows(pair) ==
    LET scoped == {r \in rules : r.pair[2] = pair[2]}
        allowlist == {r \in scoped : r.effect = "allow"}
    IN  /\ ~\E r \in scoped : r.pair = pair /\ r.effect = "block"
        /\ allowlist = {} \/ \E r \in allowlist : r.pair = pair

CreatePairingRule(w) ==
    \E ruling \in Rulings :
        Receive(w, [op |-> "rule", ruling |-> ruling, step |-> "find", row |-> NoRow])

\* Users delete a rule they see in the list.
DeletePairingRule(w) ==
    \E r \in rules :
        Receive(w, [op |-> "delete", ruling |-> [pair |-> r.pair, effect |-> r.effect],
                    step |-> "find", row |-> r.id])

RulesFor(ruling) == {q \in rules : q.pair = ruling.pair /\ q.effect = ruling.effect}

\* A rule that exists already is the answer.
FindRule(w) ==
    LET r == request[w]
    IN  /\ At(w, "rule", "find")
        /\ Proceed(w, IF RulesFor(r.ruling) # {} THEN Idle ELSE [r EXCEPT !.step = "commit"])

NewRule(ruling) ==
    [id |-> Fresh(RulesFor(ruling)), pair |-> ruling.pair, effect |-> ruling.effect]

\* The unique constraint refuses a rule that was made meanwhile.
CommitRule(w) ==
    LET r == request[w]
    IN  /\ At(w, "rule", "commit")
        /\ request' = [request EXCEPT ![w] = Idle]
        /\ rules' = IF RulesFor(r.ruling) # {} THEN rules
                    ELSE rules \cup {NewRule(r.ruling)}
        /\ UNCHANGED <<configs, pins, now>>

FindRuleToRemove(w) ==
    LET r == request[w]
    IN  /\ At(w, "delete", "find")
        /\ Proceed(w, IF \E q \in RulesFor(r.ruling) : q.id = r.row
                      THEN [r EXCEPT !.step = "commit"] ELSE Idle)

CommitDelete(w) ==
    LET r == request[w]
    IN  /\ At(w, "delete", "commit")
        /\ request' = [request EXCEPT ![w] = Idle]
        /\ rules' = {q \in rules : q \notin RulesFor(r.ruling) \/ q.id # r.row}
        /\ UNCHANGED <<configs, pins, now>>

-----------------------------------------------------------------------------
(* Recommendations: entries for a piece, or pieces for an entry.           *)

RecommendDirectory(w) ==
    \E piece \in Pieces \cap Asked :
        Receive(w, [op |-> "recommend", other |-> piece, step |-> "event_store", row |-> NoRow,
                    applies |-> Default, todo |-> Entries, shown |-> {}, featured |-> {}])

RecommendRepertoire(w) ==
    \E entry \in Entries \cap Asked :
        Receive(w, [op |-> "recommend", other |-> entry, step |-> "event_store", row |-> NoRow,
                    applies |-> Default, todo |-> Pieces, shown |-> {}, featured |-> {}])

\* The newest max_pins of the active pins of a surface; among pins of one
\* moment, the query decides.
Newest(surface, limit) ==
    {s \in SUBSET ActivePins(surface) :
        /\ \A p \in s, q \in ActivePins(surface) \ s : p.created >= q.created
        /\ s = ActivePins(surface) \/ Cardinality(s) = limit
        /\ Cardinality(s) <= limit}

ReadPins(w) ==
    LET r == request[w]
    IN  /\ At(w, "recommend", "pins")
        /\ \E s \in IF r.applies.pins_enabled
                    THEN Newest(IF r.other \in Pieces THEN Entries ELSE Pieces, r.applies.max_pins)
                    ELSE {{}} :
               Proceed(w, [r EXCEPT !.step = "check", !.featured = {p.target : p \in s}])

\* Faulty variant of CheckCandidate: what is featured is not checked.
CheckUnlessFeatured(w) ==
    LET r == request[w]
    IN  /\ At(w, "recommend", "check")
        /\ \E t \in r.todo :
               Proceed(w, [r EXCEPT
                   !.todo = @ \ {t},
                   !.shown = IF /\ r.applies.enforce_pairing_rules
                                /\ t \notin r.featured
                                /\ ~PairingAllows(PairOf(t, r.other))
                             THEN @ ELSE @ \cup {t}])

\* The rules are queried again for each candidate, in the order of the rows.
CheckCandidate(w) ==
    LET r == request[w]
    IN  /\ At(w, "recommend", "check")
        /\ \E t \in r.todo :
               Proceed(w, [r EXCEPT
                   !.todo = @ \ {t},
                   !.shown = IF r.applies.enforce_pairing_rules /\ ~PairingAllows(PairOf(t, r.other))
                             THEN @ ELSE @ \cup {t}])

Answer(w) ==
    /\ At(w, "recommend", "check")
    /\ request[w].todo = {}
    /\ Proceed(w, Idle)

-----------------------------------------------------------------------------
(* The system.                                                             *)

Tick ==
    /\ now < MaxNow
    /\ now' = now + 1
    /\ UNCHANGED <<tables, request>>

\* What the documents say of rules: a blocked pair is forbidden, and when a
\* piece has an allowlist so is every pair that is not on it.
Forbidden(pair) ==
    \/ \E r \in rules : r.effect = "block" /\ r.pair = pair
    \/ /\ \E r \in rules : r.effect = "allow" /\ r.pair[2] = pair[2]
       /\ \A r \in rules : r.effect = "allow" => r.pair # pair

\* The pairs that the rules forbid while no settings leave rules unenforced.
Barred ==
    {pair \in Pairs : Forbidden(pair) /\ \A c \in configs : c.settings.enforce_pairing_rules}

Granting ==
    \E c \in Exact("program") \cup Exact("organization") :
        c.settings.allow_staff_event_store_manage

ByStaff(w) == request[w].op = "put" /\ request[w].role = "staff"

\* The requests that go by settings they look up.
Reads(w) == ByStaff(w) \/ request[w].op \in {"pin", "recommend"}

\* History, kept beside every step.
Remember ==
    /\ barred' = [w \in Workers |->
           IF request'[w].op # "recommend" THEN {}
           ELSE IF request[w].op # "recommend" THEN Barred'
           ELSE barred[w] \cap Barred']
    /\ granted' = {w \in Workers : ByStaff(w)' /\ (Granting' \/ w \in granted)}
    /\ calm' = {w \in Workers : Reads(w)' /\ (Free(w) \/ (w \in calm /\ configs' = configs))}

Init ==
    /\ configs = {} /\ pins = {} /\ rules = {}
    /\ now = 0
    /\ request = [w \in Workers |-> Idle]
    /\ barred = [w \in Workers |-> {}]
    /\ granted = {} /\ calm = {}

Configure(w) ==
    \/ UpsertRecommendationConfig(w)
    \/ StaffCanManageEventStore(w)
    \/ LoadConfig(w)
    \/ CommitConfig(w)

Feature(w) ==
    \/ PinFeaturedTarget(w)
    \/ FindPin(w)
    \/ CountPins(w)
    \/ CommitPin(w)
    \/ UnpinFeaturedTarget(w)
    \/ FindPinToRemove(w)
    \/ CommitUnpin(w)

Pair(w) ==
    \/ CreatePairingRule(w)
    \/ DeletePairingRule(w)
    \/ FindRule(w)
    \/ CommitRule(w)
    \/ FindRuleToRemove(w)
    \/ CommitDelete(w)

Recommend(w) ==
    \/ RecommendDirectory(w)
    \/ RecommendRepertoire(w)
    \/ ResolveEffectiveConfig(w)
    \/ ReadPins(w)
    \/ CheckCandidate(w)
    \/ Answer(w)

Next ==
    /\ \/ \E w \in Workers : Configure(w) \/ Feature(w) \/ Pair(w) \/ Recommend(w)
       \/ Tick
    /\ Remember

Spec == Init /\ [][Next]_vars

\* What a request is about.  Recommendations write nothing, so that two at once
\* show no more than one.
About(w) ==
    LET r == request[w]
    IN  CASE r.op = "put" -> <<"config", r.scope>>
          [] r.op \in {"pin", "unpin"} -> <<"pin", r.target>>
          [] r.op \in {"rule", "delete"} -> <<"rule", r.ruling>>
          [] r.op = "recommend" -> <<"recommendation">>

\* Requests that overlap are about different configurations, targets and rules.
Apart == \A v, w \in Workers : v # w /\ ~Free(v) /\ ~Free(w) => About(v) # About(w)

ApartSpec == Init /\ [][Next /\ Apart']_vars

-----------------------------------------------------------------------------
(* Properties.                                                             *)

ConfigRow == [id : Nat, scope : Scopes, settings : SettingsType]

PinRow == [id : Nat, target : Featurable, created : Nat, expires : Nat \cup {Never}]

RuleRow == [id : Nat, pair : Pairs, effect : {"allow", "block"}]

PutRequest ==
    [op : {"put"}, role : {"administrator", "staff"}, scope : Scopes, payload : SettingsType,
     step : {"program", "organization", "load", "commit"}, row : Nat, read : SettingsType]

PinRequest ==
    [op : {"pin"}, target : Featurable, until : Expiries, applies : SettingsType,
     step : Scopes \cup {"find", "count", "commit"}, row : Nat, read : Nat \cup {Never}, at : Nat]

UnpinRequest == [op : {"unpin"}, target : Featurable, step : {"find", "commit"}, row : Nat]

RuleRequest == [op : {"rule", "delete"}, ruling : Ruling, step : {"find", "commit"}, row : Nat]

Named == Entries \cup Pieces

RecommendRequest ==
    [op : {"recommend"}, other : Named, applies : SettingsType, row : {NoRow},
     step : Scopes \cup {"pins", "check"},
     todo : SUBSET Named, shown : SUBSET Named, featured : SUBSET Named]

Request ==
    {Idle} \cup PutRequest \cup PinRequest \cup UnpinRequest \cup RuleRequest \cup RecommendRequest

\* Every row and every request in hand holds values of its kind.
TypeOK ==
    /\ configs \subseteq ConfigRow
    /\ pins \subseteq PinRow
    /\ rules \subseteq RuleRow
    /\ now \in 0..MaxNow
    /\ request \in [Workers -> Request]
    /\ barred \in [Workers -> SUBSET Pairs]
    /\ granted \subseteq Workers /\ calm \subseteq Workers

\* While requests about one configuration or target do not overlap, a scope has
\* one row of settings and a target one pin, so that what is switched off or
\* unpinned stays so (get_exact_config_for_scope, unpin_featured_target).
OneRowEach ==
    /\ \A c, d \in configs : c.scope = d.scope => c = d
    /\ \A p, q \in pins : p.target = q.target => p = q

\* A pin or a recommendation goes by the settings that the page of the event and
\* store shows, unless settings change while it looks for them
\* (resolve_effective_config, resolve_config_for_requested_scope).
PageShowsWhatApplies ==
    \A w \in calm :
        request[w].op \in {"pin", "recommend"} /\ request[w].step \notin Scopes =>
            request[w].applies \in Requested("event_store")

\* A recommendation never holds a pair that the rules have forbidden, with no
\* settings against it, ever since the request began: featured or not, and
\* whatever requests overlap (pairing_allows_directory_entry).
BlocklistHolds ==
    \A w \in Workers : request[w].op = "recommend" =>
        \A t \in request[w].shown : PairOf(t, request[w].other) \notin barred[w]

\* Staff writes the settings of an event and store only if the settings above
\* it delegate: those of the program if it has any, or else the organization's.
\* When settings change meanwhile, some row did delegate since the request
\* began (staff_can_manage_event_store).
StaffWritesDelegated ==
    [][\A w \in Workers : ByStaff(w) /\ request'[w] = Idle /\ configs' # configs =>
           /\ w \in granted
           /\ w \in calm => \E c \in IF Exact("program") # {} THEN Exact("program")
                                     ELSE Exact("organization") :
                                c.settings.allow_staff_event_store_manage]_vars

\* While no two requests about one target overlap (ApartSpec), no pin of its
\* target is left once an unpin is answered, expired ones included, that could
\* feature it again (unpin_featured_target).
UnpinTakesEffect ==
    [][\A w \in Workers : request[w].op = "unpin" /\ request'[w] = Idle =>
           \A p \in pins' : p.target # request[w].target]_vars

\* A pin never adds to the active pins of a surface beyond the limit that applies
\* (docs/design.md, 6.3).
PinLimitKept ==
    [][\A w \in Workers : At(w, "pin", "commit") /\ request'[w] = Idle =>
           LET target == request[w].target
               before == Cardinality(ActivePins(Surface(target)))
               after == Cardinality({p \in pins' : p.target \in Surface(target) /\ Lasting(p)})
           IN  after > before => after <= request[w].applies.max_pins]_vars
=============================================================================
