------------------------- MODULE MCRecommendations -------------------------
(* Instances of Recommendations for TLC.                                    *)
EXTENDS Recommendations, TLC

CONSTANTS e1, e2, p1

\* Generous settings that delegate, and strict ones without pins.
Generous ==
    [pins_enabled |-> TRUE, max_pins |-> 1, pin_ttl_hours |-> 1,
     enforce_pairing_rules |-> TRUE, allow_staff_event_store_manage |-> TRUE]

Strict ==
    [pins_enabled |-> FALSE, max_pins |-> 2, pin_ttl_hours |-> 0,
     enforce_pairing_rules |-> FALSE, allow_staff_event_store_manage |-> FALSE]

\* Without pins, but with the rules.
Plain ==
    [pins_enabled |-> FALSE, max_pins |-> 1, pin_ttl_hours |-> 0,
     enforce_pairing_rules |-> TRUE, allow_staff_event_store_manage |-> FALSE]

MCEdits == {
    [scope |-> "organization", settings |-> Generous],
    [scope |-> "program", settings |-> Strict],
    [scope |-> "event_store", settings |-> Plain] }

MCRulings == {
    [pair |-> <<e2, p1>>, effect |-> "allow"],
    [pair |-> <<e1, p1>>, effect |-> "block"] }

MCNoRulings == {}

Symmetry == Permutations(Workers)
=============================================================================
