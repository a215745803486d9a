--------------------------- MODULE MCEntitlements ---------------------------
EXTENDS Entitlements

Terms(tokens, devices) == [tokens |-> tokens, devices |-> devices]
Seeded == [included |-> Terms(0, 1), pro |-> Terms(2, 3)]
Withdrawn == [included |-> Terms(0, 1), pro |-> Terms(0, 1)]
Docs == {Seeded, Withdrawn}

Values == [k \in {"cloud", "devices", "tokens"} |->
              CASE k = "cloud" -> {Bool(TRUE)} [] k = "devices" -> {Number(9)}
                [] k = "tokens" -> {Number(4)}]
Grants == [l \in Licenses |->
              IF l \in Manual
              THEN [f \in {"devices", "support"} |-> IF f = "devices" THEN Number(5) ELSE Text("gold")]
              ELSE Empty]
Promo == [features |-> [f \in {"devices"} |-> Number(6)], quotas |-> [q \in {"tokens"} |-> 7]]

Symmetry == Permutations(Operators) \cup Permutations(PublishKeys) \cup Permutations(Subscriptions)
=============================================================================
