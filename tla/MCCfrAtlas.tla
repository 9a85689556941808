----------------------------- MODULE MCCfrAtlas -----------------------------
EXTENDS CfrAtlas

CONSTANTS s1, s2

OneStream == [s \in {s1} |-> 1]
TwoLayers == [s \in {s1, s2} |-> IF s = s1 THEN 1 ELSE 2]

AnyPolicy == {Custom}
ShippedPolicies == {NeverAdmit, KeepRecent(1), Telemetry(4, 900, 500)}
=============================================================================
