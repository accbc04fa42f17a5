---------------------------- MODULE TrustRecord ----------------------------
(* What the trust store promises: a record of one text for each trusted path, *)
(* changed by one grant or one revocation at a time.                          *)
CONSTANTS Key, Text
VARIABLE trusted

Without(k) == {x \in trusted : x[1] # k}

Grant(k, t) == trusted' = Without(k) \cup {<<k, t>>}
Revoke(k)   == trusted' = Without(k)

Init == trusted = {}
Next == \E k \in Key : Revoke(k) \/ \E t \in Text : Grant(k, t)

Spec == Init /\ [][Next]_trusted
=============================================================================
