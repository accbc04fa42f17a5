------------------------------ MODULE MCConn -------------------------------
(* A guest that talks to one backlog only, whichever: one listener in it and *)
(* one spare handle, so one connection and the listener that replaces it.    *)
EXTENDS ProxyLoop

FirstHandle == CHOOSE h \in Handle : TRUE
OnePort == \E p \in Port : InitWith([h \in Handle |-> IF h = FirstHandle THEN p ELSE "none"])

OnePortSpec == OnePort /\ [][Next]_vars
FairOnePortSpec == OnePortSpec /\ Fairness
=============================================================================
