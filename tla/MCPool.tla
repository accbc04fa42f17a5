------------------------------ MODULE MCPool -------------------------------
(* A resolver with more names than its pool holds, one of them local, and an  *)
(* interface table just large enough, beside two backlogs, an allowlist and a *)
(* connection table of one; no bytes flow.                                    *)
EXTENDS ProxyLoop
=============================================================================
