----------------------------- MODULE MCBrowser -----------------------------
(* One worker and two connections: the second one may be refused, or follow *)
(* the first on its slot.                                                   *)
EXTENDS BrowserProxy
=============================================================================
