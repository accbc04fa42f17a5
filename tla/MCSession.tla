----------------------------- MODULE MCSession -----------------------------
(* One session: what sessions share is the listing, which reads each of them *)
(* on its own.                                                               *)
EXTENDS Session
=============================================================================
