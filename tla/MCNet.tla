------------------------------- MODULE MCNet --------------------------------
(* Three frames out and two in; the send buffer holds one of the larger       *)
(* frames, so that a second finds room for a part, or for nothing.           *)
EXTENDS NetDevice
=============================================================================
