------------------------------ MODULE MCImages ------------------------------
(* Two processes: a build of each way to record and to tag, and an update or *)
(* a removal that meets it.                                                  *)
EXTENDS ImageStore

Alike == Permutations(Proc)
=============================================================================
