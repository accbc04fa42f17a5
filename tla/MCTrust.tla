------------------------------ MODULE MCTrust ------------------------------
(* Two commands at once over two paths, with an inode for each of the two     *)
(* names and for each open file.                                              *)
EXTENDS TrustStore, TLC

MCSymmetry == Permutations(Proc) \cup Permutations(Ino) \cup Permutations(Key)

\* What a later step reads: not the map, inode or job of a command that is done with
\* them, nor the contents of an inode that nothing leads to.
JobView(p) == CASE pc[p] = "idle"                 -> <<>>
                [] job[p].op = "load"             -> <<job[p].key, job[p].text>>
                [] pc[p] \in Writing              -> <<"write">>
                [] job[p].op = "untrust"          -> <<job[p].op, job[p].key>>
                [] OTHER                          -> <<job[p].op, job[p].key, job[p].text>>

MCView ==
  <<store, tmp, pc, overlap, granted,
    [p \in Proc |-> JobView(p)],
    [p \in {q \in Proc : pc[q] \in {"opening", "writing"}} |-> copy[p]],
    [p \in Holders |-> fd[p]],
    [i \in Ino \cap ({store, tmp} \cup {fd[p] : p \in Holders}) |-> data[i]]>>
=============================================================================
