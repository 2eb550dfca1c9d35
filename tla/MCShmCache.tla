----------------------------- MODULE MCShmCache -----------------------------
(* One XID more than the cache has entries, and two segments; the guess for *)
(* every XID is the second segment, so that it is right for some frames and *)
(* wrong for others.  Nothing tells the XIDs apart.                         *)
EXTENDS ShmCache, TLC
CONSTANTS x1, x2, x3, s1, s2
MCXid == {x1, x2, x3}
MCShmid == {s1, s2}
MCLowBits == [x \in MCXid |-> s2]
MCSymmetry == Permutations(MCXid)
=============================================================================
