--------------------------- MODULE MCTenantQuota ---------------------------
(* TenantQuota for TLC: all creates on one pod, or one create per pod and   *)
(* the others on the first.                                                *)
EXTENDS TenantQuota, TLC

CONSTANTS p1, p2, c1

OnePod == [c \in Creates |-> p1]
TwoPods == [c \in Creates |-> IF c = c1 THEN p2 ELSE p1]

Symmetry == Permutations(Creates)
PodSymmetry == Permutations(Creates \ {c1})
=============================================================================
