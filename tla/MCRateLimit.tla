---------------------------- MODULE MCRateLimit ----------------------------
(* Small instances of RateLimit for TLC. *)
EXTENDS RateLimit, TLC

CONSTANTS a1, a2, t1, t2, alice, ALICE

TaskSymmetry == Permutations({t1, t2})

(* ALICE is alice in capitals.                                             *)
LowerNames == [n \in Names |-> alice]

=============================================================================
