---------------------------- MODULE MCAuditTamper ----------------------------
(* A small instance of AuditTamper for TLC: two writers for one tenant,    *)
(* one for the other.                                                      *)
EXTENDS AuditTamper, TLC

CONSTANTS t1, t2, w1, w2, w3

TwoAndOne == (w1 :> t1) @@ (w2 :> t1) @@ (w3 :> t2)

Symmetric == Permutations({w1, w2})
=============================================================================
