------------------------------- MODULE MCAudit -------------------------------
(* Small instances of AuditChain, and of the claims about it, for TLC.     *)
EXTENDS AuditClaims, TLC

CONSTANTS t1, t2, w1, w2, w3

OneTenant == [w \in Writers |-> t1]
TwoAndOne == (w1 :> t1) @@ (w2 :> t1) @@ (w3 :> t2)
OneEach   == (w1 :> t1) @@ (w2 :> t2)
=============================================================================
