------------------------------ MODULE AuditLog ------------------------------
(***************************************************************************)
(* What packages/db/src/audit.ts promises to its callers: one append-only  *)
(* list of events per tenant, in chain order (AuditLogger.list), to which  *)
(* a record adds one event at the end or, when it throws, nothing.         *)
(***************************************************************************)
EXTENDS Sequences

CONSTANTS Tenants, Bodies

VARIABLE chain

Init == chain = [t \in Tenants |-> <<>>]

Record(t, b) == chain' = [chain EXCEPT ![t] = Append(@, b)]

Next == \E t \in Tenants, b \in Bodies : Record(t, b)

Spec == Init /\ [][Next]_chain
=============================================================================
