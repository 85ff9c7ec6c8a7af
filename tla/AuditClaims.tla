----------------------------- MODULE AuditClaims -----------------------------
(* What audit.ts says of concurrent records, and TLC finds not to be so.   *)
EXTENDS AuditChain

(* audit.ts:84-86: FOR UPDATE on the tail row "prevents two writers from   *)
(* reading the same prev_hash and inserting parallel branches".  A writer  *)
(* that waited gets the tail of its old snapshot; the lock of an empty     *)
(* chain locks nothing.                                                    *)
NoParallelBranches ==
    \A r, q \in log : r.tenant = q.tenant /\ r.prev = q.prev => r = q
=============================================================================
