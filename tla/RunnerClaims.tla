---------------------------- MODULE RunnerClaims ----------------------------
(* What a comment of executor.ts says and TLC finds not to be so.            *)
EXTENDS Runner

(* executor.ts:44-46: the "pre-Deployed states (Draft/Generating/Tested/   *)
(* Approved/Building/Retired) are not" firable.  The guard is read once;   *)
(* a call in progress makes such a state Running or Degraded.              *)
PreDeployedStaysOut ==
    [][state' \in {"Running", "Degraded"} => state \in Firable]_vars
=============================================================================
