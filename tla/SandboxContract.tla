--------------------------- MODULE SandboxContract ---------------------------
(***************************************************************************)
(* What a caller of SandboxAPI.run may rely on, whoever implements it      *)
(* (packages/shared/src/types.ts): the code it handed over ends at most    *)
(* once, the outcome of a run never changes, succeeded means that this     *)
(* very code ended well, and the egress log holds only what the keeper of  *)
(* that log was told while the run was on.  Who keeps it differs: a proxy  *)
(* apart from the code, or the process in which the code runs.             *)
(***************************************************************************)
CONSTANTS
    Runs,       \* calls of run
    Entries     \* what an egress log may hold

VARIABLES
    ended,      \* how the code of each run ended
    told,       \* what the keeper of its egress log was told
    outcome,    \* what run returned, or that it threw
    reported    \* egress_calls of the result

vars == <<ended, told, outcome, reported>>

Init ==
    /\ ended = [r \in Runs |-> "no"]
    /\ told = [r \in Runs |-> {}]
    /\ outcome = [r \in Runs |-> "none"]
    /\ reported = [r \in Runs |-> {}]

(* The code of a run calls and ends, or that of all which share a machine. *)
GoOn ==
    /\ ended' \in [Runs -> {"no", "well", "badly"}]
    /\ \A r \in Runs : ended[r] # "no" => ended'[r] = ended[r]
    /\ told' \in [Runs -> SUBSET Entries]
    /\ \A r \in Runs : told[r] \subseteq told'[r]
    /\ UNCHANGED <<outcome, reported>>

(* failed and timeout say nothing about the code: it may even go on.       *)
Report(r) ==
    /\ outcome[r] = "none"
    /\ \E o \in {"succeeded", "failed", "timeout", "threw"} :
        /\ o = "succeeded" => ended[r] = "well"
        /\ outcome' = [outcome EXCEPT ![r] = o]
    /\ \E xs \in SUBSET told[r] : reported' = [reported EXCEPT ![r] = xs]
    /\ UNCHANGED <<ended, told>>

Next == GoOn \/ \E r \in Runs : Report(r)

Spec == Init /\ [][Next]_vars
=============================================================================
