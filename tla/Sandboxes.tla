----------------------------- MODULE Sandboxes -----------------------------
(***************************************************************************)
(* The sandbox behind SandboxAPI: createSandboxExecutor                    *)
(* (packages/sandbox/src/factory.ts) takes, once for a process, either the *)
(* Docker executor (SandboxRun) or the E2B one (E2bRun).                   *)
(***************************************************************************)
EXTENDS SandboxRun, Sequences

CONSTANTS
    Validations,   \* calls of run of the E2B executor
    Fetches        \* bound: HTTP calls the code of each of them may make

ASSUME ValidationsAssumption == Validations \subseteq Nat \ {0}

VARIABLES
    provider,      \* which executor the process has
    run, vm, agent \* of E2bRun

E2b == INSTANCE E2bRun WITH Executions <- Validations, Calls <- Fetches

all == <<vars, provider, run, vm, agent>>

(* createSandboxExecutor: the environment decides.                         *)
createSandboxExecutor == provider \in {"docker", "e2b"}

EitherInit == Init /\ E2b!Init /\ createSandboxExecutor

EitherNext ==
    \/ provider = "docker" /\ Next /\ UNCHANGED <<provider, run, vm, agent>>
    \/ provider = "e2b" /\ E2b!Next /\ UNCHANGED <<provider, vars>>

EitherSpec == EitherInit /\ [][EitherNext]_all /\ Fairness /\ E2b!Fairness
-----------------------------------------------------------------------------
SandboxesTypeOK ==
    /\ TypeOK
    /\ provider \in {"docker", "e2b"}
    /\ run \in [Validations -> [pc : {"idle", "vm", "main", "wrapper", "command", "finally",
                                      "done", "threw"},
                                status : {"none", "succeeded", "failed", "timeout"},
                                egress : SUBSET Fetches,
                                code : {"none", "up", "zero", "nonzero", "killed"},
                                source : E2b!Vms, log : SUBSET Fetches,
                                stdout : Seq(SUBSET Fetches)]]
    /\ vm \in [E2b!Vms -> [state : {"none", "up", "gone"}, main : E2b!Vms]]
    /\ agent \in {"none", "start", "open", "closed"}
    /\ agent # "none" => \A d, e \in Validations :
            d # e => {run[d].pc, run[e].pc} \cap {"idle", "done"} # {}

(* Either executor, seen through the contract of SandboxAPI.               *)
Runs == ({"docker"} \X Executions) \cup ({"e2b"} \X Validations)

DockerEnded(e) == CASE container[e] = "zero"                  -> "well"
                    [] container[e] \in {"nonzero", "killed"} -> "badly"
                    [] OTHER                                  -> "no"

E2bEnded(e) == CASE run[e].code \in {"none", "up"}                   -> "no"
                 [] run[e].code = "zero" /\ run[e].source = e        -> "well"
                 [] OTHER                                            -> "badly"

(* Under E2B the process itself keeps the log: all that was printed.       *)
E2bTold(e) == UNION {run[e].stdout[i] : i \in DOMAIN run[e].stdout}

Contract == INSTANCE SandboxContract WITH
    Entries  <- (Calls \X Verdicts) \cup Fetches,
    ended    <- [r \in Runs |-> IF r[1] = "docker" THEN DockerEnded(r[2])
                                ELSE E2bEnded(r[2])],
    told     <- [r \in Runs |-> IF r[1] = "docker" THEN log[r[2]] ELSE E2bTold(r[2])],
    outcome  <- [r \in Runs |->
                    IF r[1] = "docker"
                    THEN IF pc[r[2]] = "threw" THEN "threw" ELSE status[r[2]]
                    ELSE IF run[r[2]].pc = "threw" THEN "threw" ELSE run[r[2]].status],
    reported <- [r \in Runs |->
                    IF r[1] = "docker" THEN egress[r[2]] ELSE run[r[2]].egress]

(* Both executors implement the contract: whatever fails on the way, an    *)
(* outcome never changes, a run is reported succeeded only if the code it  *)
(* was given, and not what an earlier one left in the VM, ended well, and  *)
(* its log holds only what the proxy recorded for this run or, under E2B,  *)
(* what its own process printed, be it the wrapper or the code.            *)
KeepsContract == Contract!Spec

(* Code that never ends does not keep a run: the Docker executor kills its *)
(* container, unless Docker refuses, the E2B one gives its command up,     *)
(* although the VM may be gone and killing it may fail.                    *)
EverySandboxEnds ==
    /\ EveryRunEnds
    /\ \A e \in Validations : run[e].pc = "vm" ~> run[e].pc = "done"
=============================================================================
