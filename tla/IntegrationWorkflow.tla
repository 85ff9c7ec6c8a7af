------------------------- MODULE IntegrationWorkflow -------------------------
(***************************************************************************)
(* The lifecycle of one integration: the Temporal workflow                 *)
(* (packages/workflows/src/workflow.ts), the activities it calls           *)
(* (activities.ts), one database statement at a time, and the API requests *)
(* that start and signal it (packages/api/src/routes/integrations.ts).     *)
(*                                                                         *)
(* Temporal itself is external.  What the code relies on is modelled: an   *)
(* activity is attempted up to MaxAttempts times; an attempt ends by       *)
(* returning, by throwing, or by its start-to-close timeout, after which   *)
(* its code goes on running in the worker although nobody waits for it; a  *)
(* worker crash loses the attempts in progress; a signal is accepted only  *)
(* while the execution runs; a workflow id is reusable once it is closed.  *)
(***************************************************************************)
EXTENDS Naturals, Sequences, FiniteSets

CONSTANTS
    MaxExecs,      \* bound: how often the workflow is started (POST .../test)
    MaxAttempts,   \* retry.maximumAttempts, 3 in the code
    MaxLate        \* bound: timed-out attempts still running at one time

ASSUME ExecsAssumption    == MaxExecs \in Nat \ {0}
ASSUME AttemptsAssumption == MaxAttempts \in Nat \ {0}
ASSUME LateAssumption     == MaxLate \in Nat

VARIABLES
    state,      \* integrations.state of the row
    current,    \* integrations.current_version_id
    versions,   \* integration_versions: the rows of this integration
    runs,       \* runs: one possible row for each attempt of runSandbox
    audit,      \* audit_log: the events of the activities, without their order
    wf,         \* the Temporal execution: what it awaits and its locals
    running,    \* activity attempts whose code is running in the worker
    approvals,  \* history: versions the approve endpoint let through
    refused,    \* history: executions rejected before they passed the gate
    writer      \* history: the attempt that last wrote state

rows    == <<state, current, versions, runs>>
history == <<approvals, refused, writer>>
vars    == <<state, current, versions, runs, audit, wf, running, approvals,
             refused, writer>>
-----------------------------------------------------------------------------
(* Types *)

IntegrationState == {"Draft", "Generating", "Tested", "Approved", "Building",
                     "Deployed", "Running", "Degraded", "Retired"}
SandboxStatus    == {"succeeded", "failed", "timeout"}
RunStatus        == SandboxStatus \cup {"running"}

Execs     == 1 .. MaxExecs
Attempts  == 1 .. MaxAttempts
NoVersion == <<0, 0>>

(* A version row is named after the attempt of generateCode that inserted  *)
(* it, a run row after the attempt of runSandbox that created it.          *)
Versions  == Execs \X Attempts
RunIds    == Execs \X Attempts

(* The activity calls of the workflow.  updateIntegrationState is called   *)
(* with a state of its own each time, so the state names the call.         *)
StateCalls  == {"Generating", "Tested", "Draft", "Approved", "Building", "Deployed"}
Calls       == StateCalls \cup {"generateCode", "runSandbox", "buildImage",
                                "deployToRunner", "markFailed"}
BeforeGate  == {"Generating", "generateCode", "runSandbox", "Tested", "gate"}
DeployCalls == {"Approved", "Building", "buildImage", "deployToRunner", "Deployed"}

AttemptRecord == [exec : Execs, call : Calls, n : Attempts, step : 1 .. 4,
                  ver : Versions \cup {NoVersion},
                  result : SandboxStatus \cup {"none", "error"}]

(* Past the second statement of runSandbox the sandbox has answered.       *)
Attempt == {a \in AttemptRecord :
                a.call = "runSandbox" /\ a.step > 2 => a.result # "none"}

Events == {"integration.generated", "integration.tested", "integration.build",
           "integration.deployed", "integration.rejected"}

Execution == [exec : 0 .. MaxExecs, status : {"None", "Running", "Completed", "Failed"},
              call : Calls \cup {"gate"}, n : Attempts,
              generated : Versions \cup {NoVersion},
              captured  : Versions \cup {NoVersion},
              approved  : Versions \cup {NoVersion},
              rejected  : BOOLEAN]
-----------------------------------------------------------------------------
(* Mutant of Body: deployToRunner sets Deployed before it pins.            *)
BodyStateBeforePin(call) ==
    CASE call = "generateCode"   -> <<"insert", "audit">>
      [] call = "runSandbox"     -> <<"create", "sandbox", "finish", "audit">>
      [] call = "buildImage"     -> <<"audit">>
      [] call = "deployToRunner" -> <<"state", "pin", "audit">>
      [] call = "markFailed"     -> <<"mark", "audit">>
      [] OTHER                   -> <<"state">>

(* The statements of each activity that touch stored state, in the order   *)
(* the code awaits them.                                                   *)
Body(call) ==
    CASE call = "generateCode"   -> <<"insert", "audit">>
      [] call = "runSandbox"     -> <<"create", "sandbox", "finish", "audit">>
      [] call = "buildImage"     -> <<"audit">>
      [] call = "deployToRunner" -> <<"pin", "state", "audit">>
      [] call = "markFailed"     -> <<"mark", "audit">>
      [] OTHER                   -> <<"state">>

Begin(exec, call, n, ver) ==
    [exec |-> exec, call |-> call, n |-> n, step |-> 1, ver |-> ver,
     result |-> "none"]

(* The attempt the server is waiting for; every other one is late.         *)
Live(a) == /\ wf.status = "Running"
           /\ a.exec = wf.exec /\ a.call = wf.call /\ a.n = wf.n

At(a, stmt) == /\ a \in running
               /\ a.step <= Len(Body(a.call))
               /\ Body(a.call)[a.step] = stmt

(* Mutant of NextCall: a sandbox run that timed out counts as passed.      *)
NextCallTimeoutPasses(a) ==
    CASE a.call = "Generating"     -> "generateCode"
      [] a.call = "generateCode"   -> "runSandbox"
      [] a.call = "runSandbox"     -> IF a.result = "failed" THEN "Draft" ELSE "Tested"
      [] a.call = "Tested"         -> "gate"
      [] a.call = "Approved"       -> "Building"
      [] a.call = "Building"       -> "buildImage"
      [] a.call = "buildImage"     -> "deployToRunner"
      [] a.call = "deployToRunner" -> "Deployed"
      [] OTHER                     -> "close"

(* Mutant of NextCall: a failed test returns without the reset to Draft.   *)
NextCallNoReset(a) ==
    IF a.call = "runSandbox" /\ a.result # "succeeded"
    THEN "close" ELSE NextCallTimeoutPasses(a)

(* The await that follows a completed call; gate and close are not calls.  *)
NextCall(a) ==
    CASE a.call = "Generating"     -> "generateCode"
      [] a.call = "generateCode"   -> "runSandbox"
      [] a.call = "runSandbox"     -> IF a.result = "succeeded" THEN "Tested" ELSE "Draft"
      [] a.call = "Tested"         -> "gate"
      [] a.call = "Approved"       -> "Building"
      [] a.call = "Building"       -> "buildImage"
      [] a.call = "buildImage"     -> "deployToRunner"
      [] a.call = "deployToRunner" -> "Deployed"
      [] OTHER                     -> "close"

(* Mutant of Argument: the approved version is read anew for each call.    *)
ArgumentNotCaptured(w, call) ==
    CASE call = "runSandbox"                      -> w.generated
      [] call \in {"buildImage", "deployToRunner"} -> w.approved
      [] OTHER                                     -> NoVersion

Argument(w, call) ==
    CASE call = "runSandbox"                      -> w.generated
      [] call \in {"buildImage", "deployToRunner"} -> w.captured
      [] OTHER                                     -> NoVersion

(* The workflow awaits call: the server dispatches its first attempt.      *)
Await(w, call, others) ==
    /\ wf' = [w EXCEPT !.call = call, !.n = 1]
    /\ running' = others \cup {Begin(w.exec, call, 1, Argument(w, call))}

(* Attempt a returned: the workflow goes on if it was waiting for it.      *)
Return(a) ==
    LET w == IF a.call = "generateCode"
             THEN [wf EXCEPT !.generated = <<a.exec, a.n>>] ELSE wf
    IN  IF ~Live(a)
        THEN running' = running \ {a} /\ UNCHANGED wf
        ELSE \/ /\ NextCall(a) \in Calls
                /\ Await(w, NextCall(a), running \ {a})
             \/ /\ NextCall(a) = "gate"
                /\ wf' = [w EXCEPT !.call = "gate"]
                /\ running' = running \ {a}
             \/ /\ NextCall(a) = "close"
                /\ wf' = [w EXCEPT !.status =
                            IF a.call = "markFailed" THEN "Failed" ELSE "Completed"]
                /\ running' = running \ {a}

(* Attempt a has executed its statement; b is a with its results.  After   *)
(* the last one it returns, or the worker dies before it has reported.     *)
Proceed(a, b) ==
    IF a.step = Len(Body(a.call))
    THEN \/ Return(a)
         \/ running' = running \ {a} /\ UNCHANGED wf
    ELSE /\ running' = (running \ {a}) \cup {[b EXCEPT !.step = a.step + 1]}
         /\ UNCHANGED wf

(* Mutant of Retry: one attempt more than maximumAttempts.                 *)
RetryOnceMore(remaining) ==
    /\ wf.n <= MaxAttempts
    /\ wf' = [wf EXCEPT !.n = @ + 1]
    /\ running' = remaining \cup
            {Begin(wf.exec, wf.call, wf.n + 1, Argument(wf, wf.call))}

(* The awaited attempt is over without a result; remaining is what still   *)
(* runs.  It is retried, or the activity fails: the catch block calls      *)
(* markFailed, and if that was what failed, the execution fails with it.   *)
Retry(remaining) ==
    IF wf.n < MaxAttempts
    THEN /\ wf' = [wf EXCEPT !.n = @ + 1]
         /\ running' = remaining \cup
                {Begin(wf.exec, wf.call, wf.n + 1, Argument(wf, wf.call))}
    ELSE \/ /\ wf.call # "markFailed"
            /\ Await(wf, "markFailed", remaining)
         \/ /\ wf.call = "markFailed"
            /\ wf' = [wf EXCEPT !.status = "Failed"]
            /\ running' = remaining

(* Attempt a throws.                                                       *)
Throw(a) ==
    IF Live(a) THEN Retry(running \ {a})
               ELSE running' = running \ {a} /\ UNCHANGED wf
-----------------------------------------------------------------------------
(* Statements of the activities *)

SetState(a, s) == /\ state' = s
                  /\ writer' = [exec |-> a.exec, late |-> ~Live(a)]

(* updateIntegrationState, and the second write of deployToRunner.         *)
WriteState(a) ==
    /\ At(a, "state")
    /\ SetState(a, IF a.call = "deployToRunner" THEN "Deployed" ELSE a.call)
    /\ Proceed(a, a)
    /\ UNCHANGED <<current, versions, runs, audit, approvals, refused>>

(* markFailed: the write of Draft is best-effort, its error is swallowed.  *)
MarkDraft(a) ==
    /\ At(a, "mark")
    /\ \/ SetState(a, "Draft")
       \/ UNCHANGED <<state, writer>>
    /\ Proceed(a, a)
    /\ UNCHANGED <<current, versions, runs, audit, approvals, refused>>

(* generateCode: createIntegrationVersion after the agent answered.        *)
InsertVersion(a) ==
    /\ At(a, "insert")
    /\ versions' = versions \cup {<<a.exec, a.n>>}
    /\ Proceed(a, a)
    /\ UNCHANGED <<state, current, runs, audit, history>>

(* runSandbox: the version and its secrets were read, the run row appears. *)
CreateRun(a) ==
    /\ At(a, "create")
    /\ runs' = [runs EXCEPT ![<<a.exec, a.n>>] = [version |-> a.ver, status |-> "running"]]
    /\ Proceed(a, a)
    /\ UNCHANGED <<state, current, versions, audit, history>>

(* sandbox.run answers with a status, or throws.                           *)
RunInSandbox(a) ==
    /\ At(a, "sandbox")
    /\ \E r \in SandboxStatus \cup {"error"} : Proceed(a, [a EXCEPT !.result = r])
    /\ UNCHANGED <<rows, audit, history>>

(* updateRun: the result, or failed and the error is thrown again.         *)
FinishRun(a) ==
    /\ At(a, "finish")
    /\ runs' = [runs EXCEPT ![<<a.exec, a.n>>].status =
                    IF a.result = "error" THEN "failed" ELSE a.result]
    /\ IF a.result = "error" THEN Throw(a) ELSE Proceed(a, a)
    /\ UNCHANGED <<state, current, versions, audit, history>>

(* deployToRunner: setCurrentVersion, a statement of its own.              *)
Pin(a) ==
    /\ At(a, "pin")
    /\ current' = a.ver
    /\ Proceed(a, a)
    /\ UNCHANGED <<state, versions, runs, audit, history>>

(* integration.build stands for the event integration.deployed with phase  *)
(* build, which is what buildImage records.                                *)
AuditEvent(a) ==
    CASE a.call = "generateCode"   -> <<"integration.generated", a.exec, <<a.exec, a.n>>>>
      [] a.call = "runSandbox"     -> <<"integration.tested", a.exec, a.ver>>
      [] a.call = "buildImage"     -> <<"integration.build", a.exec, a.ver>>
      [] a.call = "deployToRunner" -> <<"integration.deployed", a.exec, a.ver>>
      [] OTHER                     -> <<"integration.rejected", a.exec, NoVersion>>

(* audit.record ends every activity that has one.                          *)
RecordAudit(a) ==
    /\ At(a, "audit")
    /\ audit' = audit \cup {AuditEvent(a)}
    /\ Proceed(a, a)
    /\ UNCHANGED <<rows, history>>

Statement(a) == \/ WriteState(a) \/ MarkDraft(a) \/ InsertVersion(a)
                \/ CreateRun(a) \/ RunInSandbox(a) \/ FinishRun(a)
                \/ Pin(a) \/ RecordAudit(a)

(* A statement, the agent or a read before it throws: nothing is written.  *)
StatementFails(a) ==
    /\ a \in running
    /\ ~At(a, "mark") /\ ~At(a, "sandbox")
    /\ Throw(a)
    /\ UNCHANGED <<rows, audit, history>>

-----------------------------------------------------------------------------
(* Temporal *)

(* The start-to-close timeout of the awaited attempt.  If its code is      *)
(* still running it goes on as a late attempt.                             *)
AttemptTimesOut ==
    /\ wf.status = "Running" /\ wf.call # "gate"
    /\ (\E a \in running : Live(a)) => Cardinality(running) <= MaxLate
    /\ Retry(running)
    /\ UNCHANGED <<rows, audit, history>>

(* The worker process dies, and with it every attempt in progress.         *)
WorkerCrash ==
    /\ running # {}
    /\ running' = {}
    /\ UNCHANGED <<rows, audit, wf, history>>

(* Mutant of PassGate: an approval wins over a rejection.                  *)
PassGateApprovalFirst(w) ==
    IF w.approved = NoVersion THEN Await(w, "Draft", running)
    ELSE Await([w EXCEPT !.captured = w.approved], "Approved", running)

(* The workflow leaves condition(...): a signal satisfied it, or its timer *)
(* of 24 hours fired.  A rejection wins, no approval means a timeout.      *)
PassGate(w) ==
    \/ /\ w.rejected
       /\ Await(w, "Draft", running)
    \/ /\ ~w.rejected /\ w.approved = NoVersion
       /\ Await(w, "Draft", running)
    \/ /\ ~w.rejected /\ w.approved # NoVersion
       /\ Await([w EXCEPT !.captured = w.approved], "Approved", running)

Decided(w) == w.approved # NoVersion \/ w.rejected

AtGate == wf.status = "Running" /\ wf.call = "gate"

Decide ==
    /\ AtGate
    /\ Decided(wf)
    /\ PassGate(wf)
    /\ UNCHANGED <<rows, audit, history>>

(* Mutant of GateTimesOut: when the timer fires, nobody looks at the       *)
(* approval any more.                                                      *)
GateTimesOutBlindly ==
    /\ AtGate
    /\ Await(wf, "Draft", running)
    /\ UNCHANGED <<rows, audit, history>>

(* Mutant of GateTimesOut: condition without a timeout.                    *)
GateNeverTimesOut ==
    /\ AtGate /\ Decided(wf)
    /\ PassGate(wf)
    /\ UNCHANGED <<rows, audit, history>>

GateTimesOut ==
    /\ AtGate
    /\ PassGate(wf)
    /\ UNCHANGED <<rows, audit, history>>
-----------------------------------------------------------------------------
(* API requests.  Each one acts on the workflow; the event it then records *)
(* is not needed by any property here (module AuditChain models record).   *)

(* POST .../test: refused by Temporal while an execution is running.       *)
Test ==
    /\ wf.status # "Running"
    /\ wf.exec < MaxExecs
    /\ Await([exec |-> wf.exec + 1, status |-> "Running", call |-> "Generating",
              n |-> 1, generated |-> NoVersion, captured |-> NoVersion,
              approved |-> NoVersion, rejected |-> FALSE],
             "Generating", running)
    /\ UNCHANGED <<rows, audit, history>>

(* POST .../approve: any version of this integration, in any state.        *)
Approve(v) ==
    /\ v \in versions
    /\ wf.status = "Running"
    /\ wf' = [wf EXCEPT !.approved = v]
    /\ approvals' = approvals \cup {v}
    /\ UNCHANGED <<rows, audit, running, refused, writer>>

(* POST .../reject                                                         *)
Reject ==
    /\ wf.status = "Running"
    /\ wf' = [wf EXCEPT !.rejected = TRUE]
    /\ refused' = IF wf.captured = NoVersion THEN refused \cup {wf.exec} ELSE refused
    /\ UNCHANGED <<rows, audit, running, approvals, writer>>

(* POST .../deploy sets a flag that the workflow only logs: no action here. *)
-----------------------------------------------------------------------------
(* The integration was created: a Draft row without a version.             *)
Init ==
    /\ state = "Draft" /\ current = NoVersion
    /\ versions = {}
    /\ runs = [r \in RunIds |-> [version |-> NoVersion, status |-> "absent"]]
    /\ audit = {}
    /\ wf = [exec |-> 0, status |-> "None", call |-> "Generating", n |-> 1,
             generated |-> NoVersion, captured |-> NoVersion,
             approved |-> NoVersion, rejected |-> FALSE]
    /\ running = {}
    /\ approvals = {} /\ refused = {}
    /\ writer = [exec |-> 0, late |-> FALSE]

WorkerStep == \E a \in running : Statement(a) \/ StatementFails(a)
Timer      == AttemptTimesOut \/ GateTimesOut
Request    == Test \/ (\E v \in versions : Approve(v)) \/ Reject

Next == WorkerStep \/ Timer \/ WorkerCrash \/ Decide \/ Request

Spec == Init /\ [][Next]_vars

(* The worker keeps executing the attempt that is awaited, Temporal fires  *)
(* its timers and wakes the workflow; users owe nothing.                   *)
LiveStep == \E a \in running : Live(a) /\ (Statement(a) \/ StatementFails(a))

Fairness == WF_vars(LiveStep) /\ WF_vars(Timer) /\ WF_vars(Decide)

FairSpec == Spec /\ Fairness
-----------------------------------------------------------------------------
TypeOK ==
    /\ state \in IntegrationState
    /\ current \in Versions \cup {NoVersion}
    /\ versions \subseteq Versions
    /\ runs \in [RunIds -> [version : Versions \cup {NoVersion},
                            status : RunStatus \cup {"absent"}]]
    /\ audit \subseteq Events \X Execs \X (Versions \cup {NoVersion})
    /\ wf \in Execution
    /\ running \subseteq Attempt
    /\ approvals \subseteq Versions
    /\ refused \subseteq Execs
    /\ writer \in [exec : 0 .. MaxExecs, late : BOOLEAN]

Built(v, log) == \E e \in Execs : <<"integration.build", e, v>> \in log

(* Whatever attempts are retried, late or lost, the version pointer only   *)
(* ever holds a version that a user approved and for which buildImage      *)
(* recorded a build (workflow.ts captures the approved version once and    *)
(* passes it to buildImage and then to deployToRunner).                    *)
PinnedWasApprovedAndBuilt ==
    current # NoVersion => current \in approvals /\ Built(current, audit)

(* The runner never sees a Deployed integration without a version to fire: *)
(* deployToRunner pins before it sets the state.                           *)
DeployedIsPinned == state = "Deployed" => current # NoVersion

(* An execution that was rejected before it left the approval gate never   *)
(* starts any part of a deployment, whatever approvals came with it: a     *)
(* rejection wins.                                                         *)
RefusedNeverDeploys ==
    \A a \in running : a.exec \in refused => a.call \notin DeployCalls

(* An integration shown as Tested has a succeeded sandbox run of a version *)
(* that the execution which wrote Tested generated.                        *)
TestedHasPassingRun ==
    state = "Tested" =>
        \E n \in Attempts :
            LET r == runs[<<writer.exec, n>>]
            IN  r.status = "succeeded" /\ r.version[1] = writer.exec

(* A completed execution leaves the row in Draft or Deployed, the latter   *)
(* with the deployment in the audit log, unless a late attempt wrote last. *)
CompletedIsSettled ==
    wf.status = "Completed" /\ ~writer.late =>
        \/ state = "Draft"
        \/ state = "Deployed" /\ <<"integration.deployed", wf.exec, wf.captured>> \in audit

(* The induction behind PinnedWasApprovedAndBuilt and RefusedNeverDeploys: *)
(* versions on their way to the pointer were approved, and were built once *)
(* they reach deployToRunner; nothing of a deployment exists before the    *)
(* gate captured a version; a refused execution stays before that point.   *)
ExecutionOnTrail(w, log) ==
    /\ {w.approved, w.captured} \subseteq approvals \cup {NoVersion}
    /\ w.status = "Running" =>
         /\ w.call \in BeforeGate => w.captured = NoVersion
         /\ w.call \in DeployCalls => w.captured # NoVersion /\ w.exec \notin refused
         /\ w.call = "deployToRunner" => Built(w.captured, log)
         /\ w.exec \in refused => w.rejected /\ w.captured = NoVersion

AttemptOnTrail(a, w, log) ==
    /\ a.exec <= w.exec
    /\ a.call \in DeployCalls =>
         a.exec \notin refused /\ (a.exec = w.exec => w.captured # NoVersion)
    /\ a.call \in {"buildImage", "deployToRunner"} =>
         a.ver \in approvals /\ (a.exec = w.exec => a.ver = w.captured)
    /\ a.call = "deployToRunner" => Built(a.ver, log)

ApprovalTrail ==
    /\ ExecutionOnTrail(wf, audit)
    /\ \A a \in running : AttemptOnTrail(a, wf, audit)
    /\ \A e \in refused : e <= wf.exec
    /\ PinnedWasApprovedAndBuilt

(* A user's approval is never mistaken for a timeout, even if it arrived   *)
(* before the tests were over: the gate goes to Draft only for a rejection *)
(* or when there is no approval.                                           *)
ApprovalIsNotDropped ==
    [][AtGate /\ wf.approved # NoVersion /\ ~wf.rejected
        => wf'.call \in {"gate", "Approved"}]_vars

(* Every started execution is closed in the end: no lost attempt, crash or *)
(* absent user keeps it open.                                              *)
EveryExecutionCloses == wf.status = "Running" ~> wf.status # "Running"
=============================================================================
