------------------------------- MODULE Runner -------------------------------
(***************************************************************************)
(* Fires of one deployed integration (packages/runner/src/executor.ts),    *)
(* one awaited statement at a time, from any number of triggers at once,   *)
(* while its workflow takes the same row through further versions.         *)
(*                                                                         *)
(* The workflow is reduced to its own writes of the row and of runs and to *)
(* the approval they follow; its retries and late attempts are in module   *)
(* IntegrationWorkflow.                                                    *)
(***************************************************************************)
EXTENDS Naturals, Sequences, FiniteSets

CONSTANTS
    MaxFires,     \* bound: calls of fireIntegration, one after the other
    MaxBusy,      \* bound: calls of it when they overlap
    MaxOverlap,   \* bound: calls in progress at one time
    MaxCycles,    \* bound: executions of the workflow, each with a version
    MaxWork       \* bound: overlapping calls and executions, taken together

ASSUME RunnerAssumption ==
    /\ MaxFires \in Nat /\ MaxBusy \in 0 .. MaxFires
    /\ MaxOverlap \in Nat /\ MaxCycles \in Nat \ {0} /\ MaxWork \in Nat

VARIABLES
    quiet,      \* which of the two scenarios of Init this is
    state,      \* integrations.state
    current,    \* integrations.current_version_id; 0 is null
    cycle,      \* the workflow: its next step, version, test row, approval
    approved,   \* history: versions that were approved at the gate
    runs,       \* runs of the integration, oldest started_at first
    fires       \* the calls of fireIntegration

flow == <<current, cycle, approved>>
vars == <<quiet, state, flow, runs, fires>>

Fires    == 1 .. MaxFires
Versions == 1 .. MaxCycles
Firable  == {"Deployed", "Running", "Degraded"}
Results  == {"succeeded", "failed", "timeout"}

(* The awaits of fireIntegration, in order; error is a throw of the        *)
(* sandbox, "gone" a call that was refused, threw or died with the runner. *)
Steps == {"idle", "read", "stamp", "insert", "sandbox", "finish", "audit",
          "judge", "promote", "recheck", "degrade", "done", "gone"}

Over(f) == fires[f].pc \in {"idle", "done", "gone"}

(* The steps of the workflow, in order.                                    *)
Phases == {"none", "test", "testing", "passed", "failed", "gate", "build", "pin",
           "deploy", "settle"}

(* A row stamped with started_at that is not inserted yet is absent.       *)
Row(f, version, status) == [fire |-> f, version |-> version, status |-> status]

Visible == {i \in DOMAIN runs : runs[i].status # "absent"}

(* listRunsForIntegration(...).slice(0, 3)                                 *)
Recent == {i \in Visible : Cardinality({j \in Visible : j > i}) < 3}

(* Mutant of ThreeBad: a run that timed out does not count.                *)
ThreeFailed == Cardinality(Recent) = 3 /\ \A i \in Recent : runs[i].status = "failed"

ThreeBad == Cardinality(Recent) = 3 /\ \A i \in Recent : runs[i].status # "succeeded"

GoTo(f, pc) == fires' = [fires EXCEPT ![f].pc = pc]
-----------------------------------------------------------------------------
(* fireIntegration *)

(* A trigger calls it: cron, webhook or sftp.                              *)
Trigger(f) ==
    /\ fires[f].pc = "idle"
    /\ \A g \in 1 .. f - 1 : fires[g].pc # "idle"
    /\ IF quiet THEN \A g \in Fires : Over(g)
       ELSE /\ f <= MaxBusy /\ f + cycle.version <= MaxWork
            /\ Cardinality({g \in Fires : ~Over(g)}) < MaxOverlap
    /\ GoTo(f, "read")
    /\ UNCHANGED <<quiet, state, flow, runs>>

(* Mutants of Read: without the guards; with the version of the workflow   *)
(* instead of the pinned one.                                              *)
ReadUnguarded(f) ==
    /\ fires[f].pc = "read"
    /\ fires' = [fires EXCEPT ![f].pc = "stamp", ![f].seen = state, ![f].version = current]
    /\ UNCHANGED <<quiet, state, flow, runs>>

ReadNewest(f) ==
    /\ fires[f].pc = "read" /\ state \in Firable
    /\ fires' = [fires EXCEPT ![f].pc = "stamp", ![f].seen = state,
                              ![f].version = cycle.version]
    /\ UNCHANGED <<quiet, state, flow, runs>>

(* getIntegration and its guards: what was seen is kept until the end; for *)
(* the record, amid says whether an execution of the workflow was open.    *)
Read(f) ==
    /\ fires[f].pc = "read"
    /\ fires' = [fires EXCEPT ![f] =
                    IF state \in Firable /\ current # 0
                    THEN [@ EXCEPT !.pc = "stamp", !.seen = state, !.version = current,
                                   !.amid = cycle.pc # "none"]
                    ELSE [@ EXCEPT !.pc = "gone"]]
    /\ UNCHANGED <<quiet, state, flow, runs>>

(* The version and its secrets were read; createRun takes started_at.      *)
Stamp(f) ==
    /\ fires[f].pc = "stamp"
    /\ runs' = Append(runs, Row(f, fires[f].version, "absent"))
    /\ GoTo(f, "insert")
    /\ UNCHANGED <<quiet, state, flow>>

SetStatus(f, status) ==
    runs' = [i \in DOMAIN runs |->
                IF runs[i].fire = f THEN [runs[i] EXCEPT !.status = status] ELSE runs[i]]

Insert(f) ==
    /\ fires[f].pc = "insert"
    /\ SetStatus(f, "running")
    /\ GoTo(f, "sandbox")
    /\ UNCHANGED <<quiet, state, flow>>

(* Mutant of Sandbox: a failure goes to the audit past updateRun.          *)
SandboxSkipsUpdate(f) ==
    /\ fires[f].pc = "sandbox"
    /\ \E r \in Results :
        fires' = [fires EXCEPT ![f].pc = IF r = "failed" THEN "audit" ELSE "finish",
                              ![f].result = r]
    /\ UNCHANGED <<quiet, state, flow, runs>>

(* sandbox.run answers; a throw is handled like a failed run from here on. *)
Sandbox(f) ==
    /\ fires[f].pc = "sandbox"
    /\ \E r \in Results :
        fires' = [fires EXCEPT ![f].pc = "finish", ![f].result = r]
    /\ UNCHANGED <<quiet, state, flow, runs>>

(* updateRun                                                               *)
Finish(f) ==
    /\ fires[f].pc = "finish"
    /\ SetStatus(f, fires[f].result)
    /\ GoTo(f, "audit")
    /\ UNCHANGED <<quiet, state, flow>>

(* Mutant of Audit: only a Degraded integration is promoted.               *)
AuditPromotesDegraded(f) ==
    /\ fires[f].pc = "audit"
    /\ GoTo(f, IF fires[f].result # "succeeded" THEN "judge"
               ELSE IF fires[f].seen = "Degraded" THEN "promote" ELSE "done")
    /\ UNCHANGED <<quiet, state, flow, runs>>

(* audit.record of integration.run; then the path depends on the result.   *)
Audit(f) ==
    /\ fires[f].pc = "audit"
    /\ GoTo(f, IF fires[f].result # "succeeded" THEN "judge"
               ELSE IF fires[f].seen # "Running" THEN "promote" ELSE "done")
    /\ UNCHANGED <<quiet, state, flow, runs>>

Promote(f) ==
    /\ fires[f].pc = "promote"
    /\ state' = "Running"
    /\ GoTo(f, "done")
    /\ UNCHANGED <<quiet, flow, runs>>

(* maybeDegrade: the list of runs, the state, the write.                   *)
Judge(f) ==
    /\ fires[f].pc = "judge"
    /\ GoTo(f, IF ThreeBad THEN "recheck" ELSE "done")
    /\ UNCHANGED <<quiet, state, flow, runs>>

Recheck(f) ==
    /\ fires[f].pc = "recheck"
    /\ GoTo(f, IF state # "Degraded" THEN "degrade" ELSE "done")
    /\ UNCHANGED <<quiet, state, flow, runs>>

Degrade(f) ==
    /\ fires[f].pc = "degrade"
    /\ state' = "Degraded"
    /\ GoTo(f, "done")
    /\ UNCHANGED <<quiet, flow, runs>>

FireStep(f) == \/ Read(f) \/ Stamp(f) \/ Insert(f) \/ Sandbox(f) \/ Finish(f)
               \/ Audit(f) \/ Promote(f) \/ Judge(f) \/ Recheck(f) \/ Degrade(f)

(* A statement throws, or the runner dies, at any await.                   *)
Throws(f) ==
    /\ ~Over(f)
    /\ GoTo(f, "gone")
    /\ UNCHANGED <<quiet, state, flow, runs>>

RunnerCrash ==
    /\ \E f \in Fires : ~Over(f)
    /\ fires' = [f \in Fires |-> IF Over(f) THEN fires[f] ELSE [fires[f] EXCEPT !.pc = "gone"]]
    /\ UNCHANGED <<quiet, state, flow, runs>>
-----------------------------------------------------------------------------
(* The workflow of the same integration *)

Step(pc) == cycle' = [cycle EXCEPT !.pc = pc]

NoCycle(version) == [pc |-> "none", version |-> version, captured |-> 0, row |-> 0]

(* generateCode has inserted a version.                                    *)
Begin ==
    /\ cycle.pc = "none"
    /\ cycle.version < MaxCycles
    /\ \A f \in Fires : f + cycle.version >= MaxWork => fires[f].pc = "idle"
    /\ cycle' = [NoCycle(cycle.version + 1) EXCEPT !.pc = "test"]
    /\ state' = "Generating"
    /\ UNCHANGED <<quiet, current, approved, runs, fires>>

(* runSandbox: createRun with status running.                              *)
TestStarts ==
    /\ cycle.pc = "test"
    /\ runs' = Append(runs, Row(0, cycle.version, "running"))
    /\ cycle' = [cycle EXCEPT !.pc = "testing", !.row = Len(runs) + 1]
    /\ UNCHANGED <<quiet, state, current, approved, fires>>

(* The sandbox answered: updateRun.                                        *)
TestEnds ==
    /\ cycle.pc = "testing"
    /\ \E r \in Results :
        /\ runs' = [runs EXCEPT ![cycle.row].status = r]
        /\ Step(IF r = "succeeded" THEN "passed" ELSE "failed")
    /\ UNCHANGED <<quiet, state, current, approved, fires>>

WriteTested ==
    /\ cycle.pc = "passed"
    /\ state' = "Tested"
    /\ Step("gate")
    /\ UNCHANGED <<quiet, current, approved, runs, fires>>

(* An approval of any version there is, the tested one or not; what it     *)
(* says is captured.                                                       *)
Gate ==
    /\ cycle.pc = "gate"
    /\ \E v \in 1 .. cycle.version :
        /\ cycle' = [cycle EXCEPT !.pc = "build", !.captured = v]
        /\ approved' = approved \cup {v}
    /\ state' = "Approved"
    /\ UNCHANGED <<quiet, current, runs, fires>>

Build ==
    /\ cycle.pc = "build"
    /\ state' = "Building"
    /\ Step("pin")
    /\ UNCHANGED <<quiet, current, approved, runs, fires>>

(* deployToRunner: two statements, of which this is the first.             *)
PinVersion ==
    /\ cycle.pc = "pin"
    /\ current' = cycle.captured
    /\ Step("deploy")
    /\ UNCHANGED <<quiet, state, approved, runs, fires>>

Deploy ==
    /\ cycle.pc = "deploy"
    /\ state' = "Deployed"
    /\ Step("settle")
    /\ UNCHANGED <<quiet, current, approved, runs, fires>>

(* The workflow writes Deployed once more, over what fires have made of it *)
(* since.                                                                  *)
Settle ==
    /\ cycle.pc = "settle"
    /\ state' = "Deployed"
    /\ cycle' = NoCycle(cycle.version)
    /\ UNCHANGED <<quiet, current, approved, runs, fires>>

(* A bad test, a rejection, a timeout at the gate, an activity that failed *)
(* for good: Draft, unless that write fails and markFailed's does, too.    *)
GiveUp ==
    /\ cycle.pc # "none"
    /\ state' \in {"Draft", state}
    /\ cycle' = NoCycle(cycle.version)
    /\ UNCHANGED <<quiet, current, approved, runs, fires>>

Workflow == \/ Begin \/ TestStarts \/ TestEnds \/ WriteTested \/ Gate \/ Build
            \/ PinVersion \/ Deploy \/ Settle \/ GiveUp
-----------------------------------------------------------------------------
NoFire == [pc |-> "idle", seen |-> "Deployed", version |-> 0, result |-> "failed",
           amid |-> FALSE]

(* Anything may happen to a new integration, or (quiet) the first version  *)
(* is deployed, triggers come one at a time and nothing else happens.      *)
Init ==
    /\ quiet \in BOOLEAN
    /\ state = IF quiet THEN "Deployed" ELSE "Draft"
    /\ cycle = NoCycle(IF quiet THEN 1 ELSE 0)
    /\ current = cycle.version
    /\ approved = IF quiet THEN {1} ELSE {}
    /\ runs = IF quiet THEN <<Row(0, 1, "succeeded")>> ELSE <<>>
    /\ fires = [f \in Fires |-> NoFire]

Next == \/ \E f \in Fires : Trigger(f) \/ FireStep(f)
        \/ /\ ~quiet
           /\ RunnerCrash \/ Workflow \/ \E f \in Fires : Throws(f)

Spec == Init /\ [][Next]_vars
-----------------------------------------------------------------------------
TypeOK ==
    /\ quiet \in BOOLEAN
    /\ state \in Firable \cup {"Draft", "Generating", "Tested", "Approved", "Building"}
    /\ current \in Versions \cup {0}
    /\ cycle \in [pc : Phases, version : Versions \cup {0},
                  captured : Versions \cup {0}, row : Nat]
    /\ approved \subseteq Versions
    /\ runs \in Seq([fire : Fires \cup {0}, version : Versions,
                     status : Results \cup {"absent", "running"}])
    /\ fires \in [Fires -> [pc : Steps, seen : Firable, version : Versions \cup {0},
                            result : Results, amid : BOOLEAN]]

(* Whatever triggers, statements and redeployments interleave, a state in  *)
(* which the runner fires always comes with a version to fire, and a       *)
(* deployment is the only way in: no fire ever turns an integration that   *)
(* was never deployed into a Running or Degraded one.                      *)
FirableIsPinned == state \in Firable => current # 0

(* Whatever is redeployed between the reads of a fire and its row, the row *)
(* names the version that the fire has read, that version was approved,    *)
(* and no integration fires before an execution had a clean test run: the  *)
(* version approved then is the one tested or an earlier one, which need   *)
(* not have been tested itself.                                            *)
FiredVersionsWereApproved ==
    \A i \in DOMAIN runs : runs[i].fire # 0 =>
        /\ runs[i].version = fires[runs[i].fire].version
        /\ runs[i].version \in approved
        /\ \E j \in 1 .. i - 1 : /\ runs[j].fire = 0 /\ runs[j].status = "succeeded"
                                 /\ runs[j].version >= runs[i].version

(* A call that came to its end left exactly one row, with its result.      *)
DoneIsRecorded ==
    \A f \in Fires : fires[f].pc = "done" =>
        \E i \in DOMAIN runs :
            /\ runs[i] = Row(f, fires[f].version, fires[f].result)
            /\ \A j \in DOMAIN runs : runs[j].fire = f => j = i

(* Three bad runs end in Degraded also when the calls overlap, provided    *)
(* nothing succeeds, nothing is redeployed meanwhile and at least one call *)
(* began after the deployment was over, for its last write takes Degraded  *)
(* back: the last of them to finish sees all three.                        *)
AllFiredBadly ==
    /\ ~quiet /\ MaxBusy >= 3
    /\ \A f \in 1 .. MaxBusy : fires[f].pc = "done" /\ fires[f].result # "succeeded"
    /\ \E f \in 1 .. MaxBusy : ~fires[f].amid
    /\ cycle.pc = "none" /\ cycle.version = 1

BadRunsDegrade == AllFiredBadly => state = "Degraded"

(* One call at a time, nothing else touching the row: the state follows    *)
(* the newest runs as Health says.  The rows of the calls that are over    *)
(* then come before the row of the one in progress.                        *)
Past == {i \in DOMAIN runs : runs[i].fire = 0 \/ fires[runs[i].fire].pc = "done"}

Outcomes ==
    LET n == Cardinality(Past)
    IN  SubSeq([i \in 1 .. n |-> runs[i].status], IF n > 3 THEN n - 2 ELSE 1, n)

Follows == INSTANCE Health WITH
    health <- IF quiet THEN state ELSE "Deployed",
    window <- IF quiet THEN Outcomes ELSE <<"succeeded">>

HealthFollowsRuns == Follows!Spec
=============================================================================
