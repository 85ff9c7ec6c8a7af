------------------------------- MODULE Clients -------------------------------
(***************************************************************************)
(* The TemporalClient of the control plane                                 *)
(* (packages/api/src/temporal-client.ts, packages/platform/src/index.ts).  *)
(* A process has one of three: the shim of the all-in-one platform, the    *)
(* adapter that the factory of the stand-alone API builds, or the stub,    *)
(* which writes the row itself, one awaited statement at a time, in every  *)
(* request that calls it.                                                  *)
(***************************************************************************)
EXTENDS IntegrationWorkflow

CONSTANT MaxRequests    \* bound: requests inside the stub at one time

ASSUME RequestsAssumption == MaxRequests \in Nat \ {0}

VARIABLES
    client,      \* which TemporalClient the process was given
    handle,      \* the stub: handles has an entry for this integration
    starts,      \* the stub: how often it was started; at most MaxAttempts
    requests     \* the stub: calls in progress

stub       == <<handle, starts, requests>>
clientVars == <<vars, client, stub>>

WorkflowIds == {"integration-", "wf-"}     \* prefixes; the id itself follows

(* The rows of its k-th start are named <<1, k>>.                          *)
StubCall == [kind : {"start", "approve", "reject", "deploy"}, step : 1 .. 8,
             ver : Versions \cup {NoVersion}]
-----------------------------------------------------------------------------
(* The adapters: the routes compute wf-<id>, the workflow was started as   *)
(* integration-<id>.                                                       *)
Strips(c) == IF c = "platform" THEN WorkflowIds ELSE {"integration-"}

(* A signal reaches the execution if nothing is left of the prefix when    *)
(* workflowIdFor of the real client puts its own in front.                 *)
SignalsArrive == "wf-" \in Strips(client)

Temporal ==
    /\ client # "stub"
    /\ \/ WorkerStep \/ Timer \/ WorkerCrash \/ Decide \/ Test
       \/ SignalsArrive /\ (Reject \/ \E v \in versions : Approve(v))
    /\ UNCHANGED <<client, stub>>
-----------------------------------------------------------------------------
(* The stub *)

(* Mutant of StubBody: Tested before the run is finished.                  *)
StubBodyTestedFirst(kind) ==
    CASE kind = "start"   -> <<"Generating", "insert", "pin", "create", "Tested",
                               "finish", "generated", "tested">>
      [] kind = "approve" -> <<"pin", "Approved">>
      [] kind = "reject"  -> <<"Draft">>
      [] kind = "deploy"  -> <<"Building", "Deployed", "Running">>

(* The statements each method awaits; a state is the argument of setState. *)
StubBody(kind) ==
    CASE kind = "start"   -> <<"Generating", "insert", "pin", "create", "finish",
                               "Tested", "generated", "tested">>
      [] kind = "approve" -> <<"pin", "Approved">>
      [] kind = "reject"  -> <<"Draft">>
      [] kind = "deploy"  -> <<"Building", "Deployed", "Running">>

StubAt(r, stmt) == r \in requests /\ StubBody(r.kind)[r.step] = stmt

Enter(kind, ver) ==
    /\ client = "stub"
    /\ Cardinality(requests) < MaxRequests
    /\ requests' = requests \cup {[kind |-> kind, step |-> 1, ver |-> ver]}
    /\ UNCHANGED <<vars, client, handle>>

StubStart ==
    /\ starts < MaxAttempts
    /\ starts' = starts + 1
    /\ Enter("start", <<1, starts + 1>>)

(* requireHandle is looked at once, before anything is written.            *)
StubSignal ==
    /\ handle
    /\ \/ \E v \in versions : Enter("approve", v)
       \/ \E kind \in {"reject", "deploy"} : Enter(kind, NoVersion)
    /\ UNCHANGED starts

(* After its last statement a start leaves the handle for the signals.     *)
StubProceeds(r) ==
    /\ requests' = (requests \ {r}) \cup
            IF r.step < Len(StubBody(r.kind)) THEN {[r EXCEPT !.step = @ + 1]} ELSE {}
    /\ handle' = (handle \/ (r.kind = "start" /\ r.step = Len(StubBody("start"))))
    /\ UNCHANGED <<client, starts, wf, running, approvals, refused>>

StubSetState(r) ==
    /\ \E s \in IntegrationState : StubAt(r, s) /\ state' = s
    /\ writer' = [exec |-> r.ver[1], late |-> FALSE]
    /\ StubProceeds(r)
    /\ UNCHANGED <<current, versions, runs, audit>>

StubInsert(r) ==
    /\ StubAt(r, "insert")
    /\ versions' = versions \cup {r.ver}
    /\ StubProceeds(r)
    /\ UNCHANGED <<state, current, runs, audit, writer>>

StubPin(r) ==
    /\ StubAt(r, "pin")
    /\ current' = r.ver
    /\ StubProceeds(r)
    /\ UNCHANGED <<state, versions, runs, audit, writer>>

(* createRun, and updateRun with a success it made up.                     *)
StubRun(r) ==
    /\ \E status \in {"running", "succeeded"} :
        /\ StubAt(r, IF status = "running" THEN "create" ELSE "finish")
        /\ runs' = [runs EXCEPT ![r.ver] = [version |-> r.ver, status |-> status]]
    /\ StubProceeds(r)
    /\ UNCHANGED <<state, current, versions, audit, writer>>

StubAudit(r) ==
    /\ \E e \in {"generated", "tested"} :
        /\ StubAt(r, e)
        /\ audit' = audit \cup {<<IF e = "tested" THEN "integration.tested"
                                  ELSE "integration.generated", 1, r.ver>>}
    /\ StubProceeds(r)
    /\ UNCHANGED <<rows, writer>>

(* A statement throws: what was written before it stays.                   *)
StubThrows(r) ==
    /\ requests' = requests \ {r}
    /\ UNCHANGED <<vars, client, handle, starts>>

(* The process of the API ends, and the handles with it.                   *)
ApiRestart ==
    /\ client = "stub" /\ (handle \/ requests # {})
    /\ requests' = {} /\ handle' = FALSE
    /\ UNCHANGED <<vars, client, starts>>

Stub == \/ StubStart \/ StubSignal \/ ApiRestart
        \/ \E r \in requests : \/ StubSetState(r) \/ StubInsert(r) \/ StubPin(r)
                               \/ StubRun(r) \/ StubAudit(r) \/ StubThrows(r)
-----------------------------------------------------------------------------
ClientsInit ==
    /\ Init
    /\ client \in {"platform", "standalone", "stub"}
    /\ handle = FALSE /\ starts = 0 /\ requests = {}

ClientsSpec == ClientsInit /\ [][Temporal \/ Stub]_clientVars

ClientsTypeOK ==
    /\ TypeOK
    /\ client \in {"platform", "standalone", "stub"}
    /\ handle \in BOOLEAN
    /\ starts \in 0 .. MaxAttempts
    /\ requests \subseteq StubCall
    /\ Cardinality(requests) <= MaxRequests

(* Whichever client the process has, and however the requests inside the   *)
(* stub interleave, fail half way or are cut off by a restart: the row     *)
(* keeps what module Lifecycle promises to its readers.                    *)
Promised ==
    INSTANCE Lifecycle WITH
        known  <- versions,
        passed <- {runs[r].version : r \in {q \in RunIds : runs[q].status = "succeeded"}}

KeepsLifecycle == Promised!Spec
=============================================================================
