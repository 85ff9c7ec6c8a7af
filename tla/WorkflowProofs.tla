--------------------------- MODULE WorkflowProofs ---------------------------
(***************************************************************************)
(* Proofs about IntegrationWorkflow, for every number of executions,       *)
(* attempts and late attempts, and about Clients, for every number of      *)
(* requests inside the stub: type correctness; only approved and built     *)
(* versions are ever pinned and refused executions never deploy; Tested    *)
(* and Deployed mean what they say, whichever client wrote them; and the   *)
(* row is an implementation of Lifecycle.                                  *)
(***************************************************************************)
EXTENDS Clients, FiniteSetTheorems, TLAPS

(* Type correctness, with the fact that makes it inductive.                *)
TypeInv == TypeOK /\ (wf.status = "Running" => wf.exec \in Execs)

-----------------------------------------------------------------------------
(* Types of the shared pieces of the actions *)

(* Every activity has between one and four statements.                     *)
LEMMA BodyLength == ASSUME NEW c PROVE Len(Body(c)) \in 1 .. 4
  <1>1. CASE c = "generateCode"    BY <1>1 DEF Body
  <1>2. CASE c = "runSandbox"      BY <1>2 DEF Body
  <1>3. CASE c = "buildImage"      BY <1>3 DEF Body
  <1>4. CASE c = "deployToRunner"  BY <1>4 DEF Body
  <1>5. CASE c = "markFailed"      BY <1>5 DEF Body
  <1>6. CASE c \notin {"generateCode", "runSandbox", "buildImage", "deployToRunner", "markFailed"}
    BY <1>6 DEF Body
  <1>7. QED BY <1>1, <1>2, <1>3, <1>4, <1>5, <1>6

(* Which activities have a given statement, and where.                     *)
LEMMA StatementOf ==
  ASSUME NEW a \in Attempt, NEW stmt, At(a, stmt)
  PROVE  /\ a.step <= Len(Body(a.call))
         /\ stmt = "state"  => a.call \in StateCalls \cup {"deployToRunner"}
         /\ stmt = "pin"    => a.call = "deployToRunner"
         /\ stmt = "audit"  => a.call \in {"generateCode", "runSandbox", "buildImage",
                                          "deployToRunner", "markFailed"}
         /\ stmt \in {"create", "sandbox", "finish"} => a.call = "runSandbox"
         /\ stmt = "create"  => a.step = 1
         /\ stmt = "sandbox" => a.step = 2
         /\ stmt = "finish"  => a.step = 3
         /\ a.call \in {"buildImage"} => stmt = "audit"
         /\ a.call \in StateCalls => stmt = "state"
         /\ a.call = "runSandbox" => stmt # "insert" /\ stmt # "mark" /\ stmt # "state" /\ stmt # "pin"
         /\ a.call = "runSandbox" /\ stmt = "audit" => a.step = 4
  <1>0. a.step \in 1 .. 4 /\ a.call \in Calls BY DEF Attempt, AttemptRecord
  <1>1. CASE a.call = "generateCode"   BY <1>0, <1>1 DEF Body, At, StateCalls
  <1>2. CASE a.call = "runSandbox"     BY <1>0, <1>2 DEF Body, At, StateCalls
  <1>3. CASE a.call = "buildImage"     BY <1>0, <1>3 DEF Body, At, StateCalls
  <1>4. CASE a.call = "deployToRunner" BY <1>0, <1>4 DEF Body, At, StateCalls
  <1>5. CASE a.call = "markFailed"     BY <1>0, <1>5 DEF Body, At, StateCalls
  <1>6. CASE a.call \in StateCalls     BY <1>0, <1>6 DEF Body, At, StateCalls
  <1>7. QED BY <1>0, <1>1, <1>2, <1>3, <1>4, <1>5, <1>6 DEF Calls

LEMMA BeginType ==
  ASSUME NEW e \in Execs, NEW c \in Calls, NEW n \in Attempts,
         NEW v \in Versions \cup {NoVersion}
  PROVE  Begin(e, c, n, v) \in Attempt
  BY DEF Begin, Attempt, AttemptRecord

LEMMA ArgumentType ==
  ASSUME NEW w \in Execution, NEW c
  PROVE  Argument(w, c) \in Versions \cup {NoVersion}
  BY DEF Argument, Execution

LEMMA AwaitType ==
  ASSUME NEW w \in Execution, w.exec \in Execs, NEW c \in Calls,
         NEW others \in SUBSET Attempt, Await(w, c, others)
  PROVE  /\ wf' \in Execution
         /\ wf'.exec = w.exec
         /\ running' \in SUBSET Attempt
  <1>1. 1 \in Attempts BY AttemptsAssumption DEF Attempts
  <1>2. Begin(w.exec, c, 1, Argument(w, c)) \in Attempt
    BY <1>1, BeginType, ArgumentType
  <1>3. QED BY <1>1, <1>2 DEF Await, Execution

LEMMA RetryType ==
  ASSUME TypeInv, wf.status = "Running", wf.call # "gate",
         NEW remaining \in SUBSET Attempt, Retry(remaining)
  PROVE  /\ wf' \in Execution
         /\ wf'.exec = wf.exec
         /\ running' \in SUBSET Attempt
  <1>0. wf \in Execution /\ wf.exec \in Execs /\ wf.call \in Calls /\ wf.n \in Attempts
    BY DEF TypeInv, TypeOK, Execution
  <1>1. CASE wf.n < MaxAttempts
    <2>1. wf.n + 1 \in Attempts BY <1>0, <1>1, AttemptsAssumption DEF Attempts
    <2>2. Begin(wf.exec, wf.call, wf.n + 1, Argument(wf, wf.call)) \in Attempt
      BY <1>0, <2>1, BeginType, ArgumentType
    <2>3. wf' = [wf EXCEPT !.n = wf.n + 1] BY <1>1 DEF Retry
    <2>4. running' = remaining \cup {Begin(wf.exec, wf.call, wf.n + 1, Argument(wf, wf.call))}
      BY <1>1 DEF Retry
    <2>5. QED BY <1>0, <2>1, <2>2, <2>3, <2>4 DEF Execution
  <1>2. CASE ~(wf.n < MaxAttempts) /\ wf.call # "markFailed"
    <2>1. Await(wf, "markFailed", remaining) BY <1>2 DEF Retry
    <2>2. "markFailed" \in Calls BY DEF Calls
    <2>3. QED BY <1>0, <2>1, <2>2, AwaitType
  <1>3. CASE ~(wf.n < MaxAttempts) /\ wf.call = "markFailed"
    <2>1. wf' = [wf EXCEPT !.status = "Failed"] /\ running' = remaining
      BY <1>3 DEF Retry
    <2>2. QED BY <1>0, <2>1 DEF Execution
  <1>4. QED BY <1>1, <1>2, <1>3

LEMMA ThrowType ==
  ASSUME TypeInv, NEW a \in running, Throw(a)
  PROVE  /\ wf' \in Execution
         /\ wf'.exec = wf.exec /\ (wf'.status = "Running" => wf.status = "Running")
         /\ running' \in SUBSET Attempt
  <1>0. a \in Attempt /\ running \subseteq Attempt /\ wf \in Execution
    BY DEF TypeInv, TypeOK
  <1>1. CASE Live(a)
    <2>1. wf.call # "gate" /\ wf.status = "Running"
      BY <1>0, <1>1 DEF Live, Attempt, AttemptRecord, Calls, StateCalls
    <2>2. running \ {a} \in SUBSET Attempt BY <1>0
    <2>3. QED BY <1>1, <2>1, <2>2, RetryType DEF Throw
  <1>2. CASE ~Live(a) BY <1>0, <1>2 DEF Throw
  <1>3. QED BY <1>1, <1>2

LEMMA ReturnType ==
  ASSUME TypeInv, NEW a \in running, Return(a)
  PROVE  /\ wf' \in Execution
         /\ wf'.exec = wf.exec /\ (wf'.status = "Running" => wf.status = "Running")
         /\ running' \in SUBSET Attempt
  <1>0. a \in Attempt /\ running \subseteq Attempt /\ wf \in Execution
    BY DEF TypeInv, TypeOK
  <1>1. CASE ~Live(a) BY <1>0, <1>1 DEF Return
  <1>2. CASE Live(a)
    <2>0. wf.status = "Running" /\ wf.exec \in Execs /\ running \ {a} \in SUBSET Attempt
      BY <1>0, <1>2 DEF Live, TypeInv
    <2> DEFINE w == IF a.call = "generateCode"
                    THEN [wf EXCEPT !.generated = <<a.exec, a.n>>] ELSE wf
    <2>1. w \in Execution /\ w.exec = wf.exec
      <3>1. <<a.exec, a.n>> \in Versions BY <1>0 DEF Attempt, AttemptRecord, Versions
      <3>2. QED BY <1>0, <3>1 DEF Execution
    <2>2. CASE NextCall(a) \in Calls /\ Await(w, NextCall(a), running \ {a})
      <3> HIDE DEF w
      <3>1. QED BY <2>0, <2>1, <2>2, AwaitType
    <2>3. CASE wf' = [w EXCEPT !.call = "gate"] /\ running' = running \ {a}
      <3> HIDE DEF w
      <3>1. QED BY <2>0, <2>1, <2>3 DEF Execution
    <2>4. CASE /\ wf' = [w EXCEPT !.status =
                            IF a.call = "markFailed" THEN "Failed" ELSE "Completed"]
               /\ running' = running \ {a}
      <3> HIDE DEF w
      <3>1. QED BY <2>0, <2>1, <2>4 DEF Execution
    <2>5. QED BY <1>2, <2>2, <2>3, <2>4 DEF Return
  <1>3. QED BY <1>1, <1>2

LEMMA ProceedType ==
  ASSUME TypeInv, NEW a \in running, NEW b \in Attempt, Proceed(a, b),
         a.step <= Len(Body(a.call)),
         b.step = a.step, b.call = a.call,
         a.call = "runSandbox" /\ a.step > 1 => b.result # "none"
  PROVE  /\ wf' \in Execution
         /\ wf'.exec = wf.exec /\ (wf'.status = "Running" => wf.status = "Running")
         /\ running' \in SUBSET Attempt
  <1>0. a \in Attempt /\ running \subseteq Attempt /\ wf \in Execution
    BY DEF TypeInv, TypeOK
  <1>1. CASE a.step = Len(Body(a.call)) /\ Return(a) BY <1>1, ReturnType
  <1>2. CASE running' = running \ {a} /\ UNCHANGED wf BY <1>0, <1>2
  <1>3. CASE /\ a.step # Len(Body(a.call))
             /\ running' = (running \ {a}) \cup {[b EXCEPT !.step = a.step + 1]}
             /\ UNCHANGED wf
    <2>1. a.step \in 1 .. 4 BY <1>0 DEF Attempt, AttemptRecord
    <2>2. PICK k \in 1 .. 4 : k = Len(Body(a.call)) BY BodyLength
    <2>3. a.step + 1 \in 1 .. 4 BY <1>3, <2>1, <2>2
    <2>4. [b EXCEPT !.step = a.step + 1] \in Attempt
      BY <2>1, <2>3 DEF Attempt, AttemptRecord
    <2>5. QED BY <1>0, <1>3, <2>4
  <1>4. QED BY <1>1, <1>2, <1>3 DEF Proceed

LEMMA PassGateType ==
  ASSUME TypeInv, AtGate, PassGate(wf)
  PROVE  /\ wf' \in Execution
         /\ wf'.exec = wf.exec
         /\ running' \in SUBSET Attempt
  <1>0. running \in SUBSET Attempt /\ wf \in Execution /\ wf.exec \in Execs
    BY DEF TypeInv, TypeOK, AtGate
  <1>1. "Draft" \in Calls /\ "Approved" \in Calls BY DEF Calls, StateCalls
  <1>2. CASE Await(wf, "Draft", running) BY <1>0, <1>1, <1>2, AwaitType
  <1>3. CASE Await([wf EXCEPT !.captured = wf.approved], "Approved", running)
    <2> DEFINE w == [wf EXCEPT !.captured = wf.approved]
    <2>1. w \in Execution /\ w.exec = wf.exec BY <1>0 DEF Execution
    <2>2. Await(w, "Approved", running) BY <1>3
    <2> HIDE DEF w
    <2>3. QED BY <1>0, <1>1, <2>1, <2>2, AwaitType
  <1>4. QED BY <1>2, <1>3 DEF PassGate
-----------------------------------------------------------------------------
LEMMA InitTypeInv == Init => TypeInv
  <1> SUFFICES ASSUME Init PROVE TypeInv OBVIOUS
  <1>1. 0 \in 0 .. MaxExecs BY ExecsAssumption
  <1>2. 1 \in Attempts BY AttemptsAssumption DEF Attempts
  <1>3. runs \in [RunIds -> [version : Versions \cup {NoVersion},
                             status : RunStatus \cup {"absent"}]]
    BY DEF Init
  <1>4. wf \in Execution
    BY <1>1, <1>2 DEF Init, Execution, Calls, StateCalls
  <1>5. writer \in [exec : 0 .. MaxExecs, late : BOOLEAN] BY <1>1 DEF Init
  <1>6. state \in IntegrationState /\ current \in Versions \cup {NoVersion}
    BY DEF Init, IntegrationState
  <1>7. versions = {} /\ audit = {} /\ running = {} /\ approvals = {} /\ refused = {}
        /\ wf.status = "None"
    BY DEF Init
  <1>8. QED BY <1>3, <1>4, <1>5, <1>6, <1>7 DEF TypeInv, TypeOK

(* A statement of an activity keeps the types.                             *)
LEMMA StatementType ==
  ASSUME TypeInv, NEW a \in running, Statement(a)
  PROVE  TypeInv'
  <1>0. a \in Attempt BY DEF TypeInv, TypeOK
  <1>1. a.exec \in Execs /\ a.n \in Attempts /\ a.call \in Calls
        /\ a.ver \in Versions \cup {NoVersion} /\ <<a.exec, a.n>> \in RunIds
        /\ <<a.exec, a.n>> \in Versions /\ a.exec \in 0 .. MaxExecs
    BY <1>0, ExecsAssumption DEF Attempt, AttemptRecord, RunIds, Versions, Execs
  <1>r. a.call = "runSandbox" /\ a.step > 2 => a.result # "none"
    BY <1>0 DEF Attempt
  <1>w. ASSUME /\ wf' \in Execution
               /\ wf'.exec = wf.exec /\ (wf'.status = "Running" => wf.status = "Running")
               /\ running' \in SUBSET Attempt,
               /\ state' \in IntegrationState
               /\ current' \in Versions \cup {NoVersion}
               /\ versions' \subseteq Versions
               /\ runs' \in [RunIds -> [version : Versions \cup {NoVersion},
                                        status : RunStatus \cup {"absent"}]]
               /\ audit' \subseteq Events \X Execs \X (Versions \cup {NoVersion})
               /\ writer' \in [exec : 0 .. MaxExecs, late : BOOLEAN],
               UNCHANGED <<approvals, refused>>
        PROVE  TypeInv'
    BY <1>w DEF TypeInv, TypeOK
  <1>2. CASE WriteState(a)
    <2>1. /\ wf' \in Execution
          /\ wf'.exec = wf.exec /\ (wf'.status = "Running" => wf.status = "Running")
          /\ running' \in SUBSET Attempt
      BY <1>0, <1>2, ProceedType, StatementOf, <1>r DEF WriteState
    <2>2. a.call \in StateCalls \cup {"deployToRunner"}
      BY <1>0, <1>2, StatementOf DEF WriteState
    <2>3. state' \in IntegrationState
      BY <1>2, <2>2 DEF WriteState, SetState, StateCalls, IntegrationState
    <2>4. writer' \in [exec : 0 .. MaxExecs, late : BOOLEAN]
      <3>1. writer' = [exec |-> a.exec, late |-> ~Live(a)]
        BY <1>2 DEF WriteState, SetState
      <3>2. PICK l \in BOOLEAN : l = ~Live(a) OBVIOUS
      <3>3. writer' = [exec |-> a.exec, late |-> l] BY <3>1, <3>2
      <3>4. QED BY <1>1, <3>3
    <2>5. QED BY <1>2, <1>w, <2>1, <2>3, <2>4 DEF WriteState, TypeInv, TypeOK
  <1>3. CASE MarkDraft(a)
    <2>1. /\ wf' \in Execution
          /\ wf'.exec = wf.exec /\ (wf'.status = "Running" => wf.status = "Running")
          /\ running' \in SUBSET Attempt
      BY <1>0, <1>3, ProceedType, StatementOf, <1>r DEF MarkDraft
    <2>3. state' \in IntegrationState
      BY <1>3 DEF MarkDraft, SetState, IntegrationState, TypeInv, TypeOK
    <2>4. writer' \in [exec : 0 .. MaxExecs, late : BOOLEAN]
      <3>1. writer' = [exec |-> a.exec, late |-> ~Live(a)] \/ writer' = writer
        BY <1>3 DEF MarkDraft, SetState
      <3>2. PICK l \in BOOLEAN : l = ~Live(a) OBVIOUS
      <3>3. writer' = [exec |-> a.exec, late |-> l] \/ writer' = writer BY <3>1, <3>2
      <3>4. QED BY <1>1, <3>3 DEF TypeInv, TypeOK
    <2>5. QED BY <1>3, <1>w, <2>1, <2>3, <2>4 DEF MarkDraft, TypeInv, TypeOK
  <1>4. CASE InsertVersion(a)
    <2>1. /\ wf' \in Execution
          /\ wf'.exec = wf.exec /\ (wf'.status = "Running" => wf.status = "Running")
          /\ running' \in SUBSET Attempt
      BY <1>0, <1>4, ProceedType, StatementOf, <1>r DEF InsertVersion
    <2>2. QED BY <1>1, <1>4, <1>w, <2>1 DEF InsertVersion, TypeInv, TypeOK, history
  <1>5. CASE CreateRun(a)
    <2>1. /\ wf' \in Execution
          /\ wf'.exec = wf.exec /\ (wf'.status = "Running" => wf.status = "Running")
          /\ running' \in SUBSET Attempt
      BY <1>0, <1>5, ProceedType, StatementOf, <1>r DEF CreateRun
    <2>2. [version |-> a.ver, status |-> "running"]
             \in [version : Versions \cup {NoVersion}, status : RunStatus \cup {"absent"}]
      BY <1>1 DEF RunStatus
    <2>3. runs' \in [RunIds -> [version : Versions \cup {NoVersion},
                               status : RunStatus \cup {"absent"}]]
      BY <1>1, <1>5, <2>2 DEF CreateRun, TypeInv, TypeOK
    <2>4. QED BY <1>5, <1>w, <2>1, <2>3 DEF CreateRun, TypeInv, TypeOK, history
  <1>6. CASE RunInSandbox(a)
    <2>1. PICK r \in SandboxStatus \cup {"error"} : Proceed(a, [a EXCEPT !.result = r])
      BY <1>6 DEF RunInSandbox
    <2>2. [a EXCEPT !.result = r] \in Attempt /\ r # "none"
      BY <1>0 DEF Attempt, AttemptRecord, SandboxStatus
    <2> DEFINE b == [a EXCEPT !.result = r]
    <2>b. b.step = a.step /\ b.call = a.call /\ b.result = r
      BY <1>0 DEF Attempt, AttemptRecord
    <2>p. Proceed(a, b) /\ At(a, "sandbox") BY <1>6, <2>1 DEF RunInSandbox
    <2> HIDE DEF b
    <2>3. /\ wf' \in Execution
          /\ wf'.exec = wf.exec /\ (wf'.status = "Running" => wf.status = "Running")
          /\ running' \in SUBSET Attempt
      <3>1. b \in Attempt BY <2>2 DEF b
      <3>2. QED BY <1>0, <2>2, <2>b, <2>p, <3>1, ProceedType, StatementOf
    <2>4. QED BY <1>6, <1>w, <2>3 DEF RunInSandbox, TypeInv, TypeOK, rows, history
  <1>7. CASE FinishRun(a)
    <2>1. /\ wf' \in Execution
          /\ wf'.exec = wf.exec /\ (wf'.status = "Running" => wf.status = "Running")
          /\ running' \in SUBSET Attempt
      BY <1>0, <1>7, ProceedType, ThrowType, StatementOf, <1>r DEF FinishRun
    <2>2. (IF a.result = "error" THEN "failed" ELSE a.result) \in RunStatus
      BY <1>0, <1>7, <1>r, StatementOf DEF Attempt, AttemptRecord, RunStatus, SandboxStatus, FinishRun
    <2>3. runs' \in [RunIds -> [version : Versions \cup {NoVersion},
                               status : RunStatus \cup {"absent"}]]
      BY <1>1, <1>7, <2>2 DEF FinishRun, TypeInv, TypeOK
    <2>4. QED BY <1>7, <1>w, <2>1, <2>3 DEF FinishRun, TypeInv, TypeOK, history
  <1>8. CASE Pin(a)
    <2>1. /\ wf' \in Execution
          /\ wf'.exec = wf.exec /\ (wf'.status = "Running" => wf.status = "Running")
          /\ running' \in SUBSET Attempt
      BY <1>0, <1>8, ProceedType, StatementOf, <1>r DEF Pin
    <2>2. QED BY <1>1, <1>8, <1>w, <2>1 DEF Pin, TypeInv, TypeOK, history
  <1>9. CASE RecordAudit(a)
    <2>1. /\ wf' \in Execution
          /\ wf'.exec = wf.exec /\ (wf'.status = "Running" => wf.status = "Running")
          /\ running' \in SUBSET Attempt
      BY <1>0, <1>9, ProceedType, StatementOf, <1>r DEF RecordAudit
    <2>2. AuditEvent(a) \in Events \X Execs \X (Versions \cup {NoVersion})
      BY <1>1 DEF AuditEvent, Events
    <2>3. QED BY <1>9, <1>w, <2>1, <2>2 DEF RecordAudit, TypeInv, TypeOK, rows, history
  <1>10. QED BY <1>2, <1>3, <1>4, <1>5, <1>6, <1>7, <1>8, <1>9 DEF Statement

(* What the other actions leave of the types.                              *)
LEMMA OtherRowsType ==
  ASSUME TypeInv, UNCHANGED <<rows, audit>>,
         wf' \in Execution, wf'.status = "Running" => wf'.exec \in Execs,
         running' \in SUBSET Attempt,
         approvals' \subseteq Versions, refused' \subseteq Execs,
         UNCHANGED writer
  PROVE  TypeInv'
  BY DEF TypeInv, TypeOK, rows

LEMMA NextTypeInv == TypeInv /\ [Next]_vars => TypeInv'
  <1> SUFFICES ASSUME TypeInv, [Next]_vars PROVE TypeInv' OBVIOUS
  <1>0. /\ wf \in Execution /\ running \in SUBSET Attempt
        /\ (wf.status = "Running" => wf.exec \in Execs)
        /\ approvals \subseteq Versions /\ refused \subseteq Execs /\ versions \subseteq Versions
    BY DEF TypeInv, TypeOK
  <1>1. ASSUME NEW a \in running, Statement(a) PROVE TypeInv'
    BY <1>1, StatementType
  <1>2. ASSUME NEW a \in running, StatementFails(a) PROVE TypeInv'
    BY <1>0, <1>2, ThrowType, OtherRowsType DEF StatementFails, history
  <1>3. CASE AttemptTimesOut
    BY <1>0, <1>3, RetryType, OtherRowsType DEF AttemptTimesOut, history
  <1>4. CASE GateTimesOut
    BY <1>0, <1>4, PassGateType, OtherRowsType DEF GateTimesOut, AtGate, history
  <1>5. CASE Decide
    BY <1>0, <1>5, PassGateType, OtherRowsType DEF Decide, AtGate, history
  <1>6. CASE WorkerCrash
    BY <1>0, <1>6, OtherRowsType DEF WorkerCrash, history
  <1>7. CASE Test
    <2> DEFINE w == [exec |-> wf.exec + 1, status |-> "Running", call |-> "Generating",
              n |-> 1, generated |-> NoVersion, captured |-> NoVersion,
              approved |-> NoVersion, rejected |-> FALSE]
    <2>1. wf.exec + 1 \in Execs /\ wf.exec + 1 \in 0 .. MaxExecs
      BY <1>0, <1>7, ExecsAssumption DEF Test, Execution, Execs
    <2>2. 1 \in Attempts BY AttemptsAssumption DEF Attempts
    <2>3. "Generating" \in Calls BY DEF Calls, StateCalls
    <2>4. w \in Execution /\ w.exec \in Execs
      BY <2>1, <2>2, <2>3 DEF Execution
    <2>5. Await(w, "Generating", running) BY <1>7 DEF Test
    <2> HIDE DEF w
    <2>6. QED BY <1>0, <1>7, <2>3, <2>4, <2>5, AwaitType, OtherRowsType DEF Test, history
  <1>8. ASSUME NEW v \in versions, Approve(v) PROVE TypeInv'
    <2>1. wf' \in Execution /\ wf'.exec = wf.exec /\ wf'.status = wf.status
      BY <1>0, <1>8 DEF Approve, Execution
    <2>2. QED BY <1>0, <1>8, <2>1, OtherRowsType DEF Approve
  <1>9. CASE Reject
    <2>1. wf' \in Execution /\ wf'.exec = wf.exec /\ wf'.status = wf.status
      BY <1>0, <1>9 DEF Reject, Execution
    <2>2. refused' \subseteq Execs BY <1>0, <1>9 DEF Reject
    <2>3. QED BY <1>0, <1>9, <2>1, <2>2, OtherRowsType DEF Reject
  <1>10. CASE UNCHANGED vars
    BY <1>10 DEF vars, TypeInv, TypeOK
  <1>11. QED
    BY <1>1, <1>2, <1>3, <1>4, <1>5, <1>6, <1>7, <1>8, <1>9, <1>10
       DEF Next, WorkerStep, Timer, Request

LEMMA TypeInvariant == Spec => []TypeInv
  BY InitTypeInv, NextTypeInv, PTL DEF Spec

(* Every reachable state has the types TypeOK gives: attempts, versions    *)
(* and executions stay within their bounds whatever fails or is retried.   *)
THEOREM TypeCorrect == Spec => []TypeOK
  <1>1. TypeInv => TypeOK BY DEF TypeInv
  <1>2. QED BY <1>1, TypeInvariant, PTL
-----------------------------------------------------------------------------
(* The approval trail.  The lemmas take the audit log as a parameter: the  *)
(* step in which buildImage records its event is the one that lets the     *)
(* workflow go on to deployToRunner.                                       *)

OnTrail(log) == /\ ExecutionOnTrail(wf, log)
                /\ \A a \in running : AttemptOnTrail(a, wf, log)

NextOnTrail(log) == /\ ExecutionOnTrail(wf', log)
                    /\ \A a \in running' : AttemptOnTrail(a, wf', log)

LEMMA AwaitTrail ==
  ASSUME NEW w \in Execution, w.exec \in Execs, NEW c \in Calls, NEW log,
         w.status = "Running", ExecutionOnTrail([w EXCEPT !.call = c, !.n = 1], log),
         NEW others \in SUBSET Attempt,
         \A a \in others : AttemptOnTrail(a, w, log),
         Await(w, c, others)
  PROVE  NextOnTrail(log)
  <1> DEFINE b == Begin(w.exec, c, 1, Argument(w, c))
  <1>1. wf' = [w EXCEPT !.call = c, !.n = 1] /\ running' = others \cup {b}
    BY DEF Await
  <1>2. /\ wf'.exec = w.exec /\ wf'.captured = w.captured /\ wf'.approved = w.approved
        /\ wf'.call = c /\ wf'.status = "Running"
    BY <1>1 DEF Execution
  <1>3. ExecutionOnTrail(wf', log) BY <1>1
  <1>4. b.exec = w.exec /\ b.call = c /\ b.ver = Argument(w, c) BY DEF Begin
  <1>5. ASSUME c \in {"buildImage", "deployToRunner"} PROVE b.ver = w.captured
    BY <1>4, <1>5 DEF Argument
  <1>6. w.exec <= w.exec BY DEF Execs
  <1>7. AttemptOnTrail(b, wf', log)
    <2> HIDE DEF b
    <2>1. c \in {"buildImage", "deployToRunner"} => c \in DeployCalls BY DEF DeployCalls
    <2>2. QED BY <1>2, <1>3, <1>4, <1>5, <1>6, <2>1 DEF AttemptOnTrail, ExecutionOnTrail
  <1>8. ASSUME NEW a \in others PROVE AttemptOnTrail(a, wf', log)
    BY <1>2 DEF AttemptOnTrail
  <1>9. QED BY <1>1, <1>3, <1>7, <1>8 DEF NextOnTrail

LEMMA RetryTrail ==
  ASSUME TypeInv, NEW log, OnTrail(log), wf.status = "Running", wf.call # "gate",
         NEW remaining \in SUBSET running, Retry(remaining)
  PROVE  NextOnTrail(log)
  <1>0. /\ wf \in Execution /\ wf.exec \in Execs /\ wf.call \in Calls
        /\ remaining \in SUBSET Attempt
    BY DEF TypeInv, TypeOK, Execution
  <1>1. \A a \in remaining : AttemptOnTrail(a, wf, log) BY DEF OnTrail
  <1>2. CASE wf.n < MaxAttempts
    <2> DEFINE b == Begin(wf.exec, wf.call, wf.n + 1, Argument(wf, wf.call))
    <2>1. wf' = [wf EXCEPT !.n = wf.n + 1] /\ running' = remaining \cup {b}
      BY <1>2 DEF Retry
    <2>2. /\ wf'.exec = wf.exec /\ wf'.captured = wf.captured /\ wf'.approved = wf.approved
          /\ wf'.call = wf.call /\ wf'.status = wf.status /\ wf'.rejected = wf.rejected
      BY <1>0, <2>1 DEF Execution
    <2>3. ExecutionOnTrail(wf', log) BY <2>2 DEF OnTrail, ExecutionOnTrail
    <2>4. b.exec = wf.exec /\ b.call = wf.call /\ b.ver = Argument(wf, wf.call) BY DEF Begin
    <2>5. ASSUME wf.call \in {"buildImage", "deployToRunner"} PROVE b.ver = wf.captured
      BY <2>4, <2>5 DEF Argument
    <2>6. wf.exec <= wf.exec BY <1>0 DEF Execs
    <2>7. AttemptOnTrail(b, wf', log)
      <3> HIDE DEF b
      <3>1. wf.call \in {"buildImage", "deployToRunner"} => wf.call \in DeployCalls
        BY DEF DeployCalls
      <3>2. QED BY <2>2, <2>3, <2>4, <2>5, <2>6, <3>1 DEF AttemptOnTrail, ExecutionOnTrail
    <2>8. ASSUME NEW a \in remaining PROVE AttemptOnTrail(a, wf', log)
      BY <1>1, <2>2 DEF AttemptOnTrail
    <2>9. QED BY <2>1, <2>3, <2>7, <2>8 DEF NextOnTrail
  <1>3. CASE ~(wf.n < MaxAttempts) /\ wf.call # "markFailed"
    <2>1. Await(wf, "markFailed", remaining) BY <1>3 DEF Retry
    <2>2. "markFailed" \in Calls BY DEF Calls
    <2>3. ExecutionOnTrail([wf EXCEPT !.call = "markFailed", !.n = 1], log)
      <3> DEFINE w == [wf EXCEPT !.call = "markFailed", !.n = 1]
      <3>1. /\ w.exec = wf.exec /\ w.captured = wf.captured /\ w.approved = wf.approved
            /\ w.call = "markFailed" /\ w.status = wf.status /\ w.rejected = wf.rejected
        BY <1>0 DEF Execution
      <3>2. "markFailed" \notin BeforeGate \cup DeployCalls BY DEF BeforeGate, DeployCalls
      <3> HIDE DEF w
      <3>3. ExecutionOnTrail(w, log) BY <3>1, <3>2 DEF OnTrail, ExecutionOnTrail
      <3>4. QED BY <3>3 DEF w
    <2>4. QED BY <1>0, <1>1, <2>1, <2>2, <2>3, AwaitTrail
  <1>4. CASE ~(wf.n < MaxAttempts) /\ wf.call = "markFailed"
    <2>1. wf' = [wf EXCEPT !.status = "Failed"] /\ running' = remaining
      BY <1>4 DEF Retry
    <2>2. /\ wf'.exec = wf.exec /\ wf'.captured = wf.captured /\ wf'.approved = wf.approved
          /\ wf'.status = "Failed"
      BY <1>0, <2>1 DEF Execution
    <2>3. QED BY <1>1, <2>1, <2>2 DEF OnTrail, NextOnTrail, ExecutionOnTrail, AttemptOnTrail
  <1>5. QED BY <1>2, <1>3, <1>4

LEMMA ThrowTrail ==
  ASSUME TypeInv, NEW log, OnTrail(log), NEW a \in running, Throw(a)
  PROVE  NextOnTrail(log)
  <1>1. CASE Live(a)
    <2>1. wf.call # "gate" /\ wf.status = "Running"
      BY <1>1 DEF TypeInv, TypeOK, Live, Attempt, AttemptRecord, Calls, StateCalls
    <2>2. QED BY <1>1, <2>1, RetryTrail DEF Throw
  <1>2. CASE ~Live(a) BY <1>2 DEF Throw, OnTrail, NextOnTrail
  <1>3. QED BY <1>1, <1>2

LEMMA ReturnTrail ==
  ASSUME TypeInv, NEW log, OnTrail(log), NEW a \in running, Return(a),
         a.call = "buildImage" => Built(a.ver, log)
  PROVE  NextOnTrail(log)
  <1>0. a \in Attempt /\ running \subseteq Attempt /\ wf \in Execution
    BY DEF TypeInv, TypeOK
  <1>1. CASE ~Live(a) BY <1>0, <1>1 DEF Return, OnTrail, NextOnTrail
  <1>2. CASE Live(a)
    <2>0. /\ wf.status = "Running" /\ wf.exec \in Execs /\ running \ {a} \in SUBSET Attempt
          /\ wf.call = a.call /\ wf.exec = a.exec
      BY <1>0, <1>2 DEF Live, TypeInv
    <2> DEFINE w == IF a.call = "generateCode"
                    THEN [wf EXCEPT !.generated = <<a.exec, a.n>>] ELSE wf
    <2>1. /\ w \in Execution /\ w.exec = wf.exec /\ w.captured = wf.captured
          /\ w.approved = wf.approved /\ w.rejected = wf.rejected /\ w.status = "Running"
      <3>1. <<a.exec, a.n>> \in Versions BY <1>0 DEF Attempt, AttemptRecord, Versions
      <3>2. QED BY <1>0, <2>0, <3>1 DEF Execution
    <2>2. \A o \in running \ {a} : AttemptOnTrail(o, w, log)
      <3> HIDE DEF w
      <3>1. QED BY <2>1 DEF OnTrail, AttemptOnTrail
    <2>3. CASE NextCall(a) \in Calls /\ Await(w, NextCall(a), running \ {a})
      <3> DEFINE x == [w EXCEPT !.call = NextCall(a), !.n = 1]
      <3>1. /\ x.exec = wf.exec /\ x.captured = wf.captured /\ x.approved = wf.approved
            /\ x.rejected = wf.rejected /\ x.status = "Running" /\ x.call = NextCall(a)
        BY <2>1 DEF Execution
      <3>2. NextCall(a) \in BeforeGate => a.call \in BeforeGate
        BY DEF NextCall, BeforeGate
      <3>3. NextCall(a) \in DeployCalls => a.call \in DeployCalls
        BY DEF NextCall, DeployCalls
      <3>4. NextCall(a) = "deployToRunner" => a.call = "buildImage"
        BY DEF NextCall
      <3>5. a.call = "buildImage" => a.ver = wf.captured
        BY <2>0 DEF OnTrail, AttemptOnTrail
      <3> HIDE DEF x
      <3>6. ExecutionOnTrail(x, log)
        BY <2>0, <3>1, <3>2, <3>3, <3>4, <3>5 DEF OnTrail, ExecutionOnTrail
      <3>7. ExecutionOnTrail([w EXCEPT !.call = NextCall(a), !.n = 1], log)
        BY <3>6 DEF x
      <3> HIDE DEF w
      <3>8. QED BY <2>0, <2>1, <2>2, <2>3, <3>7, AwaitTrail
    <2>4. CASE /\ NextCall(a) = "gate"
               /\ wf' = [w EXCEPT !.call = "gate"] /\ running' = running \ {a}
      <3> HIDE DEF w
      <3>1. /\ wf'.exec = wf.exec /\ wf'.captured = wf.captured /\ wf'.approved = wf.approved
            /\ wf'.rejected = wf.rejected /\ wf'.status = "Running" /\ wf'.call = "gate"
        BY <2>1, <2>4 DEF Execution
      <3>2. a.call = "Tested" BY <2>4 DEF NextCall
      <3>3. "gate" \notin DeployCalls /\ "gate" # "deployToRunner" /\ "Tested" \in BeforeGate
        BY DEF DeployCalls, BeforeGate
      <3>4. ExecutionOnTrail(wf', log)
        BY <2>0, <3>1, <3>2, <3>3 DEF OnTrail, ExecutionOnTrail
      <3>5. QED BY <2>4, <3>1, <3>4 DEF OnTrail, NextOnTrail, AttemptOnTrail
    <2>5. CASE /\ wf' = [w EXCEPT !.status =
                            IF a.call = "markFailed" THEN "Failed" ELSE "Completed"]
               /\ running' = running \ {a}
      <3> HIDE DEF w
      <3>1. /\ wf'.exec = wf.exec /\ wf'.captured = wf.captured /\ wf'.approved = wf.approved
            /\ wf'.status # "Running"
        BY <2>1, <2>5 DEF Execution
      <3>2. QED BY <2>5, <3>1 DEF OnTrail, NextOnTrail, ExecutionOnTrail, AttemptOnTrail
    <2>6. QED BY <1>2, <2>3, <2>4, <2>5 DEF Return
  <1>3. QED BY <1>1, <1>2

LEMMA ProceedTrail ==
  ASSUME TypeInv, NEW log, OnTrail(log), NEW a \in running, NEW b \in Attempt,
         b.exec = a.exec, b.call = a.call, b.ver = a.ver, Proceed(a, b),
         a.call = "buildImage" => Built(a.ver, log)
  PROVE  NextOnTrail(log)
  <1>1. CASE Return(a) BY <1>1, ReturnTrail
  <1>2. CASE running' = running \ {a} /\ UNCHANGED wf
    BY <1>2 DEF OnTrail, NextOnTrail
  <1>3. CASE /\ running' = (running \ {a}) \cup {[b EXCEPT !.step = a.step + 1]}
             /\ UNCHANGED wf
    <2> DEFINE c == [b EXCEPT !.step = a.step + 1]
    <2>1. c.exec = a.exec /\ c.call = a.call /\ c.ver = a.ver
      BY DEF Attempt, AttemptRecord
    <2> HIDE DEF c
    <2>2. AttemptOnTrail(c, wf, log) BY <2>1 DEF OnTrail, AttemptOnTrail
    <2>3. QED BY <1>3, <2>2 DEF OnTrail, NextOnTrail, c
  <1>4. QED BY <1>1, <1>2, <1>3 DEF Proceed

LEMMA PassGateTrail ==
  ASSUME TypeInv, NEW log, OnTrail(log), AtGate, PassGate(wf)
  PROVE  NextOnTrail(log)
  <1>0. /\ running \in SUBSET Attempt /\ wf \in Execution /\ wf.exec \in Execs
        /\ wf.status = "Running" /\ wf.call = "gate" /\ approvals \subseteq Versions
    BY DEF TypeInv, TypeOK, AtGate
  <1>1. /\ "Draft" \in Calls /\ "Draft" \notin BeforeGate \cup DeployCalls
        /\ "Approved" \in Calls /\ "Approved" \notin BeforeGate /\ "gate" \in BeforeGate
    BY DEF Calls, StateCalls, BeforeGate, DeployCalls
  <1>2. wf.captured = NoVersion /\ \A a \in running : AttemptOnTrail(a, wf, log)
    BY <1>0, <1>1 DEF OnTrail, ExecutionOnTrail
  <1>3. CASE Await(wf, "Draft", running)
    <2> DEFINE x == [wf EXCEPT !.call = "Draft", !.n = 1]
    <2>1. /\ x.exec = wf.exec /\ x.captured = wf.captured /\ x.approved = wf.approved
          /\ x.rejected = wf.rejected /\ x.status = "Running" /\ x.call = "Draft"
      BY <1>0 DEF Execution
    <2> HIDE DEF x
    <2>2. ExecutionOnTrail(x, log)
      BY <1>0, <1>1, <2>1 DEF OnTrail, ExecutionOnTrail
    <2>3. ExecutionOnTrail([wf EXCEPT !.call = "Draft", !.n = 1], log) BY <2>2 DEF x
    <2>4. QED BY <1>0, <1>1, <1>2, <1>3, <2>3, AwaitTrail
  <1>4. CASE /\ ~wf.rejected /\ wf.approved # NoVersion
             /\ Await([wf EXCEPT !.captured = wf.approved], "Approved", running)
    <2> DEFINE w == [wf EXCEPT !.captured = wf.approved]
               x == [w EXCEPT !.call = "Approved", !.n = 1]
    <2>1. /\ w \in Execution /\ w.exec = wf.exec /\ w.captured = wf.approved
          /\ w.approved = wf.approved /\ w.rejected = wf.rejected /\ w.status = "Running"
      BY <1>0 DEF Execution
    <2>2. Await(w, "Approved", running) BY <1>4
    <2> HIDE DEF w
    <2>3. /\ x.exec = wf.exec /\ x.captured = wf.approved /\ x.approved = wf.approved
          /\ x.rejected = wf.rejected /\ x.status = "Running" /\ x.call = "Approved"
      BY <2>1 DEF Execution
    <2> HIDE DEF x
    <2>4. ExecutionOnTrail(x, log)
      BY <1>0, <1>1, <1>4, <2>3 DEF OnTrail, ExecutionOnTrail
    <2>5. ExecutionOnTrail([w EXCEPT !.call = "Approved", !.n = 1], log)
      BY <2>4 DEF x
    <2>6. NoVersion \notin Versions BY DEF NoVersion, Versions, Execs
    <2>7. ASSUME NEW a \in running PROVE AttemptOnTrail(a, w, log)
      \* an attempt of this execution in the deploy phase would have captured # NoVersion
      <3>1. AttemptOnTrail(a, wf, log) BY <1>2
      <3>2. a.call \in {"buildImage", "deployToRunner"} => a.call \in DeployCalls
        BY DEF DeployCalls
      <3>3. QED BY <1>2, <2>1, <3>1, <3>2 DEF AttemptOnTrail
    <2>8. QED BY <1>0, <1>1, <2>1, <2>2, <2>5, <2>7, AwaitTrail
  <1>5. QED BY <1>3, <1>4 DEF PassGate

(* More events in the log take nothing from the trail.                     *)
LEMMA TrailGrows ==
  ASSUME NEW log, NEW more, log \subseteq more, OnTrail(log)
  PROVE  OnTrail(more)
  BY DEF OnTrail, ExecutionOnTrail, AttemptOnTrail, Built

LEMMA TrailStep ==
  ASSUME ApprovalTrail, NextOnTrail(audit'), UNCHANGED <<approvals, refused>>,
         wf'.exec >= wf.exec, TypeInv, TypeInv',
         PinnedWasApprovedAndBuilt'
  PROVE  ApprovalTrail'
  <1>1. ExecutionOnTrail(wf, audit)'
    BY DEF NextOnTrail, ExecutionOnTrail
  <1>2. (\A a \in running : AttemptOnTrail(a, wf, audit))'
    BY DEF NextOnTrail, AttemptOnTrail
  <1>3. wf.exec \in Nat /\ wf'.exec \in Nat /\ refused \subseteq Nat
    BY ExecsAssumption DEF TypeInv, TypeOK, Execution, Execs
  <1>4. (\A e \in refused : e <= wf.exec)' BY <1>3 DEF ApprovalTrail
  <1>5. QED BY <1>1, <1>2, <1>4 DEF ApprovalTrail

LEMMA InitTrail == Init => ApprovalTrail
  <1> SUFFICES ASSUME Init PROVE ApprovalTrail OBVIOUS
  <1>1. /\ wf.status = "None" /\ wf.approved = NoVersion /\ wf.captured = NoVersion
        /\ running = {} /\ refused = {} /\ current = NoVersion
    BY DEF Init
  <1>2. QED BY <1>1 DEF ApprovalTrail, ExecutionOnTrail, PinnedWasApprovedAndBuilt

(* No statement of an activity changes the execution's number.             *)
LEMMA ProceedExec ==
  ASSUME TypeInv, NEW a \in running, NEW b, Proceed(a, b)
  PROVE  wf'.exec = wf.exec
  <1>1. CASE Return(a) BY <1>1, ReturnType
  <1>2. CASE UNCHANGED wf BY <1>2
  <1>3. QED BY <1>1, <1>2 DEF Proceed

LEMMA StatementTrail ==
  ASSUME TypeInv, TypeInv', ApprovalTrail, NEW a \in running,
         Statement(a) \/ StatementFails(a)
  PROVE  ApprovalTrail'
  <1>0. /\ a \in Attempt /\ OnTrail(audit) /\ PinnedWasApprovedAndBuilt
        /\ AttemptOnTrail(a, wf, audit) /\ wf.exec \in Nat
    BY ExecsAssumption DEF TypeInv, TypeOK, ApprovalTrail, OnTrail, Execution
  <1>n. ASSUME UNCHANGED <<approvals, refused, audit>>,
               UNCHANGED current \/ (current' \in approvals /\ Built(current', audit)),
               NEW b \in Attempt, b.exec = a.exec, b.call = a.call, b.ver = a.ver,
               a.call # "buildImage", Proceed(a, b)
        PROVE  ApprovalTrail'
    <2>1. NextOnTrail(audit') BY <1>0, <1>n, ProceedTrail
    <2>2. PinnedWasApprovedAndBuilt'
      BY <1>0, <1>n DEF PinnedWasApprovedAndBuilt, Built
    <2>3. wf'.exec >= wf.exec BY <1>0, <1>n, ProceedExec
    <2>4. QED BY <1>n, <2>1, <2>2, <2>3, TrailStep
  <1>t. ASSUME UNCHANGED <<approvals, refused, audit, current>>, Throw(a)
        PROVE  ApprovalTrail'
    <2>1. NextOnTrail(audit') BY <1>0, <1>t, ThrowTrail
    <2>2. PinnedWasApprovedAndBuilt'
      BY <1>0, <1>t DEF PinnedWasApprovedAndBuilt, Built
    <2>3. wf'.exec >= wf.exec BY <1>0, <1>t, ThrowType
    <2>4. QED BY <1>t, <2>1, <2>2, <2>3, TrailStep
  <1>1. CASE WriteState(a)
    <2>1. a.call # "buildImage" BY <1>0, <1>1, StatementOf DEF WriteState, StateCalls
    <2>2. QED BY <1>0, <1>1, <1>n, <2>1 DEF WriteState
  <1>2. CASE MarkDraft(a)
    <2>1. a.call # "buildImage" BY <1>0, <1>2, StatementOf DEF MarkDraft
    <2>2. QED BY <1>0, <1>2, <1>n, <2>1 DEF MarkDraft
  <1>3. CASE InsertVersion(a)
    <2>1. a.call # "buildImage" BY <1>0, <1>3, StatementOf DEF InsertVersion
    <2>2. QED BY <1>0, <1>3, <1>n, <2>1 DEF InsertVersion, history
  <1>4. CASE CreateRun(a)
    <2>1. a.call # "buildImage" BY <1>0, <1>4, StatementOf DEF CreateRun
    <2>2. QED BY <1>0, <1>4, <1>n, <2>1 DEF CreateRun, history
  <1>5. CASE RunInSandbox(a)
    <2>1. a.call = "runSandbox" BY <1>0, <1>5, StatementOf DEF RunInSandbox
    <2>2. PICK r \in SandboxStatus \cup {"error"} : Proceed(a, [a EXCEPT !.result = r])
      BY <1>5 DEF RunInSandbox
    <2> DEFINE b == [a EXCEPT !.result = r]
    <2>3. b \in Attempt /\ b.exec = a.exec /\ b.call = a.call /\ b.ver = a.ver
      BY <1>0 DEF Attempt, AttemptRecord, SandboxStatus
    <2>4. Proceed(a, b) BY <2>2
    <2> HIDE DEF b
    <2>5. QED BY <1>5, <1>n, <2>1, <2>3, <2>4 DEF RunInSandbox, rows, history
  <1>6. CASE FinishRun(a)
    <2>1. a.call # "buildImage" BY <1>0, <1>6, StatementOf DEF FinishRun
    <2>2. QED BY <1>0, <1>6, <1>n, <1>t, <2>1 DEF FinishRun, history
  <1>7. CASE Pin(a)
    <2>1. a.call = "deployToRunner" BY <1>0, <1>7, StatementOf DEF Pin
    <2>2. a.ver \in approvals /\ Built(a.ver, audit) BY <1>0, <2>1 DEF AttemptOnTrail
    <2>3. QED BY <1>0, <1>7, <1>n, <2>1, <2>2 DEF Pin, history
  <1>8. CASE RecordAudit(a)
    <2>1. audit' = audit \cup {AuditEvent(a)} /\ Proceed(a, a)
      BY <1>8 DEF RecordAudit
    <2>2. UNCHANGED <<approvals, refused, current>> BY <1>8 DEF RecordAudit, rows, history
    <2>3. a.exec \in Execs BY <1>0 DEF Attempt, AttemptRecord
    <2>4. a.call = "buildImage" => Built(a.ver, audit')
      BY <2>1, <2>3 DEF AuditEvent, Built
    <2>5. OnTrail(audit') BY <1>0, <2>1, TrailGrows
    <2>6. NextOnTrail(audit') BY <1>0, <2>1, <2>4, <2>5, ProceedTrail
    <2>7. PinnedWasApprovedAndBuilt'
      BY <1>0, <2>1, <2>2 DEF PinnedWasApprovedAndBuilt, Built
    <2>8. wf'.exec >= wf.exec BY <1>0, <2>1, ProceedExec
    <2>9. QED BY <2>2, <2>6, <2>7, <2>8, TrailStep
  <1>9. CASE StatementFails(a)
    BY <1>9, <1>t DEF StatementFails, rows, history
  <1>10. QED BY <1>1, <1>2, <1>3, <1>4, <1>5, <1>6, <1>7, <1>8, <1>9 DEF Statement

LEMMA NextTrail ==
  ASSUME TypeInv, TypeInv', ApprovalTrail, [Next]_vars
  PROVE  ApprovalTrail'
  <1>0. /\ wf \in Execution /\ wf.exec \in Nat /\ running \in SUBSET Attempt
        /\ approvals \subseteq Versions /\ refused \subseteq Execs /\ versions \subseteq Versions
        /\ (wf.status = "Running" => wf.exec \in Execs)
        /\ OnTrail(audit) /\ PinnedWasApprovedAndBuilt /\ \A e \in refused : e <= wf.exec
    BY ExecsAssumption DEF TypeInv, TypeOK, ApprovalTrail, OnTrail, Execution
  <1>r. ASSUME UNCHANGED <<approvals, refused, audit, current>>, NextOnTrail(audit),
               wf'.exec >= wf.exec
        PROVE  ApprovalTrail'
    <2>1. NextOnTrail(audit') BY <1>r
    <2>2. PinnedWasApprovedAndBuilt' BY <1>0, <1>r DEF PinnedWasApprovedAndBuilt, Built
    <2>3. QED BY <1>r, <2>1, <2>2, TrailStep
  <1>1. ASSUME NEW a \in running, Statement(a) \/ StatementFails(a) PROVE ApprovalTrail'
    BY <1>1, StatementTrail
  <1>2. CASE AttemptTimesOut
    <2>1. NextOnTrail(audit) BY <1>0, <1>2, RetryTrail DEF AttemptTimesOut
    <2>2. wf'.exec >= wf.exec BY <1>0, <1>2, RetryType DEF AttemptTimesOut
    <2>3. QED BY <1>2, <1>r, <2>1, <2>2 DEF AttemptTimesOut, rows, history
  <1>3. CASE GateTimesOut
    <2>1. NextOnTrail(audit) BY <1>0, <1>3, PassGateTrail DEF GateTimesOut
    <2>2. wf'.exec >= wf.exec BY <1>0, <1>3, PassGateType DEF GateTimesOut
    <2>3. QED BY <1>3, <1>r, <2>1, <2>2 DEF GateTimesOut, rows, history
  <1>4. CASE Decide
    <2>1. NextOnTrail(audit) BY <1>0, <1>4, PassGateTrail DEF Decide
    <2>2. wf'.exec >= wf.exec BY <1>0, <1>4, PassGateType DEF Decide
    <2>3. QED BY <1>4, <1>r, <2>1, <2>2 DEF Decide, rows, history
  <1>5. CASE WorkerCrash
    <2>1. NextOnTrail(audit) BY <1>0, <1>5 DEF WorkerCrash, OnTrail, NextOnTrail
    <2>2. QED BY <1>0, <1>5, <1>r, <2>1 DEF WorkerCrash, rows, history
  <1>6. CASE Test
    <2> DEFINE w == [exec |-> wf.exec + 1, status |-> "Running", call |-> "Generating",
              n |-> 1, generated |-> NoVersion, captured |-> NoVersion,
              approved |-> NoVersion, rejected |-> FALSE]
    <2>1. wf.exec + 1 \in Execs /\ wf.exec + 1 \in 0 .. MaxExecs
      BY <1>0, <1>6, ExecsAssumption DEF Test, Execution, Execs
    <2>2. 1 \in Attempts BY AttemptsAssumption DEF Attempts
    <2>3. "Generating" \in Calls /\ "Generating" \notin DeployCalls
      BY DEF Calls, StateCalls, DeployCalls
    <2>4. w \in Execution /\ w.exec = wf.exec + 1 /\ w.status = "Running"
          /\ w.captured = NoVersion /\ w.approved = NoVersion
      BY <2>1, <2>2, <2>3 DEF Execution
    <2>5. Await(w, "Generating", running) BY <1>6 DEF Test
    <2>6. wf.exec + 1 \notin refused BY <1>0
    <2> HIDE DEF w
    <2> DEFINE x == [w EXCEPT !.call = "Generating", !.n = 1]
    <2>7. /\ x.exec = wf.exec + 1 /\ x.status = "Running" /\ x.call = "Generating"
          /\ x.captured = NoVersion /\ x.approved = NoVersion
      BY <2>4 DEF Execution
    <2> HIDE DEF x
    <2>8. ExecutionOnTrail(x, audit) BY <2>3, <2>6, <2>7 DEF ExecutionOnTrail
    <2>10. ExecutionOnTrail([w EXCEPT !.call = "Generating", !.n = 1], audit)
      BY <2>8 DEF x
    <2>11. ASSUME NEW a \in running PROVE AttemptOnTrail(a, w, audit)
      <3>1. AttemptOnTrail(a, wf, audit) /\ a.exec \in Nat
        BY <1>0 DEF OnTrail, Attempt, AttemptRecord, Execs
      <3>2. a.exec # w.exec /\ a.exec <= w.exec
        BY <1>0, <2>4, <3>1 DEF AttemptOnTrail
      <3>3. QED BY <3>1, <3>2 DEF AttemptOnTrail
    <2>12. NextOnTrail(audit)
      BY <1>0, <2>1, <2>3, <2>4, <2>5, <2>10, <2>11, AwaitTrail
    <2>13. wf'.exec >= wf.exec
      BY <1>0, <2>1, <2>3, <2>4, <2>5, AwaitType
    <2>14. QED BY <1>6, <1>r, <2>12, <2>13 DEF Test, rows, history
  <1>7. ASSUME NEW v \in versions, Approve(v) PROVE ApprovalTrail'
    <2>1. /\ wf'.exec = wf.exec /\ wf'.status = wf.status /\ wf'.call = wf.call
          /\ wf'.captured = wf.captured /\ wf'.rejected = wf.rejected /\ wf'.approved = v
      BY <1>0, <1>7 DEF Approve, Execution
    <2>2. /\ approvals' = approvals \cup {v} /\ UNCHANGED <<running, refused, audit, current>>
      BY <1>7 DEF Approve, rows
    <2>3. ExecutionOnTrail(wf, audit)'
      BY <1>0, <2>1, <2>2 DEF OnTrail, ExecutionOnTrail, Built
    <2>4. (\A a \in running : AttemptOnTrail(a, wf, audit))'
      BY <1>0, <2>1, <2>2 DEF OnTrail, AttemptOnTrail, Built
    <2>5. PinnedWasApprovedAndBuilt'
      BY <1>0, <2>2 DEF PinnedWasApprovedAndBuilt, Built
    <2>6. QED BY <1>0, <2>1, <2>2, <2>3, <2>4, <2>5 DEF ApprovalTrail
  <1>8. CASE Reject
    <2>1. /\ wf'.exec = wf.exec /\ wf'.status = wf.status /\ wf'.call = wf.call
          /\ wf'.captured = wf.captured /\ wf'.rejected = TRUE /\ wf'.approved = wf.approved
          /\ wf.status = "Running"
      BY <1>0, <1>8 DEF Reject, Execution
    <2>2. /\ refused' = IF wf.captured = NoVersion THEN refused \cup {wf.exec} ELSE refused
          /\ UNCHANGED <<running, approvals, audit, current>>
      BY <1>8 DEF Reject, rows
    <2>3. ExecutionOnTrail(wf, audit)'
      BY <1>0, <2>1, <2>2 DEF OnTrail, ExecutionOnTrail, Built
    <2>4. (\A a \in running : AttemptOnTrail(a, wf, audit))'
      BY <1>0, <2>1, <2>2 DEF OnTrail, AttemptOnTrail, Built
    <2>5. PinnedWasApprovedAndBuilt'
      BY <1>0, <2>2 DEF PinnedWasApprovedAndBuilt, Built
    <2>6. QED BY <1>0, <2>1, <2>2, <2>3, <2>4, <2>5 DEF ApprovalTrail
  <1>9. CASE UNCHANGED vars
    <2>1. NextOnTrail(audit) BY <1>0, <1>9 DEF vars, OnTrail, NextOnTrail
    <2>2. QED BY <1>0, <1>9, <1>r, <2>1 DEF vars
  <1>10. QED
    BY <1>1, <1>2, <1>3, <1>4, <1>5, <1>6, <1>7, <1>8, <1>9
       DEF Next, WorkerStep, Timer, Request

(* The approval trail is an invariant of the specification.                *)
THEOREM ApprovalTrailHolds == Spec => []ApprovalTrail
  <1>1. TypeInv /\ TypeInv' /\ ApprovalTrail /\ [Next]_vars => ApprovalTrail'
    BY NextTrail
  <1>2. QED BY <1>1, InitTrail, TypeInvariant, PTL DEF Spec

(* For any number of executions, attempts and late attempts, the pinned    *)
(* version was approved by a user and built.                               *)
THEOREM OnlyApprovedArePinned == Spec => []PinnedWasApprovedAndBuilt
  <1>1. ApprovalTrail => PinnedWasApprovedAndBuilt BY DEF ApprovalTrail
  <1>2. QED BY <1>1, ApprovalTrailHolds, PTL

(* For any number of executions, attempts and late attempts, an execution  *)
(* rejected before the gate never starts a deployment.                     *)
THEOREM RefusedStayOut == Spec => []RefusedNeverDeploys
  <1>1. ApprovalTrail => RefusedNeverDeploys
    BY DEF ApprovalTrail, RefusedNeverDeploys, AttemptOnTrail
  <1>2. QED BY <1>1, ApprovalTrailHolds, PTL

(* An approval that was given is what the gate lets pass, whether it is    *)
(* the signal or the timer of 24 hours that wakes the workflow: no attempt *)
(* is awaited at the gate, so nothing but PassGate moves it from there.    *)
THEOREM ApprovalsAreKept == Spec => ApprovalIsNotDropped
  <1> DEFINE Kept == AtGate /\ wf.approved # NoVersion /\ ~wf.rejected
                        => wf'.call \in {"gate", "Approved"}
  <1>1. ASSUME TypeInv, [Next]_vars PROVE Kept
    <2> SUFFICES ASSUME AtGate, wf.approved # NoVersion, ~wf.rejected
                 PROVE  wf'.call \in {"gate", "Approved"}
      OBVIOUS
    <2>0. wf \in Execution /\ running \subseteq Attempt BY <1>1 DEF TypeInv, TypeOK
    <2>1. \A a \in running : ~Live(a)
      BY <2>0 DEF AtGate, Live, Attempt, AttemptRecord, Calls, StateCalls
    <2>2. ASSUME NEW a \in running, Statement(a) PROVE UNCHANGED wf
      <3>1. ~Live(a) BY <2>1
      <3>2. ASSUME NEW b, Proceed(a, b) PROVE UNCHANGED wf
        BY <3>1, <3>2 DEF Proceed, Return
      <3>3. Throw(a) => UNCHANGED wf BY <3>1 DEF Throw
      <3>4. QED
        BY <2>2, <3>2, <3>3
           DEF Statement, WriteState, MarkDraft, InsertVersion, CreateRun, RunInSandbox,
               FinishRun, Pin, RecordAudit
    <2>3. ASSUME NEW a \in running, StatementFails(a) PROVE UNCHANGED wf
      BY <2>1, <2>3 DEF StatementFails, Throw
    <2>4. ~AttemptTimesOut BY DEF AttemptTimesOut, AtGate
    <2>5. CASE GateTimesOut \/ Decide
      <3>1. PassGate(wf) BY <2>5 DEF GateTimesOut, Decide
      <3>2. Await([wf EXCEPT !.captured = wf.approved], "Approved", running)
        BY <3>1 DEF PassGate
      <3>3. QED BY <2>0, <3>2 DEF Await, Execution
    <2>6. CASE WorkerCrash BY <2>6 DEF WorkerCrash, AtGate
    <2>7. ~Test BY DEF Test, AtGate
    <2>8. ASSUME NEW v \in versions, Approve(v) PROVE wf'.call = "gate"
      BY <2>0, <2>8 DEF Approve, AtGate, Execution
    <2>9. CASE Reject BY <2>0, <2>9 DEF Reject, AtGate, Execution
    <2>10. CASE UNCHANGED vars BY <2>10 DEF vars, AtGate
    <2>11. QED
      BY <1>1, <2>2, <2>3, <2>4, <2>5, <2>6, <2>7, <2>8, <2>9, <2>10
         DEF Next, WorkerStep, Timer, Request, AtGate
  <1>2. QED BY <1>1, TypeInvariant, PTL DEF Spec, ApprovalIsNotDropped

-----------------------------------------------------------------------------
(* A version is pinned before anything says Deployed.                      *)

(* As long as nothing is pinned, no attempt of deployToRunner is past its  *)
(* first statement and the workflow has not come to its last call.         *)
NothingPastPin(w, attempts) ==
    /\ w.status = "Running" => w.call # "Deployed"
    /\ \A a \in attempts : /\ a.call # "Deployed"
                           /\ a.call = "deployToRunner" => a.step = 1

PinnedFirst == current = NoVersion => state # "Deployed" /\ NothingPastPin(wf, running)

LEMMA AwaitBeforePin ==
  ASSUME NEW w \in Execution, NEW c \in Calls \ {"Deployed"}, NEW others,
         NothingPastPin(w, others), Await(w, c, others)
  PROVE  NothingPastPin(wf', running')
  BY DEF Await, Begin, NothingPastPin, Execution

LEMMA RetryBeforePin ==
  ASSUME wf \in Execution, wf.status = "Running", wf.call # "gate", NEW others,
         NothingPastPin(wf, others), Retry(others)
  PROVE  NothingPastPin(wf', running')
  <1>1. CASE wf.n < MaxAttempts
    BY <1>1 DEF Retry, Begin, NothingPastPin, Execution
  <1>2. CASE ~(wf.n < MaxAttempts) /\ wf.call # "markFailed"
    BY <1>2, AwaitBeforePin DEF Retry, Calls
  <1>3. CASE ~(wf.n < MaxAttempts) /\ wf.call = "markFailed"
    BY <1>3 DEF Retry, NothingPastPin, Execution
  <1>4. QED BY <1>1, <1>2, <1>3

LEMMA ThrowBeforePin ==
  ASSUME wf \in Execution, running \subseteq Attempt, NEW a \in running,
         NothingPastPin(wf, running), Throw(a)
  PROVE  NothingPastPin(wf', running')
  <1>1. NothingPastPin(wf, running \ {a}) BY DEF NothingPastPin
  <1>2. CASE Live(a)
    <2>1. wf.status = "Running" /\ wf.call # "gate"
      BY <1>2 DEF Live, Attempt, AttemptRecord, Calls, StateCalls
    <2>2. QED BY <1>1, <1>2, <2>1, RetryBeforePin DEF Throw
  <1>3. CASE ~Live(a) BY <1>1, <1>3 DEF Throw
  <1>4. QED BY <1>2, <1>3

LEMMA ReturnBeforePin ==
  ASSUME wf \in Execution, running \subseteq Attempt, NEW a \in running,
         a.step = Len(Body(a.call)), NothingPastPin(wf, running), Return(a)
  PROVE  NothingPastPin(wf', running')
  <1>0. NothingPastPin(wf, running \ {a}) BY DEF NothingPastPin
  <1>1. a.call # "deployToRunner" BY DEF NothingPastPin, Body
  <1>2. NextCall(a) # "Deployed" BY <1>1 DEF NextCall
  <1>3. CASE ~Live(a) BY <1>0, <1>3 DEF Return
  <1>4. CASE Live(a)
    <2> DEFINE w == IF a.call = "generateCode"
                    THEN [wf EXCEPT !.generated = <<a.exec, a.n>>] ELSE wf
    <2>1. /\ w \in Execution /\ NothingPastPin(w, running \ {a})
          /\ w.call = wf.call /\ w.status = wf.status
      <3>1. <<a.exec, a.n>> \in Versions BY DEF Attempt, AttemptRecord, Versions
      <3>2. QED BY <1>0, <3>1 DEF Execution, NothingPastPin
    <2>2. CASE NextCall(a) \in Calls /\ Await(w, NextCall(a), running \ {a})
      <3> HIDE DEF w
      <3>1. QED BY <1>2, <2>1, <2>2, AwaitBeforePin
    <2>3. CASE wf' = [w EXCEPT !.call = "gate"] /\ running' = running \ {a}
      <3> HIDE DEF w
      <3>1. QED BY <2>1, <2>3 DEF NothingPastPin, Execution
    <2>4. CASE /\ wf' = [w EXCEPT !.status =
                            IF a.call = "markFailed" THEN "Failed" ELSE "Completed"]
               /\ running' = running \ {a}
      <3> HIDE DEF w
      <3>1. QED BY <2>1, <2>4 DEF NothingPastPin, Execution
    <2>5. QED BY <1>4, <2>2, <2>3, <2>4 DEF Return
  <1>5. QED BY <1>3, <1>4

LEMMA ProceedBeforePin ==
  ASSUME wf \in Execution, running \subseteq Attempt, NEW a \in running,
         NEW b \in Attempt, b.call = a.call, a.call # "deployToRunner",
         NothingPastPin(wf, running), Proceed(a, b)
  PROVE  NothingPastPin(wf', running')
  <1>1. CASE a.step = Len(Body(a.call)) /\ Return(a) BY <1>1, ReturnBeforePin
  <1>2. CASE running' = running \ {a} /\ UNCHANGED wf
    BY <1>2 DEF NothingPastPin
  <1>3. CASE /\ running' = (running \ {a}) \cup {[b EXCEPT !.step = a.step + 1]}
             /\ UNCHANGED wf
    <2>1. [b EXCEPT !.step = a.step + 1].call = a.call
      BY DEF Attempt, AttemptRecord
    <2>2. a.call # "Deployed" BY DEF NothingPastPin
    <2>3. QED BY <1>3, <2>1, <2>2 DEF NothingPastPin
  <1>4. QED BY <1>1, <1>2, <1>3 DEF Proceed

(* Of a statement only Pin changes the pointer, and only to a version.     *)
LEMMA StatementPinnedFirst ==
  ASSUME TypeInv, ApprovalTrail, PinnedFirst, NEW a \in running,
         Statement(a) \/ StatementFails(a)
  PROVE  PinnedFirst'
  <1>0. /\ a \in Attempt /\ wf \in Execution /\ running \subseteq Attempt
        /\ AttemptOnTrail(a, wf, audit) /\ approvals \subseteq Versions
    BY DEF TypeInv, TypeOK, ApprovalTrail
  <1>1. NoVersion \notin Versions
    BY ExecsAssumption DEF NoVersion, Versions, Execs
  <1>2. CASE Pin(a)
    <2>1. a.call = "deployToRunner" BY <1>0, <1>2, StatementOf DEF Pin
    <2>2. a.ver \in approvals BY <1>0, <2>1 DEF AttemptOnTrail
    <2>3. QED BY <1>0, <1>1, <1>2, <2>2 DEF Pin, PinnedFirst
  <1>3. ASSUME ~Pin(a), UNCHANGED current, current = NoVersion
        PROVE  state' # "Deployed" /\ NothingPastPin(wf', running')
    <2>0. state # "Deployed" /\ NothingPastPin(wf, running) BY <1>3 DEF PinnedFirst
    <2>1. a.call = "deployToRunner" => At(a, "pin")
      BY <2>0 DEF NothingPastPin, At, Body
    <2>2. CASE WriteState(a)
      <3>1. a.call # "deployToRunner" /\ a.call # "Deployed"
        <4>1. a.call # "Deployed" BY <2>0 DEF NothingPastPin
        <4>2. a.call = "deployToRunner" => ~At(a, "state") BY <2>1 DEF At
        <4>3. QED BY <2>2, <4>1, <4>2 DEF WriteState
      <3>2. state' # "Deployed" BY <2>2, <3>1 DEF WriteState, SetState
      <3>3. QED BY <1>0, <2>0, <2>2, <3>1, <3>2, ProceedBeforePin DEF WriteState
    <2>3. CASE MarkDraft(a)
      <3>1. a.call # "deployToRunner" BY <2>1, <2>3 DEF At, MarkDraft
      <3>2. QED BY <1>0, <2>0, <2>3, <3>1, ProceedBeforePin DEF MarkDraft, SetState
    <2>4. CASE InsertVersion(a)
      <3>1. a.call # "deployToRunner" BY <2>1, <2>4 DEF At, InsertVersion
      <3>2. QED BY <1>0, <2>0, <2>4, <3>1, ProceedBeforePin DEF InsertVersion
    <2>5. CASE CreateRun(a)
      <3>1. a.call # "deployToRunner" BY <2>1, <2>5 DEF At, CreateRun
      <3>2. QED BY <1>0, <2>0, <2>5, <3>1, ProceedBeforePin DEF CreateRun
    <2>6. CASE RunInSandbox(a)
      <3>1. a.call = "runSandbox" BY <1>0, <2>6, StatementOf DEF RunInSandbox
      <3>2. PICK r \in SandboxStatus \cup {"error"} : Proceed(a, [a EXCEPT !.result = r])
        BY <2>6 DEF RunInSandbox
      <3> DEFINE b == [a EXCEPT !.result = r]
      <3>3. b \in Attempt /\ b.call = a.call
        BY <1>0 DEF Attempt, AttemptRecord, SandboxStatus
      <3>4. Proceed(a, b) BY <3>2
      <3> HIDE DEF b
      <3>5. NothingPastPin(wf', running')
        BY <1>0, <2>0, <3>1, <3>3, <3>4, ProceedBeforePin
      <3>6. QED BY <2>0, <2>6, <3>5 DEF RunInSandbox, rows
    <2>7. CASE FinishRun(a)
      <3>1. a.call # "deployToRunner" BY <2>1, <2>7 DEF At, FinishRun
      <3>2. QED BY <1>0, <2>0, <2>7, <3>1, ProceedBeforePin, ThrowBeforePin DEF FinishRun
    <2>8. CASE RecordAudit(a)
      <3>1. a.call # "deployToRunner" BY <2>1, <2>8 DEF At, RecordAudit
      <3>2. QED BY <1>0, <2>0, <2>8, <3>1, ProceedBeforePin DEF RecordAudit, rows
    <2>9. CASE StatementFails(a)
      BY <1>0, <2>0, <2>9, ThrowBeforePin DEF StatementFails, rows
    <2>10. QED BY <1>3, <2>2, <2>3, <2>4, <2>5, <2>6, <2>7, <2>8, <2>9 DEF Statement
  <1>4. ~Pin(a) => UNCHANGED current
    BY DEF Statement, StatementFails, WriteState, MarkDraft, InsertVersion, CreateRun,
           RunInSandbox, FinishRun, RecordAudit, rows
  <1>5. QED BY <1>2, <1>3, <1>4 DEF PinnedFirst

LEMMA PassGateBeforePin ==
  ASSUME wf \in Execution, NothingPastPin(wf, running), PassGate(wf)
  PROVE  NothingPastPin(wf', running')
  <1>1. "Draft" \in Calls /\ "Approved" \in Calls BY DEF Calls, StateCalls
  <1>2. CASE Await(wf, "Draft", running) BY <1>1, <1>2, AwaitBeforePin
  <1>3. CASE Await([wf EXCEPT !.captured = wf.approved], "Approved", running)
    <2> DEFINE w == [wf EXCEPT !.captured = wf.approved]
    <2>1. w \in Execution /\ NothingPastPin(w, running) BY DEF Execution, NothingPastPin
    <2>2. Await(w, "Approved", running) BY <1>3
    <2> HIDE DEF w
    <2>3. QED BY <1>1, <2>1, <2>2, AwaitBeforePin
  <1>4. QED BY <1>2, <1>3 DEF PassGate

LEMMA NextPinnedFirst ==
  ASSUME TypeInv, ApprovalTrail, PinnedFirst, [Next]_vars
  PROVE  PinnedFirst'
  <1>0. wf \in Execution /\ running \subseteq Attempt BY DEF TypeInv, TypeOK
  <1>r. ASSUME UNCHANGED <<current, state>>,
               NothingPastPin(wf, running) => NothingPastPin(wf', running')
        PROVE  PinnedFirst'
    BY <1>r DEF PinnedFirst
  <1>1. ASSUME NEW a \in running, Statement(a) \/ StatementFails(a) PROVE PinnedFirst'
    BY <1>1, StatementPinnedFirst
  <1>2. CASE AttemptTimesOut
    BY <1>0, <1>2, <1>r, RetryBeforePin DEF AttemptTimesOut, rows
  <1>3. CASE GateTimesOut
    BY <1>0, <1>3, <1>r, PassGateBeforePin DEF GateTimesOut, rows
  <1>4. CASE Decide
    BY <1>0, <1>4, <1>r, PassGateBeforePin DEF Decide, rows
  <1>5. CASE WorkerCrash
    BY <1>5, <1>r DEF WorkerCrash, rows, NothingPastPin
  <1>6. CASE Test
    <2> DEFINE w == [exec |-> wf.exec + 1, status |-> "Running", call |-> "Generating",
              n |-> 1, generated |-> NoVersion, captured |-> NoVersion,
              approved |-> NoVersion, rejected |-> FALSE]
    <2>1. w \in Execution /\ w.call = "Generating" /\ "Generating" \in Calls
      <3>1. wf.exec + 1 \in 0 .. MaxExecs
        BY <1>0, <1>6, ExecsAssumption DEF Test, Execution
      <3>2. 1 \in Attempts BY AttemptsAssumption DEF Attempts
      <3>3. QED BY <3>1, <3>2 DEF Execution, Calls, StateCalls
    <2>2. Await(w, "Generating", running) BY <1>6 DEF Test
    <2> HIDE DEF w
    <2>3. NothingPastPin(wf, running) => NothingPastPin(w, running)
      BY <2>1 DEF NothingPastPin
    <2>4. QED BY <1>6, <1>r, <2>1, <2>2, <2>3, AwaitBeforePin DEF Test, rows
  <1>7. ASSUME NEW v \in versions, Approve(v) PROVE PinnedFirst'
    BY <1>0, <1>7, <1>r DEF Approve, rows, NothingPastPin, Execution
  <1>8. CASE Reject
    BY <1>0, <1>8, <1>r DEF Reject, rows, NothingPastPin, Execution
  <1>9. CASE UNCHANGED vars
    BY <1>9, <1>r DEF vars
  <1>10. QED
    BY <1>1, <1>2, <1>3, <1>4, <1>5, <1>6, <1>7, <1>8, <1>9
       DEF Next, WorkerStep, Timer, Request

(* Whatever is retried, late, lost or killed between its two writes, the   *)
(* row never says Deployed without a pinned version.                       *)
THEOREM DeployedIsAlwaysPinned == Spec => []DeployedIsPinned
  <1>1. Init => PinnedFirst
    BY DEF Init, PinnedFirst, NothingPastPin
  <1>2. TypeInv /\ ApprovalTrail /\ PinnedFirst /\ [Next]_vars => PinnedFirst'
    BY NextPinnedFirst
  <1>3. PinnedFirst => DeployedIsPinned BY DEF PinnedFirst, DeployedIsPinned
  <1>4. QED BY <1>1, <1>2, <1>3, TypeInvariant, ApprovalTrailHolds, PTL DEF Spec
-----------------------------------------------------------------------------
(* What Tested rests on.  The lemmas take the tables of runs and versions  *)
(* as parameters, as those about the trail take the log.                   *)

Passed(e, rt) ==
    \E n \in Attempts : rt[<<e, n>>].status = "succeeded" /\ rt[<<e, n>>].version[1] = e

(* The execution tests a version of its own, and goes on to Tested when a  *)
(* run of one has succeeded.                                               *)
ExecutionTested(w, rt, kn) ==
    w.status = "Running" =>
        /\ w.call = "runSandbox" => w.generated[1] = w.exec /\ w.generated \in kn
        /\ w.call = "Tested" => Passed(w.exec, rt)

AttemptTested(a, rt, kn) ==
    /\ a.call = "generateCode" /\ a.step > 1 => <<a.exec, a.n>> \in kn
    /\ a.call = "runSandbox" =>
         /\ a.ver[1] = a.exec /\ a.ver \in kn
         /\ a.step <= 3 => rt[<<a.exec, a.n>>].status # "succeeded"
         /\ a.step > 1 => rt[<<a.exec, a.n>>].version = a.ver
         /\ a.step = 4 => rt[<<a.exec, a.n>>].status = a.result
    /\ a.call = "Tested" => Passed(a.exec, rt)

(* Attempt n of runSandbox in execution e has not begun.                   *)
Fresh(w, e, n) ==
    \/ e > w.exec
    \/ /\ e = w.exec /\ w.status = "Running"
       /\ \/ w.call \in {"Generating", "generateCode"}
          \/ w.call = "runSandbox" /\ n > w.n

SameRun(a, b) == /\ a.call = "runSandbox" /\ b.call = "runSandbox"
                 /\ a.exec = b.exec /\ a.n = b.n

(* No run row has two attempts that write it, late ones included: that is  *)
(* why a run that succeeded stays succeeded.                               *)
RunsOnce(w, attempts, rt) ==
    /\ \A e \in Execs, n \in Attempts : Fresh(w, e, n) =>
         /\ rt[<<e, n>>].status = "absent"
         /\ \A a \in attempts : ~(a.call = "runSandbox" /\ a.exec = e /\ a.n = n)
    /\ \A a, b \in attempts : SameRun(a, b) => a = b

TestTrail(w, attempts, rt, kn) ==
    /\ ExecutionTested(w, rt, kn)
    /\ \A a \in attempts : AttemptTested(a, rt, kn)
    /\ RunsOnce(w, attempts, rt)

(* The row of the first attempt of a call that w is about to await.        *)
NotBegun(w, attempts, rt) ==
    /\ rt[<<w.exec, 1>>].status = "absent"
    /\ \A a \in attempts : ~(a.call = "runSandbox" /\ a.exec = w.exec /\ a.n = 1)

LEMMA FewerTested ==
  ASSUME NEW w, NEW attempts, NEW rt, NEW kn, NEW few \in SUBSET attempts,
         TestTrail(w, attempts, rt, kn)
  PROVE  TestTrail(w, few, rt, kn)
  BY DEF TestTrail, RunsOnce

(* An attempt that begins: attempt n of call c of the execution w, which   *)
(* is known to await it.                                                   *)
LEMMA BeginTested ==
  ASSUME NEW w \in Execution, w.exec \in Execs, w.status = "Running",
         w.call \in Calls,
         NEW rt, NEW kn, NEW others \in SUBSET Attempt,
         TestTrail(w, others, rt, kn),
         w.call = "runSandbox" =>
            /\ rt[<<w.exec, w.n>>].status = "absent"
            /\ \A a \in others : ~(a.call = "runSandbox" /\ a.exec = w.exec /\ a.n = w.n)
  PROVE  TestTrail(w, others \cup {Begin(w.exec, w.call, w.n, Argument(w, w.call))}, rt, kn)
  <1> DEFINE b == Begin(w.exec, w.call, w.n, Argument(w, w.call))
  <1>1. /\ b.exec = w.exec /\ b.call = w.call /\ b.n = w.n /\ b.step = 1
        /\ w.call = "runSandbox" => b.ver = w.generated
    BY DEF Begin, Argument
  <1> HIDE DEF b
  <1>2. AttemptTested(b, rt, kn)
    BY <1>1 DEF TestTrail, ExecutionTested, AttemptTested
  <1>3. ASSUME NEW e \in Execs, NEW n \in Attempts, Fresh(w, e, n)
        PROVE  ~(b.call = "runSandbox" /\ b.exec = e /\ b.n = n)
    <2>1. w.exec \in Nat /\ w.n \in Nat /\ e \in Nat /\ n \in Nat
      BY ExecsAssumption, AttemptsAssumption DEF Execution, Execs, Attempts
    <2>2. QED BY <1>1, <1>3, <2>1 DEF Fresh
  <1>4. ASSUME NEW a \in others PROVE ~SameRun(a, b) /\ ~SameRun(b, a)
    BY <1>1 DEF SameRun
  <1>5. RunsOnce(w, others \cup {b}, rt)
    BY <1>3, <1>4 DEF TestTrail, RunsOnce
  <1>6. TestTrail(w, others \cup {b}, rt, kn) BY <1>2, <1>5 DEF TestTrail
  <1>7. QED BY <1>6 DEF b

Awaiting(w, c) == [w EXCEPT !.call = c, !.n = 1]

LEMMA AwaitTested ==
  ASSUME NEW w \in Execution, w.exec \in Execs, w.status = "Running", NEW c \in Calls,
         NEW rt, NEW kn, NEW others \in SUBSET Attempt,
         TestTrail(Awaiting(w, c), others, rt, kn),
         c = "runSandbox" => NotBegun(w, others, rt),
         Await(w, c, others)
  PROVE  TestTrail(wf', running', rt, kn)
  <1> DEFINE x == Awaiting(w, c)
  <1>1. 1 \in Attempts BY AttemptsAssumption DEF Attempts
  <1>2. /\ x \in Execution /\ x.exec = w.exec /\ x.status = "Running" /\ x.call = c /\ x.n = 1
        /\ Argument(x, c) = Argument(w, c)
    BY <1>1 DEF Awaiting, Execution, Argument
  <1>3. wf' = x /\ running' = others \cup {Begin(w.exec, c, 1, Argument(w, c))}
    BY DEF Await, Awaiting
  <1> HIDE DEF x
  <1>4. TestTrail(x, others, rt, kn) BY DEF x
  <1>5. TestTrail(x, others \cup {Begin(x.exec, x.call, x.n, Argument(x, x.call))}, rt, kn)
    BY <1>2, <1>4, BeginTested DEF NotBegun
  <1>6. QED BY <1>2, <1>3, <1>5

(* An execution that has left its tests behind awaits no run any more.     *)
LEMMA PastTests ==
  ASSUME NEW w, NEW x, NEW attempts, NEW rt, NEW kn, TestTrail(w, attempts, rt, kn),
         x.exec = w.exec,
         x.status = "Running" =>
            x.call \notin {"Generating", "generateCode", "runSandbox", "Tested"}
  PROVE  TestTrail(x, attempts, rt, kn)
  BY DEF TestTrail, ExecutionTested, RunsOnce, Fresh

LEMMA RetryTested ==
  ASSUME TypeInv, NEW rt, NEW kn, NEW remaining \in SUBSET Attempt,
         TestTrail(wf, remaining, rt, kn),
         wf.status = "Running", wf.call # "gate", Retry(remaining)
  PROVE  TestTrail(wf', running', rt, kn)
  <1>0. /\ wf \in Execution /\ wf.exec \in Execs /\ wf.call \in Calls /\ wf.n \in Attempts
        /\ wf.n \in Nat
    BY AttemptsAssumption DEF TypeInv, TypeOK, Execution, Attempts
  <1>1. CASE wf.n < MaxAttempts
    <2> DEFINE x == [wf EXCEPT !.n = wf.n + 1]
    <2>1. wf.n + 1 \in Attempts BY <1>0, <1>1, AttemptsAssumption DEF Attempts
    <2>2. /\ x \in Execution /\ x.exec = wf.exec /\ x.status = "Running"
          /\ x.call = wf.call /\ x.n = wf.n + 1 /\ x.generated = wf.generated
          /\ Argument(x, wf.call) = Argument(wf, wf.call)
      BY <1>0, <2>1 DEF Execution, Argument
    <2>3. wf' = x /\ running' = remaining \cup
                {Begin(wf.exec, wf.call, wf.n + 1, Argument(wf, wf.call))}
      BY <1>1 DEF Retry
    <2> HIDE DEF x
    <2>4. TestTrail(x, remaining, rt, kn)
      <3>1. ExecutionTested(x, rt, kn) BY <2>2 DEF TestTrail, ExecutionTested
      <3>2. ASSUME NEW e \in Execs, NEW n \in Attempts, Fresh(x, e, n)
            PROVE  Fresh(wf, e, n)
        <4>1. n \in Nat BY DEF Attempts
        <4>2. QED BY <1>0, <2>2, <3>2, <4>1 DEF Fresh
      <3>3. QED BY <3>1, <3>2 DEF TestTrail, RunsOnce
    <2>5. wf.call = "runSandbox" => Fresh(wf, wf.exec, wf.n + 1)
      BY <1>0 DEF Fresh
    <2>6. TestTrail(x, remaining \cup {Begin(x.exec, x.call, x.n, Argument(x, x.call))}, rt, kn)
      <3>1. wf.call = "runSandbox" =>
              /\ rt[<<wf.exec, wf.n + 1>>].status = "absent"
              /\ \A a \in remaining : ~(a.call = "runSandbox" /\ a.exec = wf.exec /\ a.n = wf.n + 1)
        BY <1>0, <2>1, <2>5 DEF TestTrail, RunsOnce
      <3>2. QED BY <1>0, <2>2, <2>4, <3>1, BeginTested
    <2>7. QED BY <2>2, <2>3, <2>6
  <1>2. CASE ~(wf.n < MaxAttempts) /\ wf.call # "markFailed"
    <2> DEFINE x == Awaiting(wf, "markFailed")
    <2>1. Await(wf, "markFailed", remaining) BY <1>2 DEF Retry
    <2>2. "markFailed" \in Calls BY DEF Calls
    <2>3. x.exec = wf.exec /\ x.call = "markFailed" BY <1>0 DEF Awaiting, Execution
    <2> HIDE DEF x
    <2>4. TestTrail(x, remaining, rt, kn) BY <2>3, PastTests
    <2>5. TestTrail(Awaiting(wf, "markFailed"), remaining, rt, kn)
      BY <2>4 DEF x
    <2>6. QED BY <1>0, <2>1, <2>2, <2>5, AwaitTested
  <1>3. CASE ~(wf.n < MaxAttempts) /\ wf.call = "markFailed"
    <2>1. wf' = [wf EXCEPT !.status = "Failed"] /\ running' = remaining
      BY <1>3 DEF Retry
    <2>2. wf'.exec = wf.exec /\ wf'.status = "Failed" BY <1>0, <2>1 DEF Execution
    <2>3. QED BY <2>1, <2>2, PastTests
  <1>4. QED BY <1>1, <1>2, <1>3

LEMMA ThrowTested ==
  ASSUME TypeInv, NEW rt, NEW kn, NEW a \in running,
         TestTrail(wf, running \ {a}, rt, kn), Throw(a)
  PROVE  TestTrail(wf', running', rt, kn)
  <1>0. running \ {a} \in SUBSET Attempt BY DEF TypeInv, TypeOK
  <1>1. CASE Live(a)
    <2>1. wf.call # "gate" /\ wf.status = "Running"
      BY <1>1 DEF TypeInv, TypeOK, Live, Attempt, AttemptRecord, Calls, StateCalls
    <2>2. QED BY <1>0, <1>1, <2>1, RetryTested DEF Throw
  <1>2. CASE ~Live(a) BY <1>2 DEF Throw
  <1>3. QED BY <1>1, <1>2

(* What attempt a leaves when it returns: its version, or its run.         *)
LEMMA ReturnTested ==
  ASSUME TypeInv, NEW rt, NEW kn, NEW a \in running,
         TestTrail(wf, running \ {a}, rt, kn),
         a.call = "generateCode" => <<a.exec, a.n>> \in kn,
         a.call = "runSandbox" /\ a.result = "succeeded" => Passed(a.exec, rt),
         Return(a)
  PROVE  TestTrail(wf', running', rt, kn)
  <1>0. /\ a \in Attempt /\ running \ {a} \in SUBSET Attempt /\ wf \in Execution
        /\ 1 \in Attempts
    BY AttemptsAssumption DEF TypeInv, TypeOK, Attempts
  <1>1. CASE ~Live(a) BY <1>1 DEF Return
  <1>2. CASE Live(a)
    <2>0. /\ wf.status = "Running" /\ wf.exec \in Execs
          /\ wf.call = a.call /\ wf.exec = a.exec
      BY <1>0, <1>2 DEF Live, TypeInv
    <2> DEFINE w == IF a.call = "generateCode"
                    THEN [wf EXCEPT !.generated = <<a.exec, a.n>>] ELSE wf
    <2>1. /\ w \in Execution /\ w.exec = wf.exec /\ w.status = "Running" /\ w.call = wf.call
          /\ a.call = "generateCode" => w.generated = <<a.exec, a.n>>
      <3>1. <<a.exec, a.n>> \in Versions BY <1>0 DEF Attempt, AttemptRecord, Versions
      <3>2. QED BY <1>0, <2>0, <3>1 DEF Execution
    <2> HIDE DEF w
    <2>3. CASE NextCall(a) \in Calls /\ Await(w, NextCall(a), running \ {a})
      <3> DEFINE x == Awaiting(w, NextCall(a))
      <3>1. /\ x.exec = wf.exec /\ x.status = "Running" /\ x.call = NextCall(a)
            /\ x.n = 1 /\ x.generated = w.generated
        BY <2>1, <2>3 DEF Awaiting, Execution
      <3>2. NextCall(a) # "Generating" BY DEF NextCall
      <3>3. NextCall(a) = "generateCode" => a.call = "Generating" BY DEF NextCall
      <3>4. NextCall(a) = "runSandbox" => a.call = "generateCode" BY DEF NextCall
      <3>5. NextCall(a) = "Tested" => a.call = "runSandbox" /\ a.result = "succeeded"
        BY DEF NextCall
      <3> HIDE DEF x
      <3>6. ExecutionTested(x, rt, kn)
        <4>1. a.call = "generateCode" => w.generated[1] = a.exec /\ w.generated \in kn
          BY <2>1
        <4>2. QED BY <2>0, <3>1, <3>4, <3>5, <4>1 DEF ExecutionTested
      <3>7. ASSUME NEW e \in Execs, NEW n \in Attempts, Fresh(x, e, n)
            PROVE  Fresh(wf, e, n)
        BY <2>0, <3>1, <3>2, <3>3, <3>4, <3>7 DEF Fresh
      <3>8. TestTrail(x, running \ {a}, rt, kn)
        BY <3>6, <3>7 DEF TestTrail, RunsOnce
      <3>9. ASSUME NextCall(a) = "runSandbox" PROVE NotBegun(w, running \ {a}, rt)
        <4>1. Fresh(wf, wf.exec, 1) BY <2>0, <3>4, <3>9 DEF Fresh
        <4>2. QED BY <1>0, <2>0, <2>1, <4>1 DEF TestTrail, RunsOnce, NotBegun
      <3>10. TestTrail(Awaiting(w, NextCall(a)), running \ {a}, rt, kn)
        BY <3>8 DEF x
      <3>11. QED BY <1>0, <2>0, <2>1, <2>3, <3>9, <3>10, AwaitTested
    <2>4. CASE /\ wf' = [w EXCEPT !.call = "gate"] /\ running' = running \ {a}
      <3>1. wf'.exec = wf.exec /\ wf'.call = "gate" BY <2>1, <2>4 DEF Execution
      <3>2. QED BY <2>4, <3>1, PastTests
    <2>5. CASE /\ wf' = [w EXCEPT !.status =
                            IF a.call = "markFailed" THEN "Failed" ELSE "Completed"]
               /\ running' = running \ {a}
      <3>1. wf'.exec = wf.exec /\ wf'.status # "Running" BY <2>1, <2>5 DEF Execution
      <3>2. QED BY <2>5, <3>1, PastTests
    <2>6. QED BY <1>2, <2>3, <2>4, <2>5 DEF Return, w
  <1>3. QED BY <1>1, <1>2

(* Attempt a executed its statement, which left the tables rt and kn; the  *)
(* attempt that goes on is the same one, a step further.                   *)
LEMMA ProceedTested ==
  ASSUME TypeInv, NEW rt, NEW kn, NEW a \in running, NEW b \in Attempt,
         b.exec = a.exec, b.call = a.call, b.n = a.n,
         TestTrail(wf, running \ {a}, rt, kn),
         RunsOnce(wf, running, runs),
         AttemptTested([b EXCEPT !.step = a.step + 1], rt, kn),
         a.call = "generateCode" => <<a.exec, a.n>> \in kn,
         a.step = Len(Body(a.call)) /\ a.call = "runSandbox" /\ a.result = "succeeded"
            => Passed(a.exec, rt),
         Proceed(a, b)
  PROVE  TestTrail(wf', running', rt, kn)
  <1>1. CASE a.step = Len(Body(a.call)) /\ Return(a) BY <1>1, ReturnTested
  <1>2. CASE running' = running \ {a} /\ UNCHANGED wf BY <1>2
  <1>3. CASE /\ running' = (running \ {a}) \cup {[b EXCEPT !.step = a.step + 1]}
             /\ UNCHANGED wf
    <2> DEFINE c == [b EXCEPT !.step = a.step + 1]
    <2>1. c.exec = a.exec /\ c.call = a.call /\ c.n = a.n
      BY DEF Attempt, AttemptRecord
    <2>2. running' = (running \ {a}) \cup {c} BY <1>3
    <2>3. AttemptTested(c, rt, kn) OBVIOUS
    <2> HIDE DEF c
    <2>4. RunsOnce(wf, (running \ {a}) \cup {c}, rt)
      <3>1. ASSUME NEW e \in Execs, NEW n \in Attempts, Fresh(wf, e, n)
            PROVE  ~(c.call = "runSandbox" /\ c.exec = e /\ c.n = n)
        BY <2>1, <3>1 DEF RunsOnce
      <3>2. ASSUME NEW o \in running \ {a} PROVE ~SameRun(o, c) /\ ~SameRun(c, o)
        BY <2>1 DEF RunsOnce, SameRun
      <3>3. QED BY <3>1, <3>2 DEF TestTrail, RunsOnce
    <2>5. QED BY <1>3, <2>2, <2>3, <2>4 DEF TestTrail
  <1>4. QED BY <1>1, <1>2, <1>3 DEF Proceed

LEMMA PassGateTested ==
  ASSUME TypeInv, NEW rt, NEW kn, TestTrail(wf, running, rt, kn), AtGate, PassGate(wf)
  PROVE  TestTrail(wf', running', rt, kn)
  <1>0. /\ running \in SUBSET Attempt /\ wf \in Execution /\ wf.exec \in Execs
        /\ wf.status = "Running" /\ "Draft" \in Calls /\ "Approved" \in Calls
    BY DEF TypeInv, TypeOK, AtGate, Calls, StateCalls
  <1>1. ASSUME NEW w \in Execution, w.exec = wf.exec, w.status = "Running",
               NEW c \in {"Draft", "Approved"}, Await(w, c, running)
        PROVE  TestTrail(wf', running', rt, kn)
    <2>1. Awaiting(w, c).exec = wf.exec /\ Awaiting(w, c).call = c
      BY <1>1 DEF Awaiting, Execution
    <2>2. TestTrail(Awaiting(w, c), running, rt, kn) BY <2>1, PastTests
    <2>3. QED BY <1>0, <1>1, <2>2, AwaitTested
  <1>2. CASE Await(wf, "Draft", running) BY <1>0, <1>1, <1>2
  <1>3. CASE Await([wf EXCEPT !.captured = wf.approved], "Approved", running)
    <2> DEFINE w == [wf EXCEPT !.captured = wf.approved]
    <2>1. w \in Execution /\ w.exec = wf.exec /\ w.status = "Running"
      BY <1>0 DEF Execution
    <2>2. Await(w, "Approved", running) BY <1>3
    <2> HIDE DEF w
    <2>3. QED BY <1>1, <2>1, <2>2
  <1>4. QED BY <1>2, <1>3 DEF PassGate

(* Only one attempt writes a run row, and not once it has succeeded.       *)
LEMMA RowWritten ==
  ASSUME TypeInv, TestTrail(wf, running, runs, versions), NEW a \in running,
         a.call = "runSandbox", a.step <= 3, NEW rt,
         \A e \in Execs, n \in Attempts :
            <<e, n>> # <<a.exec, a.n>> => rt[<<e, n>>] = runs[<<e, n>>]
  PROVE  /\ TestTrail(wf, running \ {a}, rt, versions)
         /\ \A e \in Execs : Passed(e, runs) => Passed(e, rt)
  <1>0. /\ running \subseteq Attempt /\ a.exec \in Execs /\ a.n \in Attempts
        /\ wf \in Execution /\ (wf.status = "Running" => wf.exec \in Execs)
    BY DEF TypeInv, TypeOK, Attempt, AttemptRecord
  <1>1. runs[<<a.exec, a.n>>].status # "succeeded"
    BY DEF TestTrail, AttemptTested
  <1>2. ASSUME NEW e \in Execs, Passed(e, runs) PROVE Passed(e, rt)
    <2>1. PICK n \in Attempts : /\ runs[<<e, n>>].status = "succeeded"
                                /\ runs[<<e, n>>].version[1] = e
      BY <1>2 DEF Passed
    <2>2. <<e, n>> # <<a.exec, a.n>> BY <1>1, <2>1
    <2>3. QED BY <2>1, <2>2 DEF Passed
  <1>3. ExecutionTested(wf, rt, versions)
    BY <1>0, <1>2 DEF TestTrail, ExecutionTested
  <1>4. ASSUME NEW o \in running \ {a} PROVE AttemptTested(o, rt, versions)
    <2>1. /\ AttemptTested(o, runs, versions) /\ o.exec \in Execs /\ o.n \in Attempts
      BY <1>0 DEF TestTrail, Attempt, AttemptRecord
    <2>2. ~SameRun(a, o) BY DEF TestTrail, RunsOnce
    <2>3. o.call = "runSandbox" => <<o.exec, o.n>> # <<a.exec, a.n>>
      BY <2>2 DEF SameRun
    <2>4. o.call = "runSandbox" => rt[<<o.exec, o.n>>] = runs[<<o.exec, o.n>>]
      BY <2>1, <2>3
    <2>5. QED BY <1>2, <2>1, <2>4 DEF AttemptTested
  <1>5. RunsOnce(wf, running \ {a}, rt)
    <2>1. ASSUME NEW e \in Execs, NEW n \in Attempts, Fresh(wf, e, n)
          PROVE  <<e, n>> # <<a.exec, a.n>>
      BY <2>1 DEF TestTrail, RunsOnce
    <2>2. QED BY <2>1 DEF TestTrail, RunsOnce
  <1>6. QED BY <1>2, <1>3, <1>4, <1>5 DEF TestTrail

LEMMA MoreVersions ==
  ASSUME NEW w, NEW attempts, NEW rt, NEW kn, NEW more, kn \subseteq more,
         TestTrail(w, attempts, rt, kn)
  PROVE  TestTrail(w, attempts, rt, more)
  BY DEF TestTrail, ExecutionTested, AttemptTested

RunTrail ==
    /\ TestTrail(wf, running, runs, versions)
    /\ state = "Tested" => writer.exec \in Execs /\ Passed(writer.exec, runs)
    /\ approvals \subseteq versions

LEMMA RunTrailNext ==
  ASSUME TestTrail(wf', running', runs', versions'),
         state' = "Tested" => writer'.exec \in Execs /\ Passed(writer'.exec, runs'),
         approvals' \subseteq versions'
  PROVE  RunTrail'
  BY DEF RunTrail, TestTrail, ExecutionTested, AttemptTested, RunsOnce, Fresh,
         SameRun, Passed

(* A statement that writes neither runs nor versions.                      *)
LEMMA PlainStatement ==
  ASSUME TypeInv, RunTrail, NEW a \in running, NEW b \in Attempt,
         b.exec = a.exec, b.call = a.call, b.n = a.n, b.ver = a.ver, b.step = a.step,
         b.call = "runSandbox" => a.step \in {2, 4} /\ (a.step = 4 => b.result = a.result),
         a.step <= Len(Body(a.call)),
         a.call = "generateCode" => a.step = 2,
         Proceed(a, b)
  PROVE  TestTrail(wf', running', runs, versions)
  <1>0. a \in Attempt /\ a.exec \in Execs /\ a.n \in Attempts /\ AttemptTested(a, runs, versions)
    BY DEF TypeInv, TypeOK, RunTrail, TestTrail, Attempt, AttemptRecord
  <1>1. TestTrail(wf, running \ {a}, runs, versions) /\ RunsOnce(wf, running, runs)
    BY FewerTested DEF RunTrail, TestTrail
  <1>2. a.call = "runSandbox" /\ a.step = 4 /\ a.result = "succeeded" => Passed(a.exec, runs)
    BY <1>0 DEF AttemptTested, Passed
  <1>3. a.call = "runSandbox" => Len(Body(a.call)) = 4 BY DEF Body
  <1> DEFINE c == [b EXCEPT !.step = a.step + 1]
  <1>4. /\ c.exec = a.exec /\ c.call = a.call /\ c.n = a.n /\ c.ver = a.ver
        /\ c.step = a.step + 1
    BY DEF Attempt, AttemptRecord
  <1> HIDE DEF c
  <1>5. AttemptTested(c, runs, versions)
    BY <1>0, <1>4 DEF AttemptTested, Attempt, AttemptRecord
  <1>6. AttemptTested([b EXCEPT !.step = a.step + 1], runs, versions) BY <1>5 DEF c
  <1>7. a.call = "generateCode" => <<a.exec, a.n>> \in versions
    BY <1>0 DEF AttemptTested
  <1>8. QED BY <1>1, <1>2, <1>3, <1>6, <1>7, ProceedTested

LEMMA GenerateSteps ==
  ASSUME NEW a \in Attempt, NEW stmt, At(a, stmt)
  PROVE  /\ stmt = "insert" => a.call = "generateCode" /\ a.step = 1
         /\ a.call = "generateCode" => \/ stmt = "insert" /\ a.step = 1
                                       \/ stmt = "audit" /\ a.step = 2
  <1>0. a.step \in 1 .. 4 /\ a.call \in Calls BY DEF Attempt, AttemptRecord
  <1>1. CASE a.call = "generateCode" BY <1>0, <1>1 DEF Body, At
  <1>2. CASE a.call = "runSandbox"   BY <1>0, <1>2 DEF Body, At
  <1>3. CASE a.call \notin {"generateCode", "runSandbox"} BY <1>0, <1>3 DEF Body, At
  <1>4. QED BY <1>1, <1>2, <1>3

LEMMA StatementTested ==
  ASSUME TypeInv, RunTrail, NEW a \in running, Statement(a) \/ StatementFails(a)
  PROVE  RunTrail'
  <1>0. /\ a \in Attempt /\ a.exec \in Execs /\ a.n \in Attempts
        /\ AttemptTested(a, runs, versions) /\ RunsOnce(wf, running, runs)
        /\ TestTrail(wf, running, runs, versions)
        /\ TestTrail(wf, running \ {a}, runs, versions)
        /\ runs \in [RunIds -> [version : Versions \cup {NoVersion},
                                status : RunStatus \cup {"absent"}]]
        /\ <<a.exec, a.n>> \in RunIds
        /\ state = "Tested" => writer.exec \in Execs /\ Passed(writer.exec, runs)
        /\ approvals \subseteq versions
        /\ a.step \in 1 .. 4
    BY FewerTested DEF TypeInv, TypeOK, RunTrail, TestTrail, Attempt, AttemptRecord, RunIds
  <1>1. CASE WriteState(a)
    <2>1. /\ a.call \in StateCalls \cup {"deployToRunner"} /\ a.step <= Len(Body(a.call))
          /\ a.call # "generateCode" /\ a.call # "runSandbox"
      BY <1>0, <1>1, StatementOf DEF WriteState, StateCalls
    <2>2. TestTrail(wf', running', runs, versions)
      BY <1>0, <1>1, <2>1, PlainStatement DEF WriteState
    <2>3. state' = "Tested" => a.call = "Tested" /\ writer'.exec = a.exec
      BY <1>1 DEF WriteState, SetState
    <2>4. state' = "Tested" => writer'.exec \in Execs /\ Passed(writer'.exec, runs)
      BY <1>0, <2>3 DEF AttemptTested
    <2>5. UNCHANGED <<runs, versions, approvals>> BY <1>1 DEF WriteState
    <2>6. QED BY <1>0, <2>2, <2>4, <2>5, RunTrailNext
  <1>2. CASE MarkDraft(a)
    <2>1. a.step <= Len(Body(a.call)) /\ a.call # "generateCode" /\ a.call # "runSandbox"
      BY <1>0, <1>2, StatementOf, GenerateSteps DEF MarkDraft
    <2>2. TestTrail(wf', running', runs, versions)
      BY <1>0, <1>2, <2>1, PlainStatement DEF MarkDraft
    <2>3. state' = "Tested" => state = "Tested" /\ writer' = writer
      BY <1>2 DEF MarkDraft, SetState
    <2>4. UNCHANGED <<runs, versions, approvals>> BY <1>2 DEF MarkDraft
    <2>5. QED BY <1>0, <2>2, <2>3, <2>4, RunTrailNext
  <1>3. CASE InsertVersion(a)
    <2>1. a.call = "generateCode" /\ a.step = 1
      BY <1>0, <1>3, GenerateSteps DEF InsertVersion
    <2>2. /\ versions' = versions \cup {<<a.exec, a.n>>} /\ Proceed(a, a)
          /\ UNCHANGED <<state, runs, writer, approvals>>
      BY <1>3 DEF InsertVersion, history
    <2>3. TestTrail(wf, running \ {a}, runs, versions')
      BY <1>0, <2>2, MoreVersions
    <2> DEFINE c == [a EXCEPT !.step = a.step + 1]
    <2>4. c.call = "generateCode" /\ c.exec = a.exec /\ c.n = a.n
      BY <1>0, <2>1 DEF Attempt, AttemptRecord
    <2> HIDE DEF c
    <2>5. AttemptTested(c, runs, versions') BY <2>2, <2>4 DEF AttemptTested
    <2>6. AttemptTested([a EXCEPT !.step = a.step + 1], runs, versions') BY <2>5 DEF c
    <2>7. TestTrail(wf', running', runs, versions')
      BY <1>0, <2>1, <2>2, <2>3, <2>6, ProceedTested
    <2>8. QED BY <1>0, <2>2, <2>7, RunTrailNext
  <1>4. CASE CreateRun(a)
    <2>1. a.call = "runSandbox" /\ a.step = 1 BY <1>0, <1>4, StatementOf DEF CreateRun
    <2>2. /\ runs' = [runs EXCEPT ![<<a.exec, a.n>>] =
                            [version |-> a.ver, status |-> "running"]]
          /\ Proceed(a, a) /\ UNCHANGED <<state, versions, writer, approvals>>
      BY <1>4 DEF CreateRun, history
    <2>3. \A e \in Execs, n \in Attempts :
            <<e, n>> # <<a.exec, a.n>> => runs'[<<e, n>>] = runs[<<e, n>>]
      BY <1>0, <2>2 DEF RunIds
    <2>4. /\ TestTrail(wf, running \ {a}, runs', versions)
          /\ \A e \in Execs : Passed(e, runs) => Passed(e, runs')
      BY <1>0, <2>1, <2>3, RowWritten
    <2> DEFINE c == [a EXCEPT !.step = a.step + 1]
    <2>5. /\ c.call = "runSandbox" /\ c.exec = a.exec /\ c.n = a.n /\ c.ver = a.ver
          /\ c.step = 2
      BY <1>0, <2>1 DEF Attempt, AttemptRecord
    <2>6. runs'[<<a.exec, a.n>>] = [version |-> a.ver, status |-> "running"]
      BY <1>0, <2>2
    <2> HIDE DEF c
    <2>7. AttemptTested(c, runs', versions)
      BY <1>0, <2>1, <2>5, <2>6 DEF AttemptTested
    <2>8. AttemptTested([a EXCEPT !.step = a.step + 1], runs', versions) BY <2>7 DEF c
    <2>9. Len(Body(a.call)) = 4 BY <2>1 DEF Body
    <2>p. Proceed(a, a) BY <2>2
    <2>10. TestTrail(wf', running', runs', versions)
      <3>1. a \in Attempt /\ RunsOnce(wf, running, runs) BY <1>0
      <3>2. a.call # "generateCode" /\ a.step # Len(Body(a.call)) BY <2>1, <2>9
      <3>3. TestTrail(wf, running \ {a}, runs', versions) BY <2>4
      <3>4. QED BY <2>8, <2>p, <3>1, <3>2, <3>3, ProceedTested
    <2>11. state' = "Tested" => writer'.exec \in Execs /\ Passed(writer'.exec, runs')
      BY <1>0, <2>2, <2>4
    <2>12. QED BY <1>0, <2>2, <2>10, <2>11, RunTrailNext
  <1>5. CASE RunInSandbox(a)
    <2>1. a.call = "runSandbox" /\ a.step = 2 /\ a.step <= Len(Body(a.call))
      BY <1>0, <1>5, StatementOf DEF RunInSandbox
    <2>2. PICK r \in SandboxStatus \cup {"error"} : Proceed(a, [a EXCEPT !.result = r])
      BY <1>5 DEF RunInSandbox
    <2> DEFINE b == [a EXCEPT !.result = r]
    <2>3. /\ b \in Attempt /\ b.exec = a.exec /\ b.call = a.call /\ b.ver = a.ver
          /\ b.n = a.n /\ b.step = a.step
      BY <1>0 DEF Attempt, AttemptRecord, SandboxStatus
    <2>4. Proceed(a, b) BY <2>2
    <2> HIDE DEF b
    <2>5. TestTrail(wf', running', runs, versions)
      BY <2>1, <2>3, <2>4, PlainStatement
    <2>6. UNCHANGED <<state, runs, versions, writer, approvals>>
      BY <1>5 DEF RunInSandbox, rows, history
    <2>7. QED BY <1>0, <2>5, <2>6, RunTrailNext
  <1>6. CASE FinishRun(a)
    <2>1. a.call = "runSandbox" /\ a.step = 3 BY <1>0, <1>6, StatementOf DEF FinishRun
    <2>2. /\ runs' = [runs EXCEPT ![<<a.exec, a.n>>].status =
                            IF a.result = "error" THEN "failed" ELSE a.result]
          /\ UNCHANGED <<state, versions, writer, approvals>>
      BY <1>6 DEF FinishRun, history
    <2>3. \A e \in Execs, n \in Attempts :
            <<e, n>> # <<a.exec, a.n>> => runs'[<<e, n>>] = runs[<<e, n>>]
      BY <1>0, <2>2 DEF RunIds
    <2>4. /\ TestTrail(wf, running \ {a}, runs', versions)
          /\ \A e \in Execs : Passed(e, runs) => Passed(e, runs')
      BY <1>0, <2>1, <2>3, RowWritten
    <2>5. TestTrail(wf', running', runs', versions)
      <3>1. CASE a.result = "error"
        <4>1. Throw(a) BY <1>6, <3>1 DEF FinishRun
        <4>2. QED BY <2>4, <4>1, ThrowTested
      <3>2. CASE a.result # "error"
        <4> DEFINE c == [a EXCEPT !.step = a.step + 1]
        <4>1. /\ c.call = "runSandbox" /\ c.exec = a.exec /\ c.n = a.n /\ c.ver = a.ver
              /\ c.step = 4 /\ c.result = a.result
          BY <1>0, <2>1 DEF Attempt, AttemptRecord
        <4>2. /\ runs'[<<a.exec, a.n>>].status = a.result
              /\ runs'[<<a.exec, a.n>>].version = runs[<<a.exec, a.n>>].version
          BY <1>0, <2>2, <3>2
        <4> HIDE DEF c
        <4>3. AttemptTested(c, runs', versions)
          BY <1>0, <2>1, <4>1, <4>2 DEF AttemptTested
        <4>4. AttemptTested([a EXCEPT !.step = a.step + 1], runs', versions)
          BY <4>3 DEF c
        <4>5. Len(Body(a.call)) = 4 BY <2>1 DEF Body
        <4>6. Proceed(a, a) BY <1>6, <3>2 DEF FinishRun
        <4>7. a \in Attempt /\ RunsOnce(wf, running, runs) BY <1>0
        <4>8. a.call # "generateCode" /\ a.step # Len(Body(a.call)) BY <2>1, <4>5
        <4>9. TestTrail(wf, running \ {a}, runs', versions) BY <2>4
        <4>10. QED BY <4>4, <4>6, <4>7, <4>8, <4>9, ProceedTested
      <3>3. QED BY <3>1, <3>2
    <2>6. state' = "Tested" => writer'.exec \in Execs /\ Passed(writer'.exec, runs')
      BY <1>0, <2>2, <2>4
    <2>7. QED BY <1>0, <2>2, <2>5, <2>6, RunTrailNext
  <1>7. CASE Pin(a) \/ RecordAudit(a)
    <2>1. \E stmt \in {"pin", "audit"} : At(a, stmt) BY <1>7 DEF Pin, RecordAudit
    <2>2. /\ a.step <= Len(Body(a.call))
          /\ a.call = "runSandbox" => a.step = 4
          /\ a.call = "generateCode" => a.step = 2
      BY <1>0, <2>1, StatementOf, GenerateSteps
    <2>3. Proceed(a, a) /\ UNCHANGED <<state, runs, versions, writer, approvals>>
      BY <1>7 DEF Pin, RecordAudit, rows, history
    <2>4. TestTrail(wf', running', runs, versions)
      BY <1>0, <2>2, <2>3, PlainStatement
    <2>5. QED BY <1>0, <2>3, <2>4, RunTrailNext
  <1>8. CASE StatementFails(a)
    <2>1. Throw(a) /\ UNCHANGED <<state, runs, versions, writer, approvals>>
      BY <1>8 DEF StatementFails, rows, history
    <2>2. TestTrail(wf', running', runs, versions) BY <1>0, <2>1, ThrowTested
    <2>3. QED BY <1>0, <2>1, <2>2, RunTrailNext
  <1>9. QED BY <1>1, <1>2, <1>3, <1>4, <1>5, <1>6, <1>7, <1>8 DEF Statement

LEMMA NextTested ==
  ASSUME TypeInv, ApprovalTrail, RunTrail, [Next]_vars
  PROVE  RunTrail'
  <1>0. /\ wf \in Execution /\ running \in SUBSET Attempt
        /\ (wf.status = "Running" => wf.exec \in Execs)
        /\ TestTrail(wf, running, runs, versions)
        /\ state = "Tested" => writer.exec \in Execs /\ Passed(writer.exec, runs)
        /\ approvals \subseteq versions
    BY DEF TypeInv, TypeOK, RunTrail
  <1>r. ASSUME TestTrail(wf', running', runs, versions),
               UNCHANGED <<state, writer, runs, versions>>,
               approvals' \subseteq versions
        PROVE  RunTrail'
    BY <1>0, <1>r, RunTrailNext
  <1>1. ASSUME NEW a \in running, Statement(a) \/ StatementFails(a) PROVE RunTrail'
    BY <1>1, StatementTested
  <1>2. CASE AttemptTimesOut
    BY <1>0, <1>2, <1>r, RetryTested DEF AttemptTimesOut, rows, history
  <1>3. CASE GateTimesOut
    BY <1>0, <1>3, <1>r, PassGateTested DEF GateTimesOut, rows, history
  <1>4. CASE Decide
    BY <1>0, <1>4, <1>r, PassGateTested DEF Decide, rows, history
  <1>5. CASE WorkerCrash
    <2>1. TestTrail(wf', running', runs, versions) BY <1>0, <1>5, FewerTested DEF WorkerCrash
    <2>2. QED BY <1>0, <1>5, <1>r, <2>1 DEF WorkerCrash, rows, history
  <1>6. CASE Test
    <2> DEFINE w == [exec |-> wf.exec + 1, status |-> "Running", call |-> "Generating",
              n |-> 1, generated |-> NoVersion, captured |-> NoVersion,
              approved |-> NoVersion, rejected |-> FALSE]
    <2>1. wf.exec + 1 \in Execs /\ wf.exec + 1 \in 0 .. MaxExecs /\ wf.exec \in Nat
      BY <1>0, <1>6, ExecsAssumption DEF Test, Execution, Execs
    <2>2. 1 \in Attempts BY AttemptsAssumption DEF Attempts
    <2>3. "Generating" \in Calls BY DEF Calls, StateCalls
    <2>4. w \in Execution /\ w.exec = wf.exec + 1 /\ w.status = "Running"
      BY <2>1, <2>2, <2>3 DEF Execution
    <2>5. Await(w, "Generating", running) BY <1>6 DEF Test
    <2> HIDE DEF w
    <2> DEFINE x == Awaiting(w, "Generating")
    <2>6. x.exec = wf.exec + 1 /\ x.call = "Generating" BY <2>4 DEF Awaiting, Execution
    <2> HIDE DEF x
    <2>7. TestTrail(x, running, runs, versions)
      <3>1. ASSUME NEW e \in Execs, NEW n \in Attempts, Fresh(x, e, n)
            PROVE  Fresh(wf, e, n)
        <4>1. e \in Nat BY DEF Execs
        <4>2. QED BY <2>1, <2>6, <3>1, <4>1 DEF Fresh
      <3>2. QED BY <1>0, <2>6, <3>1 DEF TestTrail, RunsOnce, ExecutionTested
    <2>8. TestTrail(wf', running', runs, versions)
      BY <1>0, <2>1, <2>3, <2>4, <2>5, <2>7, AwaitTested DEF x
    <2>9. QED BY <1>0, <1>6, <1>r, <2>8 DEF Test, rows, history
  <1>7. ASSUME \/ \E v \in versions : Approve(v)
               \/ Reject
        PROVE  RunTrail'
    <2>1. /\ wf'.exec = wf.exec /\ wf'.status = wf.status /\ wf'.call = wf.call
          /\ wf'.n = wf.n /\ wf'.generated = wf.generated /\ running' = running
      BY <1>0, <1>7 DEF Approve, Reject, Execution
    <2>2. TestTrail(wf', running', runs, versions)
      BY <1>0, <2>1 DEF TestTrail, ExecutionTested, RunsOnce, Fresh
    <2>3. UNCHANGED <<state, writer, runs, versions>> /\ approvals' \subseteq versions
      BY <1>0, <1>7 DEF Approve, Reject, rows
    <2>4. QED BY <1>r, <2>2, <2>3
  <1>8. CASE UNCHANGED vars
    BY <1>0, <1>8, <1>r DEF vars
  <1>9. QED
    BY <1>1, <1>2, <1>3, <1>4, <1>5, <1>6, <1>7, <1>8 DEF Next, WorkerStep, Timer, Request

LEMMA InitTested == Init => RunTrail
  <1> SUFFICES ASSUME Init PROVE RunTrail OBVIOUS
  <1>1. /\ wf.exec = 0 /\ wf.status = "None" /\ running = {} /\ approvals = {}
        /\ state = "Draft" /\ versions = {}
        /\ runs = [r \in RunIds |-> [version |-> NoVersion, status |-> "absent"]]
    BY DEF Init
  <1>2. \A e \in Execs, n \in Attempts : runs[<<e, n>>].status = "absent"
    BY <1>1 DEF RunIds
  <1>3. RunsOnce(wf, running, runs) BY <1>1, <1>2 DEF RunsOnce
  <1>4. QED BY <1>1, <1>3 DEF RunTrail, TestTrail, ExecutionTested
-----------------------------------------------------------------------------
(* How an execution comes to its end.                                      *)

Deployment(w) == <<"integration.deployed", w.exec, w.captured>>

SettledTrail ==
    /\ wf.status = "Running" /\ wf.call = "Deployed" => Deployment(wf) \in audit
    /\ CompletedIsSettled

(* The step neither completes the execution nor brings it to its last call.*)
Goes == /\ wf'.status = "Completed" => wf' = wf
        /\ wf'.status = "Running" /\ wf'.call = "Deployed" =>
              /\ wf.status = "Running" /\ wf.call = "Deployed"
              /\ wf'.exec = wf.exec /\ wf'.captured = wf.captured

(* The step is the return of attempt a, which does.                        *)
Ends(a) == /\ Live(a) /\ a.step = Len(Body(a.call))
           /\ wf'.exec = wf.exec /\ wf'.captured = wf.captured
           /\ \/ wf'.status = "Completed" /\ a.call \in {"Draft", "Deployed"}
              \/ wf'.status = "Running" /\ a.call = "deployToRunner"

LEMMA AwaitGoes ==
  ASSUME NEW w \in Execution, w.status = "Running", NEW c \in Calls \ {"Deployed"},
         NEW others, Await(w, c, others)
  PROVE  Goes
  BY DEF Await, Goes, Execution

LEMMA RetryGoes ==
  ASSUME wf \in Execution, wf.status = "Running", wf.call # "gate",
         NEW others, Retry(others)
  PROVE  Goes
  <1>1. CASE wf.n < MaxAttempts BY <1>1 DEF Retry, Goes, Execution
  <1>2. CASE ~(wf.n < MaxAttempts) /\ wf.call # "markFailed"
    BY <1>2, AwaitGoes DEF Retry, Calls
  <1>3. CASE ~(wf.n < MaxAttempts) /\ wf.call = "markFailed"
    BY <1>3 DEF Retry, Goes, Execution
  <1>4. QED BY <1>1, <1>2, <1>3

LEMMA ThrowGoes ==
  ASSUME TypeInv, NEW a \in running, Throw(a)
  PROVE  Goes
  <1>1. CASE Live(a)
    <2>1. wf.call # "gate" /\ wf.status = "Running" /\ wf \in Execution
      BY <1>1 DEF TypeInv, TypeOK, Live, Attempt, AttemptRecord, Calls, StateCalls
    <2>2. QED BY <1>1, <2>1, RetryGoes DEF Throw
  <1>2. CASE ~Live(a) BY <1>2 DEF Throw, Goes
  <1>3. QED BY <1>1, <1>2

LEMMA ReturnGoes ==
  ASSUME TypeInv, NEW a \in running, a.step = Len(Body(a.call)), Return(a)
  PROVE  Goes \/ Ends(a)
  <1>0. a \in Attempt /\ wf \in Execution BY DEF TypeInv, TypeOK
  <1>1. CASE ~Live(a) BY <1>1 DEF Return, Goes
  <1>2. CASE Live(a)
    <2>0. wf.status = "Running" /\ wf.call = a.call /\ a.call \in Calls
      BY <1>0, <1>2 DEF Live, Attempt, AttemptRecord
    <2> DEFINE w == IF a.call = "generateCode"
                    THEN [wf EXCEPT !.generated = <<a.exec, a.n>>] ELSE wf
    <2>1. /\ w \in Execution /\ w.exec = wf.exec /\ w.status = "Running" /\ w.call = wf.call
          /\ w.captured = wf.captured
      <3>1. <<a.exec, a.n>> \in Versions BY <1>0 DEF Attempt, AttemptRecord, Versions
      <3>2. QED BY <1>0, <2>0, <3>1 DEF Execution
    <2> HIDE DEF w
    <2>2. CASE NextCall(a) \in Calls /\ Await(w, NextCall(a), running \ {a})
      <3>1. CASE NextCall(a) # "Deployed" BY <2>1, <2>2, <3>1, AwaitGoes
      <3>2. CASE NextCall(a) = "Deployed"
        <4>1. a.call = "deployToRunner" BY <3>2 DEF NextCall
        <4>2. /\ wf'.exec = wf.exec /\ wf'.captured = wf.captured
              /\ wf'.status = "Running"
          BY <2>1, <2>2 DEF Await, Execution
        <4>3. QED BY <1>2, <4>1, <4>2 DEF Ends
      <3>3. QED BY <3>1, <3>2
    <2>3. CASE wf' = [w EXCEPT !.call = "gate"]
      BY <2>1, <2>3 DEF Goes, Execution
    <2>4. CASE /\ NextCall(a) = "close"
               /\ wf' = [w EXCEPT !.status =
                            IF a.call = "markFailed" THEN "Failed" ELSE "Completed"]
      <3>1. a.call \in {"Draft", "Deployed", "markFailed"}
        BY <2>0, <2>4 DEF NextCall, Calls, StateCalls
      <3>2. /\ wf'.exec = wf.exec /\ wf'.captured = wf.captured
            /\ wf'.status = IF a.call = "markFailed" THEN "Failed" ELSE "Completed"
        BY <2>1, <2>4 DEF Execution
      <3>3. QED BY <1>2, <3>1, <3>2 DEF Goes, Ends
    <2>5. QED BY <1>2, <2>2, <2>3, <2>4 DEF Return, w
  <1>3. QED BY <1>1, <1>2

LEMMA ProceedGoes ==
  ASSUME TypeInv, NEW a \in running, NEW b, Proceed(a, b)
  PROVE  Goes \/ Ends(a)
  <1>1. CASE a.step = Len(Body(a.call)) /\ Return(a) BY <1>1, ReturnGoes
  <1>2. CASE UNCHANGED wf BY <1>2 DEF Goes
  <1>3. QED BY <1>1, <1>2 DEF Proceed

LEMMA GoesOnSettled ==
  ASSUME SettledTrail, Goes, audit \subseteq audit',
         \/ UNCHANGED <<state, writer>>
         \/ wf'.status # "Completed"
         \/ writer'.late
  PROVE  SettledTrail'
  BY DEF SettledTrail, Goes, CompletedIsSettled, Deployment

LEMMA StatementSettled ==
  ASSUME TypeInv, ApprovalTrail, SettledTrail, NEW a \in running,
         Statement(a) \/ StatementFails(a)
  PROVE  SettledTrail'
  <1>0. a \in Attempt /\ wf \in Execution /\ AttemptOnTrail(a, wf, audit)
    BY DEF TypeInv, TypeOK, ApprovalTrail
  <1>1. CASE WriteState(a)
    <2>1. Goes \/ Ends(a) BY <1>1, ProceedGoes DEF WriteState
    <2>2. /\ audit' = audit /\ writer' = [exec |-> a.exec, late |-> ~Live(a)]
          /\ state' = IF a.call = "deployToRunner" THEN "Deployed" ELSE a.call
      BY <1>1 DEF WriteState, SetState
    <2>3. CASE Goes
      <3>1. wf'.status = "Completed" => writer'.late
        BY <2>2, <2>3 DEF Goes, Live
      <3>2. QED BY <2>2, <2>3, <3>1, GoesOnSettled
    <2>4. CASE Ends(a) /\ wf'.status = "Completed"
      <3>1. a.call \in {"Draft", "Deployed"} /\ state' = a.call
        BY <2>2, <2>4 DEF Ends
      <3>2. a.call = "Deployed" => Deployment(wf) \in audit
        BY <2>4 DEF Ends, Live, SettledTrail
      <3>3. QED BY <2>2, <2>4, <3>1, <3>2
              DEF Ends, SettledTrail, CompletedIsSettled, Deployment
    <2>5. CASE Ends(a) /\ a.call = "deployToRunner"
      <3>1. Len(Body(a.call)) = 3 /\ Body(a.call)[3] = "audit" BY <2>5 DEF Body
      <3>2. QED BY <1>1, <2>5, <3>1 DEF Ends, WriteState, At
    <2>6. QED BY <2>1, <2>3, <2>4, <2>5 DEF Ends
  <1>2. CASE MarkDraft(a)
    <2>1. Goes \/ Ends(a) BY <1>2, ProceedGoes DEF MarkDraft
    <2>2. ~Ends(a)
      <3>1. a.step \in 1 .. 4 /\ a.step <= Len(Body(a.call)) /\ Body(a.call)[a.step] = "mark"
        BY <1>0, <1>2 DEF MarkDraft, At, Attempt, AttemptRecord
      <3>2. a.call # "Draft" BY <3>1 DEF Body
      <3>3. a.call # "Deployed" BY <3>1 DEF Body
      <3>4. a.call # "deployToRunner" BY <3>1 DEF Body
      <3>5. QED BY <3>2, <3>3, <3>4 DEF Ends
    <2>3. wf'.status = "Completed" => ~Live(a) BY <2>1, <2>2 DEF Goes, Live
    <2>4. audit' = audit BY <1>2 DEF MarkDraft
    <2>5. CASE SetState(a, "Draft")
      <3>1. writer' = [exec |-> a.exec, late |-> ~Live(a)] BY <2>5 DEF SetState
      <3>2. wf'.status = "Completed" => writer'.late BY <2>3, <3>1
      <3>3. QED BY <2>1, <2>2, <2>4, <3>2, GoesOnSettled
    <2>6. CASE UNCHANGED <<state, writer>> BY <2>1, <2>2, <2>4, <2>6, GoesOnSettled
    <2>7. QED BY <1>2, <2>5, <2>6 DEF MarkDraft
  <1>3. CASE RecordAudit(a)
    <2>1. Goes \/ Ends(a) BY <1>3, ProceedGoes DEF RecordAudit
    <2>2. audit' = audit \cup {AuditEvent(a)} /\ UNCHANGED <<state, writer>>
      BY <1>3 DEF RecordAudit, rows, history
    <2>3. CASE Goes BY <2>2, <2>3, GoesOnSettled
    <2>4. CASE Ends(a)
      <3>1. a.call \notin {"Draft", "Deployed"}
        BY <1>0, <1>3, StatementOf DEF RecordAudit, StateCalls
      <3>2. a.call = "deployToRunner" /\ wf'.status = "Running" BY <2>4, <3>1 DEF Ends
      <3>3. a.ver = wf.captured /\ a.exec = wf.exec
        BY <1>0, <2>4, <3>2 DEF Ends, Live, AttemptOnTrail
      <3>4. AuditEvent(a) = Deployment(wf) BY <3>2, <3>3 DEF AuditEvent, Deployment
      <3>5. QED BY <2>2, <2>4, <3>2, <3>4
              DEF Ends, SettledTrail, CompletedIsSettled, Deployment
    <2>5. QED BY <2>1, <2>3, <2>4
  <1>4. CASE RunInSandbox(a)
    <2>1. PICK r \in SandboxStatus \cup {"error"} : Proceed(a, [a EXCEPT !.result = r])
      BY <1>4 DEF RunInSandbox
    <2> DEFINE b == [a EXCEPT !.result = r]
    <2>2. Proceed(a, b) BY <2>1
    <2> HIDE DEF b
    <2>3. Goes \/ Ends(a) BY <2>2, ProceedGoes
    <2>4. a.call = "runSandbox" BY <1>0, <1>4, StatementOf DEF RunInSandbox
    <2>5. Goes BY <2>3, <2>4 DEF Ends
    <2>6. QED BY <1>4, <2>5, GoesOnSettled DEF RunInSandbox, rows, history
  <1>5. CASE CreateRun(a) \/ FinishRun(a)
    <2>1. a.call = "runSandbox" BY <1>0, <1>5, StatementOf DEF CreateRun, FinishRun
    <2>2. Goes \/ Ends(a) BY <1>5, ProceedGoes, ThrowGoes DEF CreateRun, FinishRun
    <2>3. Goes BY <2>1, <2>2 DEF Ends
    <2>4. QED BY <1>5, <2>3, GoesOnSettled DEF CreateRun, FinishRun, history
  <1>6. CASE InsertVersion(a)
    <2>1. a.call = "generateCode" BY <1>0, <1>6, GenerateSteps DEF InsertVersion
    <2>2. Goes BY <1>6, <2>1, ProceedGoes DEF InsertVersion, Ends
    <2>3. QED BY <1>6, <2>2, GoesOnSettled DEF InsertVersion, history
  <1>7. CASE Pin(a)
    <2>1. a.call = "deployToRunner" BY <1>0, <1>7, StatementOf DEF Pin
    <2>2. a.step # 3 BY <1>7, <2>1 DEF Pin, At, Body
    <2>3. Len(Body(a.call)) = 3 BY <2>1 DEF Body
    <2>4. Goes BY <1>7, <2>2, <2>3, ProceedGoes DEF Pin, Ends
    <2>5. QED BY <1>7, <2>4, GoesOnSettled DEF Pin, history
  <1>8. CASE StatementFails(a)
    BY <1>8, ThrowGoes, GoesOnSettled DEF StatementFails, rows, history
  <1>9. QED BY <1>1, <1>2, <1>3, <1>4, <1>5, <1>6, <1>7, <1>8 DEF Statement

LEMMA PassGateGoes ==
  ASSUME wf \in Execution, wf.status = "Running", PassGate(wf)
  PROVE  Goes
  <1>1. "Draft" \in Calls /\ "Approved" \in Calls BY DEF Calls, StateCalls
  <1>2. CASE Await(wf, "Draft", running) BY <1>1, <1>2, AwaitGoes
  <1>3. CASE Await([wf EXCEPT !.captured = wf.approved], "Approved", running)
    <2> DEFINE w == [wf EXCEPT !.captured = wf.approved]
    <2>1. w \in Execution /\ w.status = "Running" BY DEF Execution
    <2>2. Await(w, "Approved", running) BY <1>3
    <2> HIDE DEF w
    <2>3. QED BY <1>1, <2>1, <2>2, AwaitGoes
  <1>4. QED BY <1>2, <1>3 DEF PassGate

LEMMA NextSettled ==
  ASSUME TypeInv, ApprovalTrail, SettledTrail, [Next]_vars
  PROVE  SettledTrail'
  <1>0. wf \in Execution BY DEF TypeInv, TypeOK
  <1>r. ASSUME Goes, UNCHANGED <<state, writer, audit>> PROVE SettledTrail'
    BY <1>r, GoesOnSettled
  <1>1. ASSUME NEW a \in running, Statement(a) \/ StatementFails(a) PROVE SettledTrail'
    BY <1>1, StatementSettled
  <1>2. CASE AttemptTimesOut
    BY <1>0, <1>2, <1>r, RetryGoes DEF AttemptTimesOut, rows, history
  <1>3. CASE GateTimesOut \/ Decide
    BY <1>0, <1>3, <1>r, PassGateGoes DEF GateTimesOut, Decide, AtGate, rows, history
  <1>4. CASE WorkerCrash
    BY <1>4, <1>r DEF WorkerCrash, Goes, rows, history
  <1>5. CASE Test
    <2>1. wf'.status = "Running" /\ wf'.call = "Generating"
      BY <1>5 DEF Test, Await
    <2>2. QED BY <1>5, <1>r, <2>1 DEF Test, Goes, rows, history
  <1>6. ASSUME \/ \E v \in versions : Approve(v)
               \/ Reject
        PROVE  SettledTrail'
    <2>1. /\ wf'.exec = wf.exec /\ wf'.status = wf.status /\ wf'.call = wf.call
          /\ wf'.captured = wf.captured /\ wf.status = "Running"
      BY <1>0, <1>6 DEF Approve, Reject, Execution
    <2>2. QED BY <1>6, <1>r, <2>1 DEF Approve, Reject, Goes, rows
  <1>7. CASE UNCHANGED vars BY <1>7, <1>r DEF vars, Goes
  <1>8. QED
    BY <1>1, <1>2, <1>3, <1>4, <1>5, <1>6, <1>7 DEF Next, WorkerStep, Timer, Request
-----------------------------------------------------------------------------
(* The clients of the control plane *)

(* How far a call inside the stub has come, and what it has left behind.   *)
RequestOK(r, n, cur, kn, rt) ==
    /\ r.step \in 1 .. Len(StubBody(r.kind))
    /\ r.kind = "start" =>
         /\ r.ver[1] = 1 /\ r.ver[2] \in 1 .. n
         /\ r.step > 2 => r.ver \in kn
         /\ r.step > 3 => cur # NoVersion
         /\ r.step <= 5 => rt[r.ver].status # "succeeded"
         /\ r.step > 5 => rt[r.ver].status = "succeeded" /\ rt[r.ver].version = r.ver
    /\ r.kind = "approve" => r.ver \in kn
    /\ r.kind = "deploy" => cur # NoVersion

SameStart(r, q) == r.kind = "start" /\ q.kind = "start" /\ r.ver = q.ver

StubInv ==
    /\ wf.status = "None" /\ running = {}
    /\ handle \/ state = "Deployed" => current # NoVersion
    /\ state = "Tested" => writer.exec = 1 /\ Passed(1, runs)
    /\ \A k \in Attempts : k > starts => runs[<<1, k>>].status = "absent"
    /\ \A r \in requests : RequestOK(r, starts, current, versions, runs)
    /\ \A r, q \in requests : SameStart(r, q) => r = q

StubTyped ==
    /\ handle \in BOOLEAN
    /\ starts \in 0 .. MaxAttempts
    /\ requests \subseteq StubCall
    /\ IsFiniteSet(requests) /\ Cardinality(requests) <= MaxRequests

ClientsInv ==
    /\ TypeInv /\ StubTyped
    /\ client \in {"platform", "standalone", "stub"}
    /\ IF client = "stub" THEN StubInv
       ELSE /\ ApprovalTrail /\ PinnedFirst /\ RunTrail /\ SettledTrail
            /\ requests = {} /\ handle = FALSE /\ starts = 0

(* The statements of the stub's methods, by their place.                   *)
LEMMA StubBodies ==
  ASSUME NEW r \in StubCall, NEW stmt, r.step \in 1 .. Len(StubBody(r.kind)),
         StubBody(r.kind)[r.step] = stmt
  PROVE  /\ r.kind = "start" =>
              /\ Len(StubBody(r.kind)) = 8
              /\ r.step = 1 <=> stmt = "Generating"
              /\ r.step = 2 <=> stmt = "insert"
              /\ r.step = 3 <=> stmt = "pin"
              /\ r.step = 4 <=> stmt = "create"
              /\ r.step = 5 <=> stmt = "finish"
              /\ r.step = 6 <=> stmt = "Tested"
              /\ r.step \in {7, 8} <=> stmt \in {"generated", "tested"}
              /\ stmt \notin {"Deployed", "Running"}
         /\ r.kind # "start" =>
              /\ stmt \notin {"insert", "create", "finish", "Tested", "generated", "tested"}
              /\ stmt = "pin" => r.kind = "approve"
              /\ stmt \in {"Deployed", "Running"} => r.kind = "deploy"
              /\ Len(StubBody(r.kind)) <= 3
  <1>0. r.kind \in {"start", "approve", "reject", "deploy"} BY DEF StubCall
  <1>1. CASE r.kind = "start"   BY <1>1 DEF StubBody
  <1>2. CASE r.kind = "approve" BY <1>2 DEF StubBody
  <1>3. CASE r.kind = "reject"  BY <1>3 DEF StubBody
  <1>4. CASE r.kind = "deploy"  BY <1>4 DEF StubBody
  <1>5. QED BY <1>0, <1>1, <1>2, <1>3, <1>4

(* The pool of requests after one of them has made a step, or has left.    *)
LEMMA StubPool ==
  ASSUME StubTyped, NEW r \in requests,
         \/ requests' = requests \ {r}
         \/ \E c \in StubCall : requests' = (requests \ {r}) \cup {c}
  PROVE  /\ requests' \subseteq StubCall
         /\ IsFiniteSet(requests') /\ Cardinality(requests') <= MaxRequests
  <1>0. /\ IsFiniteSet(requests) /\ requests \subseteq StubCall
        /\ Cardinality(requests) <= MaxRequests /\ MaxRequests \in Nat
    BY RequestsAssumption DEF StubTyped
  <1>1. /\ IsFiniteSet(requests \ {r})
        /\ Cardinality(requests \ {r}) = Cardinality(requests) - 1
    BY <1>0, FS_RemoveElement
  <1>2. Cardinality(requests) \in Nat /\ Cardinality(requests \ {r}) \in Nat
    BY <1>0, <1>1, FS_CardinalityType
  <1>3. CASE requests' = requests \ {r} BY <1>0, <1>1, <1>2, <1>3
  <1>4. ASSUME NEW c \in StubCall, requests' = (requests \ {r}) \cup {c}
        PROVE  /\ requests' \subseteq StubCall
               /\ IsFiniteSet(requests') /\ Cardinality(requests') <= MaxRequests
    <2>1. /\ IsFiniteSet((requests \ {r}) \cup {c})
          /\ \/ Cardinality((requests \ {r}) \cup {c}) = Cardinality(requests \ {r})
             \/ Cardinality((requests \ {r}) \cup {c}) = Cardinality(requests \ {r}) + 1
      BY <1>1, FS_AddElement
    <2>2. QED BY <1>0, <1>1, <1>2, <1>4, <2>1
  <1>5. QED BY <1>3, <1>4

LEMMA StubEnters ==
  ASSUME StubTyped, NEW kind \in {"start", "approve", "reject", "deploy"},
         NEW ver \in Versions \cup {NoVersion}, Enter(kind, ver)
  PROVE  /\ requests' \subseteq StubCall
         /\ IsFiniteSet(requests') /\ Cardinality(requests') <= MaxRequests
  <1> DEFINE r == [kind |-> kind, step |-> 1, ver |-> ver]
  <1>0. /\ IsFiniteSet(requests) /\ requests \subseteq StubCall
        /\ Cardinality(requests) < MaxRequests /\ MaxRequests \in Nat
        /\ requests' = requests \cup {r}
    BY RequestsAssumption DEF StubTyped, Enter
  <1>1. r \in StubCall BY DEF StubCall
  <1> HIDE DEF r
  <1>2. Cardinality(requests) \in Nat BY <1>0, FS_CardinalityType
  <1>3. /\ IsFiniteSet(requests \cup {r})
        /\ \/ Cardinality(requests \cup {r}) = Cardinality(requests)
           \/ Cardinality(requests \cup {r}) = Cardinality(requests) + 1
    BY <1>0, FS_AddElement
  <1>4. QED BY <1>0, <1>1, <1>2, <1>3

Stepped(r) == [r EXCEPT !.step = r.step + 1]

LEMMA StubLengths ==
  ASSUME NEW kind \in {"start", "approve", "reject", "deploy"}
  PROVE  /\ Len(StubBody(kind)) \in 1 .. 8
         /\ kind = "start" => Len(StubBody(kind)) = 8
         /\ kind # "start" => Len(StubBody(kind)) <= 3
  <1>1. CASE kind = "start"   BY <1>1 DEF StubBody
  <1>2. CASE kind = "approve" BY <1>2 DEF StubBody
  <1>3. CASE kind = "reject"  BY <1>3 DEF StubBody
  <1>4. CASE kind = "deploy"  BY <1>4 DEF StubBody
  <1>5. QED BY <1>1, <1>2, <1>3, <1>4

LEMMA SteppedIs ==
  ASSUME NEW r \in StubCall, r.step \in 1 .. Len(StubBody(r.kind))
  PROVE  /\ Stepped(r).kind = r.kind /\ Stepped(r).ver = r.ver
         /\ Stepped(r).step = r.step + 1
         /\ r.step < Len(StubBody(r.kind)) =>
              /\ Stepped(r) \in StubCall
              /\ Stepped(r).step \in 1 .. Len(StubBody(Stepped(r).kind))
         /\ r.step \in 1 .. 8
         /\ r.kind = "start" => Len(StubBody(r.kind)) = 8
  <1>1. r.kind \in {"start", "approve", "reject", "deploy"} BY DEF StubCall
  <1>2. /\ Len(StubBody(r.kind)) \in 1 .. 8
        /\ r.kind = "start" => Len(StubBody(r.kind)) = 8
    BY <1>1, StubLengths
  <1>3. Stepped(r).kind = r.kind /\ Stepped(r).ver = r.ver /\ Stepped(r).step = r.step + 1
    BY DEF Stepped, StubCall
  <1>4. r.step + 1 \in 1 .. 8 => Stepped(r) \in StubCall
    BY DEF Stepped, StubCall
  <1>5. Len(StubBody(Stepped(r).kind)) = Len(StubBody(r.kind)) BY <1>3
  <1> DEFINE l == Len(StubBody(r.kind))
  <1> HIDE DEF l
  <1>6. l \in 1 .. 8 /\ r.step \in 1 .. l BY <1>2 DEF l
  <1>7. r.step \in 1 .. 8 /\ (r.step < l => r.step + 1 \in 1 .. 8 /\ r.step + 1 \in 1 .. l)
    <2>1. \A s, n \in Int : n \in 1 .. 8 /\ s \in 1 .. n =>
            s \in 1 .. 8 /\ (s < n => s + 1 \in 1 .. 8 /\ s + 1 \in 1 .. n)
      OBVIOUS
    <2>2. l \in Int /\ r.step \in Int BY <1>6
    <2>3. QED BY <1>6, <2>1, <2>2, Zenon
  <1>8. QED BY <1>2, <1>3, <1>4, <1>5, <1>7 DEF l

(* What a request leaves behind as it goes on, if its statement keeps what *)
(* the other requests rely on.                                             *)
LEMMA StubStepped ==
  ASSUME StubTyped, StubInv, NEW r \in requests, StubProceeds(r),
         current # NoVersion => current' # NoVersion,
         versions \subseteq versions',
         \A q \in requests : q.kind = "start" /\ q # r => runs'[q.ver] = runs[q.ver],
         \A k \in Attempts : k > starts => runs'[<<1, k>>].status = "absent",
         r.step < Len(StubBody(r.kind)) =>
            RequestOK(Stepped(r), starts, current', versions', runs')
  PROVE  /\ StubTyped' /\ wf' = wf /\ wf'.status = "None" /\ running' = {} /\ client' = client
         /\ UNCHANGED <<approvals, refused>>
         /\ handle' => current' # NoVersion
         /\ \A k \in Attempts : k > starts' => runs'[<<1, k>>].status = "absent"
         /\ \A q \in requests' : RequestOK(q, starts', current', versions', runs')
         /\ \A q, o \in requests' : SameStart(q, o) => q = o
  <1>0. /\ r \in StubCall /\ RequestOK(r, starts, current, versions, runs)
        /\ r.step \in 1 .. Len(StubBody(r.kind))
    BY DEF StubTyped, StubInv, RequestOK
  <1>1. r \in StubCall /\ r.step \in 1 .. Len(StubBody(r.kind)) BY <1>0
  <1>2. /\ Stepped(r).kind = r.kind /\ Stepped(r).ver = r.ver
        /\ r.step < Len(StubBody(r.kind)) => Stepped(r) \in StubCall
        /\ r.step \in 1 .. 8
        /\ r.kind = "start" => Len(StubBody(r.kind)) = 8
    BY <1>1, SteppedIs, Zenon
  <1>4. /\ UNCHANGED <<client, starts, wf, running, approvals, refused>>
        /\ handle' = (handle \/ (r.kind = "start" /\ r.step = Len(StubBody("start"))))
        /\ requests' = (requests \ {r}) \cup
              IF r.step < Len(StubBody(r.kind)) THEN {Stepped(r)} ELSE {}
    BY DEF StubProceeds, Stepped
  <1>5. \/ requests' = requests \ {r}
        \/ Stepped(r) \in StubCall /\ requests' = (requests \ {r}) \cup {Stepped(r)}
    BY <1>2, <1>4, Zenon
  <1>6. /\ requests' \subseteq StubCall
        /\ IsFiniteSet(requests') /\ Cardinality(requests') <= MaxRequests
    BY <1>5, StubPool
  <1>7. StubTyped' BY <1>4, <1>6 DEF StubTyped
  <1>8. handle' => current' # NoVersion
    <2>1. handle => current # NoVersion BY DEF StubInv
    <2>2. Len(StubBody("start")) = 8 BY StubLengths
    <2>3. r.kind = "start" /\ r.step = 8 => current # NoVersion BY <1>0 DEF RequestOK
    <2>4. QED BY <1>4, <2>1, <2>2, <2>3
  <1>9. ASSUME NEW q \in requests' PROVE RequestOK(q, starts', current', versions', runs')
    <2>1. CASE q \in requests \ {r}
      <3>1. RequestOK(q, starts, current, versions, runs) BY <2>1 DEF StubInv
      <3>2. q.kind = "start" => runs'[q.ver] = runs[q.ver] BY <2>1
      <3>3. QED BY <1>4, <3>1, <3>2 DEF RequestOK
    <2>2. CASE r.step < Len(StubBody(r.kind)) /\ q = Stepped(r) BY <1>4, <2>2
    <2>3. q \in (requests \ {r}) \cup
                   IF r.step < Len(StubBody(r.kind)) THEN {Stepped(r)} ELSE {}
      BY <1>4, <1>9, Zenon
    <2>4. QED BY <2>1, <2>2, <2>3
  <1>10. ASSUME NEW q \in requests', NEW o \in requests', SameStart(q, o) PROVE q = o
    <2>1. \A p \in requests' : \/ p \in requests \ {r}
                               \/ p = Stepped(r) /\ p.kind = r.kind /\ p.ver = r.ver
      BY <1>2, <1>4
    <2>2. \A p \in requests \ {r} : ~SameStart(p, r) /\ ~SameStart(r, p)
      BY DEF StubInv
    <2>3. QED BY <1>10, <2>1, <2>2 DEF SameStart, StubInv
  <1>11. QED BY <1>4, <1>7, <1>8, <1>9, <1>10 DEF StubInv

(* The request whose statement this is, a step further.                    *)
LEMMA StubStep ==
  ASSUME TypeInv, StubTyped, StubInv, NEW r \in requests,
         \/ StubSetState(r) \/ StubInsert(r) \/ StubPin(r) \/ StubRun(r) \/ StubAudit(r)
  PROVE  TypeInv' /\ StubTyped' /\ StubInv' /\ client' = client
  <1>0. /\ r \in StubCall /\ RequestOK(r, starts, current, versions, runs)
        /\ r.step \in 1 .. Len(StubBody(r.kind)) /\ r.step \in 1 .. 8
        /\ r.ver \in Versions \cup {NoVersion} /\ starts \in 0 .. MaxAttempts
    BY DEF StubTyped, StubInv, RequestOK, StubCall
  <1>p. StubProceeds(r)
    BY DEF StubSetState, StubInsert, StubPin, StubRun, StubAudit
  <1>1. StubProceeds(r) /\ wf' = wf /\ running' = running
    BY <1>p DEF StubProceeds
  <1>2. Stepped(r).kind = r.kind /\ Stepped(r).ver = r.ver /\ Stepped(r).step = r.step + 1
    BY <1>0, SteppedIs
  <1>3. r.step < Len(StubBody(r.kind)) =>
          Stepped(r).step \in 1 .. Len(StubBody(Stepped(r).kind))
    BY <1>0, SteppedIs
  <1>4. r.kind = "start" => r.ver \in Versions
    BY <1>0 DEF RequestOK, NoVersion, Versions, Execs
  <1>5. 1 \in Execs BY ExecsAssumption DEF Execs
  <1>6. NoVersion \notin Versions BY ExecsAssumption DEF NoVersion, Versions, Execs
  <1>s. ASSUME current # NoVersion => current' # NoVersion,
               versions \subseteq versions',
               \A q \in requests : q.kind = "start" /\ q # r => runs'[q.ver] = runs[q.ver],
               \A k \in Attempts : k > starts => runs'[<<1, k>>].status = "absent",
               r.step < Len(StubBody(r.kind)) => RequestOK(Stepped(r), starts, current', versions', runs'),
               state' = "Deployed" => current' # NoVersion,
               state' = "Tested" => writer'.exec = 1 /\ Passed(1, runs'),
               state' \in IntegrationState, current' \in Versions \cup {NoVersion},
               versions' \subseteq Versions,
               runs' \in [RunIds -> [version : Versions \cup {NoVersion},
                                     status : RunStatus \cup {"absent"}]],
               audit' \subseteq Events \X Execs \X (Versions \cup {NoVersion}),
               writer' \in [exec : 0 .. MaxExecs, late : BOOLEAN]
        PROVE  TypeInv' /\ StubTyped' /\ StubInv' /\ client' = client
    <2>2. /\ StubTyped' /\ wf' = wf /\ wf'.status = "None" /\ running' = {} /\ client' = client
          /\ UNCHANGED <<approvals, refused>>
          /\ handle' => current' # NoVersion
          /\ \A k \in Attempts : k > starts' => runs'[<<1, k>>].status = "absent"
          /\ \A q \in requests' : RequestOK(q, starts', current', versions', runs')
          /\ \A q, o \in requests' : SameStart(q, o) => q = o
      BY <1>1, <1>s, StubStepped
    <2>3. TypeInv' BY <1>s, <2>2 DEF TypeInv, TypeOK
    <2>4. StubInv' BY <1>s, <2>2 DEF StubInv, RequestOK, SameStart, Passed
    <2>5. QED BY <2>2, <2>3, <2>4
  <1>t. /\ state \in IntegrationState /\ current \in Versions \cup {NoVersion}
        /\ versions \subseteq Versions
        /\ runs \in [RunIds -> [version : Versions \cup {NoVersion},
                                status : RunStatus \cup {"absent"}]]
        /\ audit \subseteq Events \X Execs \X (Versions \cup {NoVersion})
        /\ writer \in [exec : 0 .. MaxExecs, late : BOOLEAN]
        /\ state = "Deployed" => current # NoVersion
        /\ state = "Tested" => writer.exec = 1 /\ Passed(1, runs)
        /\ \A k \in Attempts : k > starts => runs[<<1, k>>].status = "absent"
    BY DEF TypeInv, TypeOK, StubInv
  <1>7. CASE StubSetState(r)
    <2>1. PICK s \in IntegrationState : StubAt(r, s) /\ state' = s BY <1>7 DEF StubSetState
    <2>2. StubBody(r.kind)[r.step] = s BY <2>1 DEF StubAt
    <2>3. /\ writer' = [exec |-> r.ver[1], late |-> FALSE]
          /\ UNCHANGED <<current, versions, runs, audit>>
      BY <1>7 DEF StubSetState
    <2>4. RequestOK(r, starts, current, versions, runs) /\ (r.kind = "start" => r.step \in {1, 6} )
      BY <1>0, <2>1, <2>2, StubBodies DEF IntegrationState
    <2>5. r.step < Len(StubBody(r.kind)) => RequestOK(Stepped(r), starts, current, versions, runs)
      BY <1>0, <1>2, <1>3, <2>4 DEF RequestOK
    <2>6. s = "Deployed" => current # NoVersion
      BY <1>0, <2>2, <2>4, StubBodies DEF RequestOK
    <2>7. s = "Tested" => r.ver[1] = 1 /\ Passed(1, runs)
      <3>1. s = "Tested" => r.kind = "start" /\ r.step = 6 BY <1>0, <2>2, StubBodies
      <3>2. s = "Tested" => /\ runs[r.ver].status = "succeeded" /\ r.ver[1] = 1
                            /\ runs[r.ver].version[1] = 1
        BY <2>4, <3>1 DEF RequestOK
      <3>3. s = "Tested" => r.ver[2] \in Attempts /\ r.ver = <<1, r.ver[2]>>
        BY <1>4, <3>1, <3>2 DEF Versions
      <3>4. QED BY <3>2, <3>3 DEF Passed
    <2>8. r.ver[1] \in 0 .. MaxExecs BY <1>0, ExecsAssumption DEF Versions, NoVersion, Execs
    <2>9. QED BY <1>s, <1>t, <2>1, <2>3, <2>5, <2>6, <2>7, <2>8
  <1>8. CASE StubInsert(r)
    <2>1. StubBody(r.kind)[r.step] = "insert" BY <1>8 DEF StubInsert, StubAt
    <2>2. r.kind = "start" /\ r.step = 2 BY <1>0, <2>1, StubBodies
    <2>3. versions' = versions \cup {r.ver} /\ UNCHANGED <<state, current, runs, audit, writer>>
      BY <1>8 DEF StubInsert
    <2>4. RequestOK(Stepped(r), starts, current, versions', runs) \/ ~(r.step < Len(StubBody(r.kind)))
      BY <1>0, <1>2, <1>3, <2>2, <2>3 DEF RequestOK
    <2>5. QED BY <1>4, <1>s, <1>t, <2>2, <2>3, <2>4
  <1>9. CASE StubPin(r)
    <2>1. StubBody(r.kind)[r.step] = "pin" BY <1>9 DEF StubPin, StubAt
    <2>2. (r.kind = "start" /\ r.step = 3) \/ r.kind = "approve" BY <1>0, <2>1, StubBodies
    <2>3. current' = r.ver /\ UNCHANGED <<state, versions, runs, audit, writer>>
      BY <1>9 DEF StubPin
    <2>4. r.ver \in Versions BY <1>0, <1>4, <1>t, <2>2 DEF RequestOK
    <2>5. RequestOK(Stepped(r), starts, current', versions, runs) \/ ~(r.step < Len(StubBody(r.kind)))
      BY <1>0, <1>2, <1>3, <1>6, <2>2, <2>3, <2>4 DEF RequestOK
    <2>6. QED BY <1>6, <1>s, <1>t, <2>3, <2>4, <2>5
  <1>10. CASE StubRun(r)
    <2>1. PICK status \in {"running", "succeeded"} :
             /\ StubAt(r, IF status = "running" THEN "create" ELSE "finish")
             /\ runs' = [runs EXCEPT ![r.ver] = [version |-> r.ver, status |-> status]]
      BY <1>10 DEF StubRun
    <2>2. UNCHANGED <<state, current, versions, audit, writer>> BY <1>10 DEF StubRun
    <2>3. /\ r.kind = "start"
          /\ (status = "running" /\ r.step = 4) \/ (status = "succeeded" /\ r.step = 5)
      BY <1>0, <2>1, StubBodies DEF StubAt
    <2>4. /\ r.ver \in RunIds /\ r.ver = <<1, r.ver[2]>> /\ r.ver[2] \in 1 .. starts
          /\ runs[r.ver].status # "succeeded"
      BY <1>0, <1>4, <2>3 DEF RequestOK, Versions, RunIds
    <2>5. /\ runs'[r.ver] = [version |-> r.ver, status |-> status]
          /\ \A i \in RunIds : i # r.ver => runs'[i] = runs[i]
          /\ runs' \in [RunIds -> [version : Versions \cup {NoVersion},
                                   status : RunStatus \cup {"absent"}]]
      BY <1>4, <1>t, <2>1, <2>3, <2>4 DEF RunStatus, SandboxStatus
    <2>6. RequestOK(Stepped(r), starts, current, versions, runs') \/ ~(r.step < Len(StubBody(r.kind)))
      BY <1>0, <1>2, <1>3, <2>3, <2>5 DEF RequestOK
    <2>7. ASSUME NEW q \in requests, q.kind = "start", q # r
          PROVE  runs'[q.ver] = runs[q.ver]
      <3>1. q.ver # r.ver BY <2>3, <2>7 DEF StubInv, SameStart
      <3>2. q.ver \in RunIds
        BY <2>7 DEF StubTyped, StubCall, StubInv, RequestOK, NoVersion, Versions, RunIds, Execs
      <3>3. QED BY <2>5, <3>1, <3>2
    <2>8. ASSUME NEW k \in Attempts, k > starts PROVE runs'[<<1, k>>].status = "absent"
      <3>1. <<1, k>> \in RunIds /\ <<1, k>> # r.ver
        BY <1>0, <1>5, <2>4, <2>8 DEF RunIds, Attempts
      <3>2. QED BY <1>t, <2>5, <2>8, <3>1
    <2>9. Passed(1, runs) => Passed(1, runs')
      <3>1. \A n \in Attempts : <<1, n>> \in RunIds BY <1>5 DEF RunIds
      <3>2. QED BY <2>4, <2>5, <3>1 DEF Passed
    <2>10. QED BY <1>s, <1>t, <2>2, <2>5, <2>6, <2>7, <2>8, <2>9
  <1>11. CASE StubAudit(r)
    <2>1. PICK e \in {"generated", "tested"} :
             /\ StubAt(r, e)
             /\ audit' = audit \cup {<<IF e = "tested" THEN "integration.tested"
                                       ELSE "integration.generated", 1, r.ver>>}
      BY <1>11 DEF StubAudit
    <2>2. UNCHANGED <<state, current, versions, runs, writer>> BY <1>11 DEF StubAudit, rows
    <2>3. r.kind = "start" /\ r.step \in {7, 8} BY <1>0, <2>1, StubBodies DEF StubAt
    <2>4. RequestOK(Stepped(r), starts, current, versions, runs) \/ ~(r.step < Len(StubBody(r.kind)))
      BY <1>0, <1>2, <1>3, <2>3 DEF RequestOK
    <2>5. audit' \subseteq Events \X Execs \X (Versions \cup {NoVersion})
      BY <1>0, <1>5, <1>t, <2>1 DEF Events
    <2>6. QED BY <1>s, <1>t, <2>2, <2>4, <2>5
  <1>12. QED BY <1>7, <1>8, <1>9, <1>10, <1>11

(* A start takes the next number, so its rows are not written yet.         *)
LEMMA StubStarts ==
  ASSUME TypeInv, StubTyped, StubInv, StubStart
  PROVE  TypeInv' /\ StubTyped' /\ StubInv' /\ client' = client
  <1> DEFINE v == <<1, starts + 1>>
             r == [kind |-> "start", step |-> 1, ver |-> v]
  <1>0. starts \in Nat /\ starts < MaxAttempts /\ starts + 1 \in Attempts /\ MaxAttempts \in Nat
    BY AttemptsAssumption DEF StubTyped, StubStart, Attempts
  <1>1. v \in Versions
    BY <1>0, ExecsAssumption DEF Versions, Execs
  <1>2. /\ UNCHANGED <<vars, client, handle>> /\ starts' = starts + 1
        /\ requests' = requests \cup {r} /\ Enter("start", v)
    BY DEF StubStart, Enter
  <1>3. /\ requests' \subseteq StubCall
        /\ IsFiniteSet(requests') /\ Cardinality(requests') <= MaxRequests
    BY <1>1, <1>2, StubEnters
  <1>4. StubTyped' BY <1>0, <1>2, <1>3 DEF StubTyped
  <1>5. TypeInv' BY <1>2 DEF TypeInv, TypeOK, vars
  <1>6. r.kind = "start" /\ r.step = 1 /\ r.ver = v /\ v[1] = 1 /\ v[2] = starts + 1
    OBVIOUS
  <1>7. runs[v].status = "absent" BY <1>0 DEF StubInv
  <1> HIDE DEF r, v
  <1>8. RequestOK(r, starts', current', versions', runs')
    <2>1. Len(StubBody(r.kind)) = 8 BY <1>6, StubLengths
    <2>2. UNCHANGED <<current, versions, runs>> BY <1>2 DEF vars
    <2>3. v[2] \in 1 .. starts' BY <1>0, <1>2, <1>6
    <2>4. r.step = 1 /\ r.step \in 1 .. Len(StubBody(r.kind))
      <3>1. 1 \in 1 .. 8 OBVIOUS
      <3>2. r.step = 1 BY <1>6
      <3>3. QED BY <2>1, <3>1, <3>2, Zenon
    <2>5. r.kind = "start" /\ r.ver[1] = 1 /\ r.ver[2] \in 1 .. starts' BY <1>6, <2>3
    <2>6. runs'[r.ver].status # "succeeded" BY <1>6, <1>7, <2>2
    <2>7. QED BY <2>4, <2>5, <2>6 DEF RequestOK
  <1>9. ASSUME NEW q \in requests PROVE RequestOK(q, starts', current', versions', runs')
    <2>1. RequestOK(q, starts, current, versions, runs) BY DEF StubInv
    <2>2. UNCHANGED <<current, versions, runs>> BY <1>2 DEF vars
    <2>3. \A n \in 1 .. starts : n \in 1 .. starts' BY <1>0, <1>2
    <2>4. QED BY <2>1, <2>2, <2>3 DEF RequestOK
  <1>10. ASSUME NEW q \in requests PROVE ~SameStart(q, r) /\ ~SameStart(r, q)
    <2>1. q.kind = "start" => q.ver[2] \in 1 .. starts BY DEF StubInv, RequestOK
    <2>2. q.kind = "start" => q.ver # v BY <1>0, <1>6, <2>1
    <2>3. QED BY <1>6, <2>2 DEF SameStart
  <1>11. \A q, o \in requests' : SameStart(q, o) => q = o
    BY <1>2, <1>10 DEF StubInv
  <1>12. \A q \in requests' : RequestOK(q, starts', current', versions', runs')
    BY <1>2, <1>8, <1>9
  <1>13. \A k \in Attempts : k > starts' => runs'[<<1, k>>].status = "absent"
    <2>1. \A k \in Attempts : k > starts + 1 => k > starts BY <1>0 DEF Attempts
    <2>2. QED BY <1>2, <2>1 DEF StubInv, vars
  <1>14. StubInv'
    BY <1>2, <1>11, <1>12, <1>13 DEF StubInv, vars, Passed
  <1>15. QED BY <1>2, <1>4, <1>5, <1>14

(* A signal finds a handle, so a start has pinned a version before.        *)
LEMMA StubSignals ==
  ASSUME TypeInv, StubTyped, StubInv, StubSignal
  PROVE  TypeInv' /\ StubTyped' /\ StubInv' /\ client' = client
  <1>0. versions \subseteq Versions /\ NoVersion \notin Versions
    BY ExecsAssumption DEF TypeInv, TypeOK, NoVersion, Versions, Execs
  <1>1. PICK kind \in {"approve", "reject", "deploy"}, v \in Versions \cup {NoVersion} :
           Enter(kind, v) /\ (kind = "approve" => v \in versions)
    BY <1>0 DEF StubSignal
  <1> DEFINE r == [kind |-> kind, step |-> 1, ver |-> v]
  <1>2. /\ UNCHANGED <<vars, client, handle, starts>>
        /\ requests' = requests \cup {r}
    BY <1>1 DEF StubSignal, Enter
  <1>3. /\ requests' \subseteq StubCall
        /\ IsFiniteSet(requests') /\ Cardinality(requests') <= MaxRequests
    BY <1>1, StubEnters
  <1>4. StubTyped' BY <1>2, <1>3 DEF StubTyped
  <1>5. TypeInv' BY <1>2 DEF TypeInv, TypeOK, vars
  <1>6. r.kind = kind /\ r.step = 1 /\ r.ver = v OBVIOUS
  <1>7. current # NoVersion BY DEF StubSignal, StubInv
  <1>8. RequestOK(r, starts, current, versions, runs)
    <2>1. Len(StubBody(r.kind)) \in 1 .. 8 BY <1>6, StubLengths
    <2>2. r.step \in 1 .. Len(StubBody(r.kind)) BY <1>6, <2>1
    <2>3. QED BY <1>1, <1>6, <1>7, <2>2 DEF RequestOK
  <1> HIDE DEF r
  <1>9. \A q \in requests' : RequestOK(q, starts', current', versions', runs')
    BY <1>2, <1>8 DEF StubInv, vars
  <1>10. \A q, o \in requests' : SameStart(q, o) => q = o
    BY <1>2, <1>6 DEF StubInv, SameStart
  <1>11. StubInv'
    BY <1>2, <1>9, <1>10 DEF StubInv, vars, Passed
  <1>12. QED BY <1>2, <1>4, <1>5, <1>11

(* A request that throws, or a restart, only takes requests away.          *)
LEMMA StubEnds ==
  ASSUME TypeInv, StubTyped, StubInv,
         UNCHANGED <<vars, client, starts>>,
         (handle' = handle /\ \E r \in requests : requests' = requests \ {r})
           \/ (handle' = FALSE /\ requests' = {})
  PROVE  TypeInv' /\ StubTyped' /\ StubInv' /\ client' = client
  <1>1. requests' \subseteq requests BY Zenon
  <1>2. IsFiniteSet(requests') /\ Cardinality(requests') <= MaxRequests
    <2>1. CASE requests' = {}
      BY <2>1, FS_EmptySet, RequestsAssumption
    <2>2. CASE \E r \in requests : requests' = requests \ {r} BY <2>2, StubPool
    <2>3. QED BY <2>1, <2>2
  <1>3. StubTyped' BY <1>1, <1>2 DEF StubTyped
  <1>4. TypeInv' BY DEF TypeInv, TypeOK, vars
  <1>5. \A q \in requests' : RequestOK(q, starts', current', versions', runs')
    BY <1>1 DEF StubInv, vars
  <1>6. \A q, o \in requests' : SameStart(q, o) => q = o
    BY <1>1 DEF StubInv
  <1>7. handle' => handle OBVIOUS
  <1>8. StubInv' BY <1>5, <1>6, <1>7 DEF StubInv, vars, Passed
  <1>9. QED BY <1>3, <1>4, <1>8

LEMMA StubKeeps ==
  ASSUME TypeInv, StubTyped, StubInv, Stub
  PROVE  TypeInv' /\ StubTyped' /\ StubInv' /\ client' = client
  <1>1. CASE StubStart  BY <1>1, StubStarts
  <1>2. CASE StubSignal BY <1>2, StubSignals
  <1>3. CASE ApiRestart BY <1>3, StubEnds DEF ApiRestart
  <1>4. ASSUME NEW r \in requests, StubThrows(r)
        PROVE  TypeInv' /\ StubTyped' /\ StubInv' /\ client' = client
    <2>1. UNCHANGED <<vars, client, starts>> /\ handle' = handle /\ requests' = requests \ {r}
      BY <1>4 DEF StubThrows
    <2>2. QED BY <2>1, StubEnds
  <1>5. ASSUME NEW r \in requests,
               \/ StubSetState(r) \/ StubInsert(r) \/ StubPin(r) \/ StubRun(r) \/ StubAudit(r)
        PROVE  TypeInv' /\ StubTyped' /\ StubInv' /\ client' = client
    BY <1>5, StubStep
  <1>6. QED BY <1>1, <1>2, <1>3, <1>4, <1>5 DEF Stub

(* The process keeps the client it was given.                              *)
LEMMA NextClients == ClientsInv /\ [Temporal \/ Stub]_clientVars => ClientsInv'
  <1> SUFFICES ASSUME ClientsInv, [Temporal \/ Stub]_clientVars PROVE ClientsInv'
    OBVIOUS
  <1>0. /\ TypeInv /\ StubTyped /\ client \in {"platform", "standalone", "stub"}
        /\ client = "stub" => StubInv
        /\ client # "stub" =>
             /\ ApprovalTrail /\ PinnedFirst /\ RunTrail /\ SettledTrail
             /\ requests = {} /\ handle = FALSE /\ starts = 0
    BY DEF ClientsInv
  <1>1. CASE Temporal
    <2>1. Next /\ client # "stub" /\ UNCHANGED <<client, handle, starts, requests>>
      BY <1>1 DEF Temporal, Next, Request, stub
    <2>2. TypeInv' BY <1>0, <2>1, NextTypeInv
    <2>3. ApprovalTrail' BY <1>0, <2>1, <2>2, NextTrail
    <2>4. PinnedFirst' BY <1>0, <2>1, NextPinnedFirst
    <2>5. RunTrail' BY <1>0, <2>1, NextTested
    <2>6. SettledTrail' BY <1>0, <2>1, NextSettled
    <2>7. StubTyped' BY <1>0, <2>1 DEF StubTyped
    <2>8. QED BY <1>0, <2>1, <2>2, <2>3, <2>4, <2>5, <2>6, <2>7 DEF ClientsInv
  <1>2. CASE Stub
    <2>1. client = "stub"
      <3>1. requests # {} => client = "stub" BY <1>0
      <3>2. handle => client = "stub" BY <1>0
      <3>3. QED BY <1>2, <3>1, <3>2 DEF Stub, StubStart, StubSignal, ApiRestart, Enter
    <2>2. TypeInv' /\ StubTyped' /\ StubInv' /\ client' = client
      BY <1>0, <1>2, <2>1, StubKeeps
    <2>3. QED BY <2>1, <2>2 DEF ClientsInv
  <1>3. CASE UNCHANGED clientVars
    <2>1. UNCHANGED vars /\ UNCHANGED <<client, handle, starts, requests>>
      BY <1>3 DEF clientVars, stub
    <2>2. TypeInv' BY <1>0, <2>1, NextTypeInv
    <2>3. StubTyped' BY <1>0, <2>1 DEF StubTyped
    <2>4. CASE client = "stub"
      <3>1. StubInv' BY <1>0, <2>1, <2>4 DEF StubInv, vars, Passed
      <3>2. QED BY <2>1, <2>2, <2>3, <2>4, <3>1 DEF ClientsInv
    <2>5. CASE client # "stub"
      <3>1. ApprovalTrail' BY <1>0, <2>1, <2>2, <2>5, NextTrail
      <3>2. PinnedFirst' BY <1>0, <2>1, <2>5, NextPinnedFirst
      <3>3. RunTrail' BY <1>0, <2>1, <2>5, NextTested
      <3>4. SettledTrail' BY <1>0, <2>1, <2>5, NextSettled
      <3>5. QED
        BY <1>0, <2>1, <2>2, <2>3, <2>5, <3>1, <3>2, <3>3, <3>4 DEF ClientsInv
    <2>6. QED BY <2>4, <2>5
  <1>4. QED BY <1>1, <1>2, <1>3

LEMMA InitClients == ClientsInit => ClientsInv
  <1> SUFFICES ASSUME ClientsInit PROVE ClientsInv OBVIOUS
  <1>1. Init /\ client \in {"platform", "standalone", "stub"}
        /\ handle = FALSE /\ starts = 0 /\ requests = {}
    BY DEF ClientsInit
  <1>2. TypeInv /\ ApprovalTrail BY <1>1, InitTypeInv, InitTrail
  <1>3. PinnedFirst BY <1>1 DEF Init, PinnedFirst, NothingPastPin
  <1>4. RunTrail BY <1>1, InitTested
  <1>5. SettledTrail BY <1>1 DEF Init, SettledTrail, CompletedIsSettled
  <1>6. StubTyped
    <2>1. IsFiniteSet(requests) /\ Cardinality(requests) = 0 BY <1>1, FS_EmptySet
    <2>2. handle \in BOOLEAN BY <1>1
    <2>3. starts \in 0 .. MaxAttempts BY <1>1, AttemptsAssumption
    <2>4. Cardinality(requests) <= MaxRequests /\ requests \subseteq StubCall
      BY <1>1, <2>1, RequestsAssumption
    <2>5. QED BY <2>1, <2>2, <2>3, <2>4 DEF StubTyped
  <1>7. StubInv
    <2>1. \A k \in Attempts : runs[<<1, k>>].status = "absent"
      <3>1. 1 \in Execs BY ExecsAssumption DEF Execs
      <3>2. runs = [i \in RunIds |-> [version |-> NoVersion, status |-> "absent"]]
        BY <1>1 DEF Init
      <3>3. \A e \in Execs, n \in Attempts : runs[<<e, n>>].status = "absent"
        BY <3>2 DEF RunIds
      <3>4. QED BY <3>1, <3>3
    <2>2. QED BY <1>1, <2>1 DEF Init, StubInv
  <1>8. QED BY <1>1, <1>2, <1>3, <1>4, <1>5, <1>6, <1>7 DEF ClientsInv

LEMMA ClientsInvariant == ClientsSpec => []ClientsInv
  <1>1. QED BY InitClients, NextClients, PTL DEF ClientsSpec

(* Type correctness whichever client the process has, and that the stub    *)
(* never holds more calls than entered it.                                 *)
THEOREM ClientsTypes == ClientsSpec => []ClientsTypeOK
  <1>1. ClientsInv => ClientsTypeOK BY DEF ClientsInv, ClientsTypeOK, StubTyped, TypeInv
  <1>2. QED BY <1>1, ClientsInvariant, PTL

(* Tested is never shown without a succeeded run of a version of the       *)
(* execution that wrote it, be it the workflow, whose attempts of          *)
(* runSandbox may be late or retried, or the stub, whose requests          *)
(* interleave.                                                             *)
THEOREM TestedAlwaysPassed == ClientsSpec => []TestedHasPassingRun
  <1>1. ClientsInv => TestedHasPassingRun
    <2> SUFFICES ASSUME ClientsInv, state = "Tested"
                 PROVE  Passed(writer.exec, runs)
      BY DEF TestedHasPassingRun, Passed
    <2>1. CASE client = "stub" BY <2>1 DEF ClientsInv, StubInv
    <2>2. CASE client # "stub" BY <2>2 DEF ClientsInv, RunTrail
    <2>3. QED BY <2>1, <2>2
  <1>2. QED BY <1>1, ClientsInvariant, PTL

(* No client shows Deployed without a version to fire: deployToRunner pins *)
(* before it sets the state, and the stub's deploy needs a handle, which   *)
(* only a start that has pinned leaves behind.                             *)
THEOREM DeployedIsPinnedByAll == ClientsSpec => []DeployedIsPinned
  <1>1. ClientsInv => DeployedIsPinned
    <2>1. CASE client = "stub" BY <2>1 DEF ClientsInv, StubInv, DeployedIsPinned
    <2>2. CASE client # "stub" BY <2>2 DEF ClientsInv, PinnedFirst, DeployedIsPinned
    <2>3. QED BY <2>1, <2>2 DEF ClientsInv
  <1>2. QED BY <1>1, ClientsInvariant, PTL

(* A completed execution leaves Draft or a Deployed that the audit log     *)
(* tells of, unless a late attempt wrote the row after it.                 *)
THEOREM CompletedAreSettled == ClientsSpec => []CompletedIsSettled
  <1>1. ClientsInv => CompletedIsSettled
    <2>1. CASE client = "stub" BY <2>1 DEF ClientsInv, StubInv, CompletedIsSettled
    <2>2. CASE client # "stub" BY <2>2 DEF ClientsInv, SettledTrail
    <2>3. QED BY <2>1, <2>2 DEF ClientsInv
  <1>2. QED BY <1>1, ClientsInvariant, PTL
-----------------------------------------------------------------------------
(* Every step of the row is one that module Lifecycle promises.            *)

PassedOf(rt) == {rt[i].version : i \in {j \in RunIds : rt[j].status = "succeeded"}}

Keeps == Promised!Next \/ UNCHANGED <<state, current, versions, PassedOf(runs)>>

LEMMA RowPassed ==
  ASSUME NEW rt, NEW to, NEW i \in RunIds, NEW v,
         \A j \in RunIds : j # i => to[j] = rt[j],
         rt[i].status # "succeeded", to[i].version = v
  PROVE  /\ to[i].status # "succeeded" => PassedOf(to) = PassedOf(rt)
         /\ to[i].status = "succeeded" => PassedOf(to) = PassedOf(rt) \cup {v}
  BY Zenon DEF PassedOf

LEMMA PassedSome ==
  ASSUME NEW rt, NEW e \in Execs, Passed(e, rt)
  PROVE  PassedOf(rt) # {}
  <1>1. PICK n \in Attempts : rt[<<e, n>>].status = "succeeded" BY DEF Passed
  <1>2. <<e, n>> \in RunIds BY DEF RunIds
  <1>3. rt[<<e, n>>].version \in PassedOf(rt) BY <1>1, <1>2 DEF PassedOf
  <1>4. QED BY <1>3

LEMMA KeepsStill ==
  ASSUME UNCHANGED <<state, current, versions, runs>>
  PROVE  Keeps
  BY DEF Keeps, PassedOf

LEMMA KeepsEnter ==
  ASSUME state' \in IntegrationState, UNCHANGED <<current, versions, runs>>,
         state' = "Tested" => PassedOf(runs) # {},
         state' \in {"Deployed", "Running", "Degraded"} => current # NoVersion
  PROVE  Keeps
  <1>1. Promised!Enter(state')
    BY DEF Promised!Enter, PassedOf
  <1>2. state' \in Promised!States BY DEF Promised!States, IntegrationState
  <1>3. QED BY <1>1, <1>2 DEF Keeps, Promised!Next

LEMMA KeepsGenerate ==
  ASSUME NEW v \in Versions, versions' = versions \cup {v},
         UNCHANGED <<state, current, runs>>
  PROVE  Keeps
  <1>1. Promised!Generate(v) BY DEF Promised!Generate, PassedOf
  <1>2. QED BY <1>1 DEF Keeps, Promised!Next

LEMMA KeepsPin ==
  ASSUME NEW v \in Versions \cap versions, current' = v,
         UNCHANGED <<state, versions, runs>>
  PROVE  Keeps
  <1>1. Promised!Pin(v) BY DEF Promised!Pin
  <1>2. QED BY <1>1 DEF Keeps, Promised!Next

(* A row that had not succeeded is written.                                *)
LEMMA KeepsRow ==
  ASSUME NEW i \in RunIds, \A j \in RunIds : j # i => runs'[j] = runs[j],
         runs[i].status # "succeeded",
         runs'[i].status = "succeeded" => runs'[i].version \in Versions \cap versions,
         UNCHANGED <<state, current, versions>>
  PROVE  Keeps
  <1>1. CASE runs'[i].status # "succeeded"
    <2>1. PassedOf(runs') = PassedOf(runs) BY <1>1, RowPassed
    <2>2. QED BY <2>1 DEF Keeps, PassedOf
  <1>2. CASE runs'[i].status = "succeeded"
    <2>1. PICK v \in Versions \cap versions : v = runs'[i].version BY <1>2
    <2>2. PassedOf(runs') = PassedOf(runs) \cup {v} BY <1>2, <2>1, RowPassed
    <2>3. Promised!Pass(v)
      <3>1. UNCHANGED <<state, current, versions>> OBVIOUS
      <3>2. QED BY <2>2, <3>1, Zenon DEF Promised!Pass, PassedOf
    <2>4. QED BY <2>3 DEF Keeps, Promised!Next
  <1>3. QED BY <1>1, <1>2

LEMMA StatementKeeps ==
  ASSUME TypeInv, ApprovalTrail, PinnedFirst, RunTrail, NEW a \in running,
         Statement(a) \/ StatementFails(a)
  PROVE  Keeps
  <1>0. /\ a \in Attempt /\ a.exec \in Execs /\ a.n \in Attempts
        /\ AttemptTested(a, runs, versions) /\ AttemptOnTrail(a, wf, audit)
        /\ runs \in [RunIds -> [version : Versions \cup {NoVersion},
                                status : RunStatus \cup {"absent"}]]
        /\ <<a.exec, a.n>> \in RunIds /\ <<a.exec, a.n>> \in Versions
        /\ approvals \subseteq versions /\ versions \subseteq Versions
    BY DEF TypeInv, TypeOK, RunTrail, TestTrail, Attempt, AttemptRecord, RunIds,
           Versions, ApprovalTrail
  <1>1. CASE WriteState(a)
    <2>1. a.call \in StateCalls \cup {"deployToRunner"}
      BY <1>0, <1>1, StatementOf DEF WriteState
    <2>2. /\ state' = IF a.call = "deployToRunner" THEN "Deployed" ELSE a.call
          /\ UNCHANGED <<current, versions, runs>> /\ At(a, "state")
      BY <1>1 DEF WriteState, SetState
    <2>3. state' \in IntegrationState \ {"Running", "Degraded"}
      BY <2>1, <2>2 DEF StateCalls, IntegrationState
    <2>4. state' = "Tested" => PassedOf(runs) # {}
      <3>1. state' = "Tested" => a.call = "Tested" BY <2>2
      <3>2. QED BY <1>0, <3>1, PassedSome DEF AttemptTested
    <2>5. state' = "Deployed" => current # NoVersion
      <3>1. state' = "Deployed" => a.call \in {"Deployed", "deployToRunner"} BY <2>2
      <3>2. a.call = "deployToRunner" => a.step # 1
        <4>1. a.call = "deployToRunner" => Body(a.call)[1] = "pin" BY DEF Body
        <4>2. QED BY <2>2, <4>1 DEF At
      <3>3. QED BY <3>1, <3>2 DEF PinnedFirst, NothingPastPin
    <2>6. QED BY <2>2, <2>3, <2>4, <2>5, KeepsEnter
  <1>2. CASE MarkDraft(a)
    <2>1. UNCHANGED <<current, versions, runs>> /\ (state' = "Draft" \/ state' = state)
      BY <1>2 DEF MarkDraft, SetState
    <2>2. CASE state' = "Draft" BY <2>1, <2>2, KeepsEnter DEF IntegrationState
    <2>3. CASE state' = state BY <2>1, <2>3, KeepsStill
    <2>4. QED BY <2>1, <2>2, <2>3
  <1>3. CASE InsertVersion(a)
    BY <1>0, <1>3, KeepsGenerate DEF InsertVersion
  <1>4. CASE CreateRun(a)
    <2>1. a.call = "runSandbox" /\ a.step = 1 BY <1>0, <1>4, StatementOf DEF CreateRun
    <2>2. /\ runs' = [runs EXCEPT ![<<a.exec, a.n>>] =
                            [version |-> a.ver, status |-> "running"]]
          /\ UNCHANGED <<state, current, versions>>
      BY <1>4 DEF CreateRun
    <2>3. /\ \A j \in RunIds : j # <<a.exec, a.n>> => runs'[j] = runs[j]
          /\ runs'[<<a.exec, a.n>>].status = "running"
      BY <1>0, <2>2
    <2>4. runs[<<a.exec, a.n>>].status # "succeeded" BY <1>0, <2>1 DEF AttemptTested
    <2>5. UNCHANGED <<state, current, versions>> BY <2>2
    <2>6. <<a.exec, a.n>> \in RunIds BY <1>0
    <2>7. QED BY <2>3, <2>4, <2>5, <2>6, KeepsRow
  <1>5. CASE RunInSandbox(a) BY <1>5, KeepsStill DEF RunInSandbox, rows
  <1>6. CASE FinishRun(a)
    <2>1. a.call = "runSandbox" /\ a.step = 3 BY <1>0, <1>6, StatementOf DEF FinishRun
    <2>2. /\ runs' = [runs EXCEPT ![<<a.exec, a.n>>].status =
                            IF a.result = "error" THEN "failed" ELSE a.result]
          /\ UNCHANGED <<state, current, versions>>
      BY <1>6 DEF FinishRun
    <2>3. /\ \A j \in RunIds : j # <<a.exec, a.n>> => runs'[j] = runs[j]
          /\ runs'[<<a.exec, a.n>>].version = runs[<<a.exec, a.n>>].version
      BY <1>0, <2>2
    <2>4. /\ runs[<<a.exec, a.n>>].status # "succeeded"
          /\ runs[<<a.exec, a.n>>].version = a.ver /\ a.ver \in versions
      BY <1>0, <2>1 DEF AttemptTested
    <2>5. UNCHANGED <<state, current, versions>> BY <2>2
    <2>6. runs'[<<a.exec, a.n>>].version \in Versions \cap versions BY <1>0, <2>3, <2>4
    <2>7. <<a.exec, a.n>> \in RunIds BY <1>0
    <2>8. QED BY <2>3, <2>4, <2>5, <2>6, <2>7, KeepsRow
  <1>7. CASE Pin(a)
    <2>1. a.call = "deployToRunner" BY <1>0, <1>7, StatementOf DEF Pin
    <2>2. a.ver \in approvals BY <1>0, <2>1 DEF AttemptOnTrail
    <2>3. current' = a.ver /\ UNCHANGED <<state, versions, runs>> BY <1>7 DEF Pin
    <2>4. QED BY <1>0, <2>2, <2>3, KeepsPin
  <1>8. CASE RecordAudit(a) BY <1>8, KeepsStill DEF RecordAudit, rows
  <1>9. CASE StatementFails(a) BY <1>9, KeepsStill DEF StatementFails, rows
  <1>10. QED
    BY <1>1, <1>2, <1>3, <1>4, <1>5, <1>6, <1>7, <1>8, <1>9 DEF Statement

LEMMA TemporalKeeps ==
  ASSUME TypeInv, ApprovalTrail, PinnedFirst, RunTrail, Temporal
  PROVE  Keeps
  <1>1. CASE WorkerStep BY <1>1, StatementKeeps DEF WorkerStep
  <1>2. CASE Timer
    BY <1>2, KeepsStill DEF Timer, AttemptTimesOut, GateTimesOut, rows
  <1>3. CASE WorkerCrash \/ Decide \/ Test
    BY <1>3, KeepsStill DEF WorkerCrash, Decide, Test, rows
  <1>4. CASE Reject \/ \E v \in versions : Approve(v)
    BY <1>4, KeepsStill DEF Reject, Approve, rows
  <1>5. QED BY <1>1, <1>2, <1>3, <1>4 DEF Temporal

LEMMA NeverDegraded ==
  ASSUME NEW kind \in {"start", "approve", "reject", "deploy"},
         NEW i \in 1 .. Len(StubBody(kind))
  PROVE  StubBody(kind)[i] # "Degraded"
  <1>1. CASE kind = "start"   BY <1>1 DEF StubBody
  <1>2. CASE kind = "approve" BY <1>2 DEF StubBody
  <1>3. CASE kind = "reject"  BY <1>3 DEF StubBody
  <1>4. CASE kind = "deploy"  BY <1>4 DEF StubBody
  <1>5. QED BY <1>1, <1>2, <1>3, <1>4

LEMMA StubKeepsRow ==
  ASSUME TypeInv, StubTyped, StubInv, Stub
  PROVE  Keeps
  <1>1. CASE StubStart \/ StubSignal \/ ApiRestart
    BY <1>1, KeepsStill DEF StubStart, StubSignal, ApiRestart, Enter, vars
  <1>2. ASSUME NEW r \in requests, StubThrows(r) PROVE Keeps
    BY <1>2, KeepsStill DEF StubThrows, vars
  <1>3. ASSUME NEW r \in requests,
               \/ StubSetState(r) \/ StubInsert(r) \/ StubPin(r) \/ StubRun(r) \/ StubAudit(r)
        PROVE  Keeps
    <2>0. /\ r \in StubCall /\ RequestOK(r, starts, current, versions, runs)
          /\ r.step \in 1 .. Len(StubBody(r.kind))
          /\ versions \subseteq Versions
      BY DEF StubTyped, StubInv, RequestOK, TypeInv, TypeOK
    <2>1. r.kind = "start" => r.ver \in Versions
      BY <2>0 DEF StubCall, RequestOK, NoVersion, Versions, Execs
    <2>2. CASE StubSetState(r)
      <3>1. PICK s \in IntegrationState : StubAt(r, s) /\ state' = s
        BY <2>2 DEF StubSetState
      <3>2. StubBody(r.kind)[r.step] = s BY <3>1 DEF StubAt
      <3>3. UNCHANGED <<current, versions, runs>> BY <2>2 DEF StubSetState
      <3>4. s = "Tested" => r.kind = "start" /\ r.step = 6 BY <2>0, <3>2, StubBodies
      <3>5. s = "Tested" => PassedOf(runs) # {}
        <4>1. s = "Tested" => runs[r.ver].status = "succeeded" /\ r.ver \in RunIds
          BY <2>0, <2>1, <3>4 DEF RequestOK, Versions, RunIds
        <4>2. s = "Tested" => runs[r.ver].version \in PassedOf(runs)
          BY <4>1 DEF PassedOf
        <4>3. QED BY <4>2
      <3>6. s \in {"Deployed", "Running"} => current # NoVersion
        BY <2>0, <3>2, StubBodies DEF RequestOK
      <3>7. s # "Degraded"
        <4>1. r.kind \in {"start", "approve", "reject", "deploy"} BY <2>0 DEF StubCall
        <4>2. QED BY <2>0, <3>2, <4>1, NeverDegraded
      <3>8. QED BY <3>1, <3>3, <3>5, <3>6, <3>7, KeepsEnter
    <2>3. CASE StubInsert(r)
      <3>1. StubBody(r.kind)[r.step] = "insert" BY <2>3 DEF StubInsert, StubAt
      <3>2. r.kind = "start" BY <2>0, <3>1, StubBodies
      <3>3. versions' = versions \cup {r.ver} /\ UNCHANGED <<state, current, runs>>
        BY <2>3 DEF StubInsert
      <3>4. QED BY <2>1, <3>2, <3>3, KeepsGenerate
    <2>4. CASE StubPin(r)
      <3>1. StubBody(r.kind)[r.step] = "pin" BY <2>4 DEF StubPin, StubAt
      <3>2. (r.kind = "start" /\ r.step = 3) \/ r.kind = "approve"
        BY <2>0, <3>1, StubBodies
      <3>3. r.ver \in versions BY <2>0, <3>2 DEF RequestOK
      <3>4. current' = r.ver /\ UNCHANGED <<state, versions, runs>> BY <2>4 DEF StubPin
      <3>5. QED BY <2>0, <3>3, <3>4, KeepsPin
    <2>5. CASE StubRun(r)
      <3>1. PICK status \in {"running", "succeeded"} :
               /\ StubAt(r, IF status = "running" THEN "create" ELSE "finish")
               /\ runs' = [runs EXCEPT ![r.ver] = [version |-> r.ver, status |-> status]]
        BY <2>5 DEF StubRun
      <3>2. UNCHANGED <<state, current, versions>> BY <2>5 DEF StubRun
      <3>3. r.kind = "start" /\ r.step \in {4, 5}
        BY <2>0, <3>1, StubBodies DEF StubAt
      <3>4. /\ r.ver \in RunIds /\ r.ver \in Versions \cap versions
            /\ runs[r.ver].status # "succeeded"
        BY <2>0, <2>1, <3>3 DEF RequestOK, Versions, RunIds
      <3>5. /\ \A j \in RunIds : j # r.ver => runs'[j] = runs[j]
            /\ runs'[r.ver].version = r.ver
        BY <3>1, <3>4 DEF TypeInv, TypeOK
      <3>6. QED BY <3>2, <3>4, <3>5, KeepsRow
    <2>6. CASE StubAudit(r) BY <2>6, KeepsStill DEF StubAudit, rows
    <2>7. QED BY <1>3, <2>2, <2>3, <2>4, <2>5, <2>6
  <1>4. QED BY <1>1, <1>2, <1>3 DEF Stub

(* The row keeps what Lifecycle promises to the runner, the API and the    *)
(* user interface: every statement of a worker's attempt or of a request   *)
(* inside the stub is one of its steps or changes nothing they look at.    *)
THEOREM RowKeepsItsPromises == ClientsSpec => KeepsLifecycle
  <1>1. ClientsInit => Promised!Init
    <2> SUFFICES ASSUME ClientsInit PROVE Promised!Init OBVIOUS
    <2>1. /\ state = "Draft" /\ current = NoVersion /\ versions = {}
          /\ runs = [i \in RunIds |-> [version |-> NoVersion, status |-> "absent"]]
      BY DEF ClientsInit, Init
    <2>2. {i \in RunIds : runs[i].status = "succeeded"} = {} BY <2>1
    <2>3. QED BY <2>1, <2>2 DEF Promised!Init
  <1>2. ClientsInv /\ [Temporal \/ Stub]_clientVars =>
          [Promised!Next]_<<state, current, versions,
             {runs[r].version : r \in {q \in RunIds : runs[q].status = "succeeded"}}>>
    <2> SUFFICES ASSUME ClientsInv, [Temporal \/ Stub]_clientVars PROVE Keeps
      BY DEF Keeps, PassedOf
    <2>1. CASE Temporal
      <3>1. client # "stub" BY <2>1 DEF Temporal
      <3>2. QED BY <2>1, <3>1, TemporalKeeps DEF ClientsInv
    <2>2. CASE Stub
      <3>1. client = "stub"
        <4>1. ClientsInv /\ client # "stub" => requests = {} /\ handle = FALSE
          BY DEF ClientsInv
        <4>2. QED BY <2>2, <4>1 DEF Stub, StubStart, StubSignal, ApiRestart, Enter
      <3>2. QED BY <2>2, <3>1, StubKeepsRow DEF ClientsInv
    <2>3. CASE UNCHANGED clientVars
      BY <2>3, KeepsStill DEF clientVars, vars
    <2>4. QED BY <2>1, <2>2, <2>3
  <1>3. QED
    BY <1>1, <1>2, ClientsInvariant, PTL DEF ClientsSpec, KeepsLifecycle, Promised!Spec
=============================================================================
