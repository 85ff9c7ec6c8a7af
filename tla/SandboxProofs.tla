---------------------------- MODULE SandboxProofs ----------------------------
(***************************************************************************)
(* The sandbox for any runs, validations and calls: what a reported        *)
(* success means, what its egress log holds, and that both executors       *)
(* implement SandboxContract.                                              *)
(***************************************************************************)
EXTENDS Sandboxes, TLAPS

(* The Docker executor: what succeeded rests on, and that an answered call *)
(* is in the log of some entry.                                            *)
DockerOK(e) ==
    /\ pc[e] = "idle" => container[e] = "none"
    /\ pc[e] \in {"created", "registered"} => container[e] = "created"
    /\ pc[e] \in {"idle", "created"} => entry[e] = 0
    /\ pc[e] # "done" => status[e] = "none" /\ egress[e] = {}
    /\ exit[e] = "zero" => container[e] = "zero" /\ pc[e] \in {"exited", "done"}
    /\ status[e] = "succeeded" => exit[e] = "zero" /\ kill[e] = "none"
    /\ \A c \in Calls : calls[e][c] \in Answered => <<c, "answered">> \in log[e]

DockerInv == TypeOK /\ \A e \in Executions : DockerOK(e)

RunType == [pc : {"idle", "vm", "main", "wrapper", "command", "finally", "done", "threw"},
            status : {"none", "succeeded", "failed", "timeout"},
            egress : SUBSET Fetches,
            code : {"none", "up", "zero", "nonzero", "killed"},
            source : E2b!Vms, log : SUBSET Fetches, stdout : Seq(SUBSET Fetches)]

VmType == [state : {"none", "up", "gone"}, main : E2b!Vms]

E2bTyped ==
    /\ run \in [Validations -> RunType]
    /\ vm \in [E2b!Vms -> VmType]
    /\ agent \in {"none", "start", "open", "closed"}

(* The E2B executor: the source in the VM is the one of the run that is    *)
(* about to import it, whether the VM is its own or the agent's.           *)
E2bOK(e) ==
    /\ run[e].pc = "idle" => run[e] = E2b!NoRun
    /\ run[e].pc \in {"vm", "main", "wrapper"} => run[e].code = "none"
    /\ run[e].pc \in {"main", "wrapper"} /\ vm[E2b!Vm(e)].state = "up" =>
            vm[E2b!Vm(e)].main = e
    /\ run[e].code # "none" => run[e].source = e
    /\ run[e].pc \notin {"finally", "done"} => run[e].status = "none" /\ run[e].egress = {}

Active(e) == run[e].pc \notin {"idle", "done"}

OneAtATime ==
    /\ agent # "none" => \A d, e \in Validations : Active(d) /\ Active(e) => d = e
    /\ agent = "start" => \A e \in Validations : ~Active(e)

E2bInv == E2bTyped /\ OneAtATime /\ \A e \in Validations : E2bOK(e)
-----------------------------------------------------------------------------
LEMMA DockerInit == Init => DockerInv
  BY EntriesAssumption DEF Init, DockerInv, DockerOK, TypeOK, Answered

LEMMA DockerNext ==
  ASSUME DockerInv, [Next]_vars
  PROVE  DockerInv'
  <1>t. TypeOK BY DEF DockerInv
  <1>1. ASSUME NEW e \in Executions, Create(e) PROVE DockerInv'
    BY <1>1, <1>t DEF Create, Goto, proxy, keeper, result, DockerInv, DockerOK, TypeOK
  <1>2. ASSUME NEW e \in Executions, Throw(e) PROVE DockerInv'
    BY <1>2, <1>t DEF Throw, Goto, proxy, keeper, result, DockerInv, DockerOK, TypeOK
  (* The entry is the first one, if it is made. *)
  <1>3. ASSUME NEW e \in Executions, Register(e) PROVE DockerInv'
    <2>1. /\ pc[e] = "created" /\ entry[e] = 0
          /\ pc' = [pc EXCEPT ![e] = "registered"]
          /\ UNCHANGED <<failClosed, kill, exit, status, egress, tmpdir, container,
                         proxyUp, via, log, calls>>
      BY <1>3 DEF Register, Goto, result, DockerInv, DockerOK
    <2>2. UNCHANGED <<store, entry>> \/ (store' = [store EXCEPT ![e] = "live"]
                                         /\ entry' = [entry EXCEPT ![e] = @ + 1])
      BY <1>3 DEF Register, register
    <2>3. entry[e] + 1 \in 0 .. MaxEntries BY <2>1, EntriesAssumption
    <2>4. /\ entry' \in [Executions -> 0 .. MaxEntries]
          /\ \A d \in Executions : d # e => entry'[d] = entry[d]
      <3>1. entry \in [Executions -> 0 .. MaxEntries] BY <1>t DEF TypeOK
      <3>2. CASE UNCHANGED entry BY <3>1, <3>2
      <3>3. CASE entry' = [entry EXCEPT ![e] = @ + 1]
        <4> DEFINE n == entry[e] + 1
        <4>1. entry' = [entry EXCEPT ![e] = n] /\ n \in 0 .. MaxEntries BY <3>3, <2>3
        <4> HIDE DEF n
        <4>2. QED BY <3>1, <4>1
      <3>4. QED BY <2>2, <3>2, <3>3
    <2>5. store' \in [Executions -> {"absent", "live", "expired"}]
      BY <1>t, <2>2 DEF TypeOK
    <2>6. pc' \in [Executions -> {"idle", "created", "registered", "waiting", "exited",
                                  "done", "threw"}]
      BY <1>t, <2>1 DEF TypeOK
    <2>7. TypeOK' BY <1>t, <2>1, <2>4, <2>5, <2>6 DEF TypeOK
    <2>8. pc'[e] = "registered" /\ \A d \in Executions : d # e => pc'[d] = pc[d]
      BY <1>t, <2>1 DEF TypeOK
    <2>9. \A d \in Executions : DockerOK(d)'
      BY <2>1, <2>4, <2>8 DEF DockerInv, DockerOK
    <2>10. QED BY <2>7, <2>9 DEF DockerInv
  <1>4. ASSUME NEW e \in Executions, Start(e) PROVE DockerInv'
    BY <1>4, <1>t DEF Start, Goto, proxy, keeper, result, DockerInv, DockerOK, TypeOK
  <1>5. ASSUME NEW e \in Executions, Kill(e) PROVE DockerInv'
    <2>1. /\ pc[e] = "waiting"
          /\ UNCHANGED <<failClosed, exit, status, egress, pc, tmpdir, proxyUp, store, entry,
                         via, log, calls>>
          /\ \E answer \in {"taken", "refused"} : kill' = [kill EXCEPT ![e] = answer]
          /\ container' = [container EXCEPT ![e] = "killed"] \/ UNCHANGED container
      BY <1>5 DEF Kill, proxy, keeper, result
    <2>2. /\ kill' \in [Executions -> {"none", "taken", "refused"}]
          /\ \A d \in Executions : d # e => kill'[d] = kill[d]
      BY <1>t, <2>1 DEF TypeOK
    <2>3. /\ container' \in [Executions -> {"none", "created", "up"} \cup Dead]
          /\ \A d \in Executions : d # e => container'[d] = container[d]
      <3>1. container \in [Executions -> {"none", "created", "up"} \cup Dead] BY <1>t DEF TypeOK
      <3>2. "killed" \in {"none", "created", "up"} \cup Dead BY DEF Dead
      <3>3. CASE container' = [container EXCEPT ![e] = "killed"] BY <3>1, <3>2, <3>3
      <3>4. CASE UNCHANGED container BY <3>1, <3>4
      <3>5. QED BY <2>1, <3>3, <3>4
    <2>4. TypeOK' BY <1>t, <2>1, <2>2, <2>3 DEF TypeOK
    <2>5. \A d \in Executions : DockerOK(d)'
      BY <2>1, <2>2, <2>3 DEF DockerInv, DockerOK
    <2>6. QED BY <2>4, <2>5 DEF DockerInv
  <1>6. ASSUME NEW e \in Executions, WaitReturns(e) PROVE DockerInv'
    BY <1>6, <1>t DEF WaitReturns, Goto, proxy, keeper, DockerInv, DockerOK, TypeOK, Dead
  <1>7. ASSUME NEW e \in Executions, WaitThrows(e) PROVE DockerInv'
    BY <1>7, <1>t DEF WaitThrows, Goto, proxy, keeper, DockerInv, DockerOK, TypeOK, Dead
  <1>8. ASSUME NEW e \in Executions, FetchLog(e) PROVE DockerInv'
    <2>1. PICK reachable \in BOOLEAN :
            /\ egress' = [egress EXCEPT ![e] = IF reachable THEN Listed(e) ELSE {}]
            /\ status' = [status EXCEPT ![e] = Outcome(kill[e] # "none", exit[e], reachable)]
      BY <1>8, <1>t DEF FetchLog, TypeOK
    <2>2. /\ pc[e] = "exited" /\ pc' = [pc EXCEPT ![e] = "done"]
          /\ tmpdir' = [tmpdir EXCEPT ![e] = FALSE]
          /\ UNCHANGED <<failClosed, kill, exit, container, proxyUp, entry, via, log, calls>>
          /\ store' \in [Executions -> {"absent", "live", "expired"}]
      BY <1>8, <1>t DEF FetchLog, Get, Goto, TypeOK
    <2> DEFINE o == Outcome(kill[e] # "none", exit[e], reachable)
    <2>3. /\ o \in {"succeeded", "failed", "timeout"}
          /\ o = "succeeded" => exit[e] = "zero" /\ kill[e] = "none"
      BY DEF Outcome
    <2> HIDE DEF o
    <2>4. /\ status' \in [Executions -> {"none", "succeeded", "failed", "timeout"}]
          /\ status'[e] = o
          /\ \A d \in Executions : d # e => status'[d] = status[d]
      BY <1>t, <2>1, <2>3 DEF TypeOK, o
    <2>5. /\ egress' \in [Executions -> SUBSET (Calls \X Verdicts)]
          /\ \A d \in Executions : d # e => egress'[d] = egress[d]
      <3>1. (IF reachable THEN Listed(e) ELSE {}) \in SUBSET (Calls \X Verdicts)
        BY <1>t DEF TypeOK, Listed
      <3>2. QED BY <1>t, <2>1, <3>1 DEF TypeOK
    <2>6. TypeOK' BY <1>t, <2>2, <2>4, <2>5 DEF TypeOK
    <2>7. ASSUME NEW d \in Executions PROVE DockerOK(d)'
      BY <1>t, <2>2, <2>3, <2>4, <2>5 DEF DockerInv, DockerOK, TypeOK
    <2>8. QED BY <2>6, <2>7 DEF DockerInv
  <1>9. ASSUME NEW e \in Executions, Exit(e) PROVE DockerInv'
    BY <1>9, <1>t
       DEF Exit, host, result, proxy, keeper, DockerInv, DockerOK, TypeOK, Dead
  <1>10. ASSUME NEW e \in Executions, NEW c \in Calls, Request(e, c) PROVE DockerInv'
    <2>1. /\ UNCHANGED <<failClosed, kill, exit, status, egress, pc, tmpdir, container,
                         proxyUp, entry>>
          /\ \E to \in {"unknown", "refused", "forwarded"} : calls' = [calls EXCEPT ![e][c] = to]
          /\ \E xs \in SUBSET {<<c, "blocked">>} : log' = [log EXCEPT ![e] = @ \cup xs]
          /\ store' \in [Executions -> {"absent", "live", "expired"}]
          /\ via' \in [Executions -> [Calls -> 0 .. MaxEntries]]
      <3>1. log = [log EXCEPT ![e] = @ \cup {}] BY <1>t DEF TypeOK
      <3>2. store' \in [Executions -> {"absent", "live", "expired"}]
        BY <1>10, <1>t DEF Request, Get, TypeOK
      <3>3. via' \in [Executions -> [Calls -> 0 .. MaxEntries]]
        <4>1. UNCHANGED via \/ via' = [via EXCEPT ![e][c] = entry[e]] BY <1>10 DEF Request
        <4>2. entry[e] \in 0 .. MaxEntries BY <1>t DEF TypeOK
        <4>3. via \in [Executions -> [Calls -> 0 .. MaxEntries]] BY <1>t DEF TypeOK
        <4>4. QED BY <4>1, <4>2, <4>3
      <3>4. QED BY <1>10, <3>1, <3>2, <3>3 DEF Request, SetCall, Push, host, result
    <2>x. PICK xs \in SUBSET {<<c, "blocked">>} : log' = [log EXCEPT ![e] = @ \cup xs] BY <2>1
    <2>2. log' \in [Executions -> SUBSET (Calls \X Verdicts)]
      <3>1. xs \subseteq Calls \X Verdicts BY DEF Verdicts
      <3>2. QED BY <1>t, <2>x, <3>1 DEF TypeOK
    <2>3. \A d \in Executions : log[d] \subseteq log'[d] BY <1>t, <2>x DEF TypeOK
    <2>4. /\ calls' \in [Executions -> [Calls -> Answered \cup
                    {"none", "unknown", "refused", "forwarded", "failed", "lost"}]]
          /\ \A d \in Executions, b \in Calls :
                calls'[d][b] \in Answered => calls[d][b] \in Answered
      BY <1>t, <2>1 DEF TypeOK, Answered
    <2>5. TypeOK' BY <1>t, <2>1, <2>2, <2>4 DEF TypeOK
    <2>6. QED BY <2>1, <2>3, <2>4, <2>5 DEF DockerInv, DockerOK
  <1>11. ASSUME NEW e \in Executions, NEW c \in Calls, Answer(e, c) PROVE DockerInv'
    <2>1. /\ UNCHANGED <<failClosed, kill, exit, status, egress, pc, tmpdir, container,
                         proxyUp, store, entry, via>>
          /\ calls' = [calls EXCEPT ![e][c] = "answered"]
          /\ log' = [log EXCEPT ![e] = @ \cup {<<c, "answered">>}]
      BY <1>11 DEF Answer, SetCall, Push, host, result, keeper
    <2>2. log' \in [Executions -> SUBSET (Calls \X Verdicts)]
      BY <1>t, <2>1 DEF TypeOK, Verdicts
    <2>3. \A d \in Executions, b \in Calls :
            calls'[d][b] \in Answered => <<b, "answered">> \in log'[d]
      BY <1>t, <2>1 DEF DockerInv, DockerOK, TypeOK
    <2>4. calls' \in [Executions -> [Calls -> Answered \cup
                    {"none", "unknown", "refused", "forwarded", "failed", "lost"}]]
      BY <1>t, <2>1 DEF TypeOK, Answered
    <2>5. TypeOK' BY <1>t, <2>1, <2>2, <2>4 DEF TypeOK
    <2>6. QED BY <2>1, <2>3, <2>5 DEF DockerInv, DockerOK
  <1>12. ASSUME NEW e \in Executions, NEW c \in Calls, Relay(e, c) PROVE DockerInv'
    BY <1>12, <1>t
       DEF Relay, SetCall, host, result, keeper, DockerInv, DockerOK, TypeOK, Answered
  <1>13. ASSUME NEW e \in Executions, NEW c \in Calls, UpstreamFails(e, c) PROVE DockerInv'
    <2> DEFINE to == IF calls[e][c] = "answered" THEN "broken" ELSE "failed"
    <2>1. /\ calls' = [calls EXCEPT ![e][c] = to] /\ calls[e][c] \in {"forwarded", "answered"}
          /\ log' = [log EXCEPT ![e] = @ \cup {<<c, "blocked">>}]
          /\ UNCHANGED <<failClosed, kill, exit, status, egress, pc, tmpdir, container,
                         proxyUp, store, entry, via>>
      BY <1>13 DEF UpstreamFails, SetCall, Push, host, result, keeper
    <2>2. to \in {"broken", "failed"} /\ (to = "broken" => calls[e][c] = "answered")
      OBVIOUS
    <2> HIDE DEF to
    <2>3. TypeOK'
      BY <1>t, <2>1, <2>2 DEF TypeOK, Answered, Verdicts
    <2>4. ASSUME NEW d \in Executions, NEW b \in Calls, calls'[d][b] \in Answered
          PROVE  <<b, "answered">> \in log'[d]
      <3>1. calls[d][b] \in Answered
        BY <1>t, <2>1, <2>2, <2>4 DEF TypeOK, Answered
      <3>2. log[d] \subseteq log'[d] BY <1>t, <2>1 DEF TypeOK
      <3>3. QED BY <3>1, <3>2 DEF DockerInv, DockerOK
    <2>5. QED BY <2>1, <2>3, <2>4 DEF DockerInv, DockerOK
  (* Whoever registers again was started: its run is past its own request. *)
  <1>14. ASSUME NEW e \in Executions, RegisterAgain(e) PROVE DockerInv'
    <2>1. /\ UNCHANGED <<failClosed, kill, exit, status, egress, pc, tmpdir, container,
                         proxyUp, via, log, calls>>
          /\ store' = [store EXCEPT ![e] = "live"]
          /\ entry' = [entry EXCEPT ![e] = @ + 1] /\ entry[e] < MaxEntries
      BY <1>14 DEF RegisterAgain, register, host, result
    <2>2. pc[e] \notin {"idle", "created"}
      BY <1>14 DEF RegisterAgain, Started, Dead, DockerInv, DockerOK
    <2>3. entry[e] + 1 \in 0 .. MaxEntries BY <1>t, <2>1, EntriesAssumption DEF TypeOK
    <2>4. /\ entry' \in [Executions -> 0 .. MaxEntries]
          /\ \A d \in Executions : d # e => entry'[d] = entry[d]
      BY <1>t, <2>1, <2>3 DEF TypeOK
    <2>5. store' \in [Executions -> {"absent", "live", "expired"}]
      BY <1>t, <2>1 DEF TypeOK
    <2>6. TypeOK' BY <1>t, <2>1, <2>4, <2>5 DEF TypeOK
    <2>7. QED BY <2>1, <2>2, <2>4, <2>6 DEF DockerInv, DockerOK
  <1>15. ASSUME NEW e \in Executions, Expire(e) \/ Teardown(e) PROVE DockerInv'
    <2>1. /\ UNCHANGED <<failClosed, kill, exit, status, egress, pc, tmpdir, container,
                         proxyUp, entry, via, log, calls>>
          /\ \E s \in {"expired", "absent"} : store' = [store EXCEPT ![e] = s]
      BY <1>15 DEF Expire, Teardown, host, result
    <2>2. TypeOK' BY <1>t, <2>1 DEF TypeOK
    <2>3. QED BY <2>1, <2>2 DEF DockerInv, DockerOK
  <1>16. CASE Sweep
    BY <1>16, <1>t DEF Sweep, host, result, DockerInv, DockerOK, TypeOK
  <1>17. CASE ProxyCrash
    <2>1. /\ proxyUp' = FALSE /\ store' = [e \in Executions |-> "absent"]
          /\ UNCHANGED <<failClosed, kill, exit, status, egress, pc, tmpdir, container,
                         entry, via, log>>
          /\ calls' = [e \in Executions |-> [c \in Calls |->
                IF calls[e][c] \in {"forwarded", "answered"} THEN "lost" ELSE calls[e][c]]]
      BY <1>17 DEF ProxyCrash, host, result
    <2>2. \A e \in Executions, c \in Calls :
            /\ calls'[e][c] = IF calls[e][c] \in {"forwarded", "answered"} THEN "lost" ELSE calls[e][c]
            /\ calls[e][c] \in Answered \cup
                    {"none", "unknown", "refused", "forwarded", "failed", "lost"}
      BY <1>t, <2>1 DEF TypeOK
    <2>3. TypeOK' BY <1>t, <2>1, <2>2 DEF TypeOK
    <2>4. \A e \in Executions, c \in Calls : calls'[e][c] \in Answered => calls[e][c] \in Answered
      BY <2>2 DEF Answered
    <2>5. QED BY <2>1, <2>3, <2>4 DEF DockerInv, DockerOK
  <1>18. CASE ProxyRestart
    BY <1>18, <1>t DEF ProxyRestart, host, result, DockerInv, DockerOK, TypeOK
  <1>19. CASE UNCHANGED vars
    BY <1>19, <1>t DEF vars, host, result, proxy, keeper, DockerInv, DockerOK, TypeOK
  <1>20. QED
    BY <1>1, <1>2, <1>3, <1>4, <1>5, <1>6, <1>7, <1>8, <1>9, <1>10, <1>11, <1>12, <1>13,
       <1>14, <1>15, <1>16, <1>17, <1>18, <1>19
       DEF Next, RunStep, CallStep
-----------------------------------------------------------------------------
LEMMA NoRunIs ==
    /\ E2b!NoRun \in RunType /\ E2b!NoRun.pc = "idle" /\ E2b!NoRun.status = "none"
    /\ E2b!NoRun.egress = {} /\ E2b!NoRun.code = "none" /\ E2b!NoRun.source = 0
    /\ E2b!NoRun.log = {} /\ E2b!NoRun.stdout = <<>>
  <1>1. <<>> \in Seq(SUBSET Fetches) OBVIOUS
  <1>2. QED BY <1>1 DEF E2b!NoRun, RunType, E2b!Nobody, E2b!Vms, E2b!Shared

LEMMA E2bInit == E2b!Init => E2bInv
  <1> SUFFICES ASSUME E2b!Init PROVE E2bInv OBVIOUS
  <1>1. /\ run = [e \in Validations |-> E2b!NoRun]
        /\ vm = [v \in E2b!Vms |-> [state |-> "none", main |-> E2b!Nobody]]
        /\ agent \in {"none", "start"}
    BY DEF E2b!Init
  <1>2. [state |-> "none", main |-> E2b!Nobody] \in VmType
    BY DEF VmType, E2b!Nobody, E2b!Vms, E2b!Shared
  <1>3. E2bTyped BY <1>1, <1>2, NoRunIs DEF E2bTyped
  <1>4. OneAtATime BY <1>1, NoRunIs DEF OneAtATime, Active
  <1>5. \A e \in Validations : E2bOK(e) BY <1>1, NoRunIs DEF E2bOK
  <1>6. QED BY <1>3, <1>4, <1>5 DEF E2bInv

(* A run changes, nothing else: what it must keep.                         *)
LEMMA RunChanges ==
  ASSUME E2bInv, NEW e \in Validations, NEW r \in RunType, E2b!Set(e, r),
         UNCHANGED <<vm, agent>>,
         \/ r.pc = run[e].pc
         \/ r.pc \in {"finally", "done", "threw", "command"}
         \/ r.pc = "wrapper" /\ run[e].pc = "main",
         r.pc = "idle" => r = E2b!NoRun,
         r.pc \in {"vm", "main", "wrapper"} => r.code = "none",
         r.code # "none" => r.source = e,
         r.pc \notin {"finally", "done"} => r.status = "none" /\ r.egress = {},
         r.pc \in {"idle", "done"} \/ Active(e) \/ agent = "none"
  PROVE  E2bInv'
  <1>1. /\ run' \in [Validations -> RunType] /\ run'[e] = r
        /\ \A d \in Validations : d # e => run'[d] = run[d]
    BY DEF E2bInv, E2bTyped, E2b!Set
  <1>2. E2bTyped' BY <1>1 DEF E2bInv, E2bTyped
  <1>3. OneAtATime' BY <1>1 DEF E2bInv, OneAtATime, Active
  <1>4. \A d : E2b!Vm(d)' = E2b!Vm(d) BY DEF E2b!Vm
  <1>5. ASSUME NEW d \in Validations PROVE E2bOK(d)'
    <2>1. CASE d = e BY <2>1, <1>1, <1>4 DEF E2bInv, E2bOK
    <2>2. CASE d # e BY <2>2, <1>1, <1>4 DEF E2bInv, E2bOK
    <2>3. QED BY <2>1, <2>2
  <1>6. QED BY <1>2, <1>3, <1>5 DEF E2bInv

(* A VM goes away: the process in it is killed, the records stay.          *)
LEMMA WithoutVmIs ==
  ASSUME E2bTyped, NEW v
  PROVE  /\ E2b!WithoutVm(v) \in [Validations -> RunType]
         /\ \A e \in Validations :
                \/ E2b!WithoutVm(v)[e] = run[e]
                \/ run[e].code = "up" /\ E2b!WithoutVm(v)[e] = E2b!Ended(e, "killed")
  BY ZenonT(30) DEF E2b!WithoutVm, E2b!Ended, E2bTyped, RunType

Killed(d, r) == r = run[d] \/ (run[d].code = "up" /\ r = E2b!Ended(d, "killed"))

(* VMs go away, or get no source that anybody is about to run.             *)
LEMMA VmsChange ==
  ASSUME E2bInv, run' \in [Validations -> RunType], vm' \in [E2b!Vms -> VmType],
         \A d \in Validations : Killed(d, run'[d]) \/
            (run[d].pc = "finally" /\ \E r : Killed(d, r) /\ run'[d] = [r EXCEPT !.pc = "done"]),
         \A d \in Validations : run[d].pc \in {"main", "wrapper"} =>
            \/ vm'[E2b!Vm(d)] = vm[E2b!Vm(d)]
            \/ vm'[E2b!Vm(d)].state # "up",
         agent' = agent \/ (agent # "none" /\ agent' \in {"open", "closed"})
  PROVE  E2bInv'
  <1>1. E2bTyped' BY DEF E2bInv, E2bTyped
  <1>2. \A d : E2b!Vm(d)' = E2b!Vm(d) BY DEF E2b!Vm
  <1>3. ASSUME NEW d \in Validations
        PROVE  /\ run'[d].pc = run[d].pc \/ (run[d].pc = "finally" /\ run'[d].pc = "done")
               /\ run'[d].code = run[d].code \/ (run[d].code = "up" /\ run'[d].code = "killed")
               /\ run'[d].source = run[d].source /\ run'[d].status = run[d].status
               /\ run'[d].egress = run[d].egress
    <2>1. run[d] \in RunType BY DEF E2bInv, E2bTyped
    <2>2. ASSUME NEW r, Killed(d, r)
          PROVE  /\ r \in RunType /\ r.pc = run[d].pc
                 /\ r.code = run[d].code \/ (run[d].code = "up" /\ r.code = "killed")
                 /\ r.source = run[d].source /\ r.status = run[d].status
                 /\ r.egress = run[d].egress
      BY ZenonT(30), <2>1, <2>2 DEF Killed, E2b!Ended, RunType
    <2>3. CASE Killed(d, run'[d]) BY <2>2, <2>3
    <2>4. CASE run[d].pc = "finally" /\ \E r : Killed(d, r) /\ run'[d] = [r EXCEPT !.pc = "done"]
      <3>1. PICK r : Killed(d, r) /\ run'[d] = [r EXCEPT !.pc = "done"] BY <2>4
      <3>2. QED BY <2>2, <2>4, <3>1 DEF RunType
    <2>5. QED BY <2>3, <2>4
  <1>4. OneAtATime' BY <1>3 DEF E2bInv, OneAtATime, Active
  <1>5. ASSUME NEW d \in Validations PROVE E2bOK(d)'
    <2>1. run'[d].pc = "idle" => run'[d] = E2b!NoRun
      <3> SUFFICES ASSUME run'[d].pc = "idle" PROVE run'[d] = E2b!NoRun OBVIOUS
      <3>1. run[d].pc = "idle" BY <1>3
      <3>2. run[d] = E2b!NoRun BY <3>1 DEF E2bInv, E2bOK
      <3>3. run[d].code # "up" /\ run[d].pc # "finally" BY <3>2, NoRunIs
      <3>4. QED BY <3>2, <3>3 DEF Killed
    <2>2. QED BY <1>2, <1>3, <2>1 DEF E2bInv, E2bOK
  <1>6. QED BY <1>1, <1>4, <1>5 DEF E2bInv

(* What is read of stdout, whoever printed it.                             *)
LEMMA HeadIsFetches ==
  ASSUME NEW e, run[e] \in RunType
  PROVE  /\ E2b!extractWrapperOutput(e) \subseteq Fetches
         /\ E2b!extractWrapperOutput(e) \subseteq E2bTold(e)
  <1>1. run[e].stdout \in Seq(SUBSET Fetches) BY DEF RunType
  <1>2. CASE run[e].stdout = <<>> BY <1>2 DEF E2b!extractWrapperOutput
  <1>3. CASE run[e].stdout # <<>>
    <2>1. Head(run[e].stdout) = run[e].stdout[1] /\ 1 \in DOMAIN run[e].stdout
      BY <1>1, <1>3
    <2>2. run[e].stdout[1] \subseteq Fetches BY <1>1, <2>1
    <2>3. QED BY <1>3, <2>1, <2>2 DEF E2b!extractWrapperOutput, E2bTold
  <1>4. QED BY <1>2, <1>3

(* The process goes on or ends, and prints a line or does not.             *)
LEMMA CodeChanges ==
  ASSUME NEW e \in Validations, run[e] \in RunType, E2b!CodeStep(e)
  PROVE  /\ run[e].code = "up" /\ UNCHANGED <<vm, agent>>
         /\ \E r \in RunType :
               /\ E2b!Set(e, r) /\ r.pc = run[e].pc /\ r.status = run[e].status
               /\ r.egress = run[e].egress /\ r.source = run[e].source
               /\ r.stdout = run[e].stdout \/
                    \E cs \in SUBSET Fetches : r.stdout = Append(run[e].stdout, cs)
  <1> DEFINE Goal == \E r \in RunType :
               /\ E2b!Set(e, r) /\ r.pc = run[e].pc /\ r.status = run[e].status
               /\ r.egress = run[e].egress /\ r.source = run[e].source
               /\ r.stdout = run[e].stdout \/
                    \E cs \in SUBSET Fetches : r.stdout = Append(run[e].stdout, cs)
  <1>1. run[e].code = "up" /\ UNCHANGED <<vm, agent>>
    BY DEF E2b!CodeStep, E2b!Return, E2b!ExitEarly, E2b!Fetch, E2b!PrintLine
  <1>2. ASSUME NEW cs \in SUBSET Fetches PROVE Append(run[e].stdout, cs) \in Seq(SUBSET Fetches)
    BY DEF RunType
  <1>3. CASE E2b!Return(e)
    <2>1. PICK code \in E2b!ExitCodes(e) :
            E2b!Set(e, [E2b!Ended(e, code) EXCEPT !.stdout = Append(@, run[e].log)])
      BY Zenon, <1>3 DEF E2b!Return
    <2>2. code \in {"zero", "nonzero"} BY DEF E2b!ExitCodes
    <2> DEFINE r == [E2b!Ended(e, code) EXCEPT !.stdout = Append(@, run[e].log)]
    <2>3. run[e].log \in SUBSET Fetches BY DEF RunType
    <2>4. r = [run[e] EXCEPT !.code = code, !.log = {}, !.stdout = Append(run[e].stdout, run[e].log)]
      BY DEF E2b!Ended, RunType
    <2>5. E2b!Set(e, r) BY <2>1
    <2> HIDE DEF r
    <2>6. /\ r \in RunType /\ r.pc = run[e].pc /\ r.status = run[e].status
          /\ r.egress = run[e].egress /\ r.source = run[e].source
          /\ r.stdout = Append(run[e].stdout, run[e].log)
      <3> DEFINE out == Append(run[e].stdout, run[e].log)
      <3>1. out \in Seq(SUBSET Fetches) BY <1>2, <2>3
      <3>2. r = [run[e] EXCEPT !.code = code, !.log = {}, !.stdout = out] BY <2>4
      <3> HIDE DEF out
      <3>3. /\ r \in RunType /\ r.pc = run[e].pc /\ r.status = run[e].status
            /\ r.egress = run[e].egress /\ r.source = run[e].source /\ r.stdout = out
        BY <2>2, <3>1, <3>2 DEF RunType
      <3>4. QED BY <3>3 DEF out
    <2>7. Goal BY <2>3, <2>5, <2>6
    <2>8. QED BY <1>1, <2>7
  <1>4. CASE E2b!ExitEarly(e)
    <2>1. PICK code \in {"zero", "nonzero"} : E2b!Set(e, E2b!Ended(e, code))
      BY <1>4 DEF E2b!ExitEarly, E2b!ExitCodes
    <2>2. /\ E2b!Ended(e, code) \in RunType /\ E2b!Ended(e, code).pc = run[e].pc
          /\ E2b!Ended(e, code).status = run[e].status
          /\ E2b!Ended(e, code).egress = run[e].egress
          /\ E2b!Ended(e, code).source = run[e].source
          /\ E2b!Ended(e, code).stdout = run[e].stdout
      BY DEF E2b!Ended, RunType
    <2>3. Goal BY <2>1, <2>2
    <2>4. QED BY <1>1, <2>3
  <1>5. CASE \E c \in Fetches : E2b!Fetch(e, c)
    <2>1. PICK c \in Fetches : E2b!Set(e, [run[e] EXCEPT !.log = @ \cup {c}])
      BY <1>5 DEF E2b!Fetch
    <2> DEFINE r == [run[e] EXCEPT !.log = @ \cup {c}]
    <2>2. /\ r \in RunType /\ r.pc = run[e].pc /\ r.status = run[e].status
          /\ r.egress = run[e].egress /\ r.source = run[e].source
          /\ r.stdout = run[e].stdout
      BY DEF RunType
    <2>3. E2b!Set(e, r) BY <2>1
    <2> HIDE DEF r
    <2>4. Goal BY <2>2, <2>3
    <2>5. QED BY <1>1, <2>4
  <1>6. CASE \E cs \in SUBSET Fetches : E2b!PrintLine(e, cs)
    <2>1. PICK cs \in SUBSET Fetches :
            run[e].stdout = <<>> /\ E2b!Set(e, [run[e] EXCEPT !.stdout = <<cs>>])
      BY <1>6 DEF E2b!PrintLine
    <2> DEFINE r == [run[e] EXCEPT !.stdout = <<cs>>]
    <2>2. <<cs>> \in Seq(SUBSET Fetches) /\ <<cs>> = Append(<<>>, cs) OBVIOUS
    <2>3. /\ r.pc = run[e].pc /\ r.status = run[e].status
          /\ r.egress = run[e].egress /\ r.source = run[e].source
          /\ r.stdout = Append(run[e].stdout, cs)
      BY <2>1, <2>2 DEF RunType
    <2>4. r \in RunType BY <2>2 DEF RunType
    <2>5. E2b!Set(e, r) BY <2>1
    <2> HIDE DEF r
    <2>6. Goal BY <2>3, <2>4, <2>5
    <2>7. QED BY <1>1, <2>6
  <1>7. QED BY <1>3, <1>4, <1>5, <1>6 DEF E2b!CodeStep

LEMMA E2bNext ==
  ASSUME E2bInv, [E2b!Next]_(E2b!vars)
  PROVE  E2bInv'
  <1>t. /\ run \in [Validations -> RunType] /\ vm \in [E2b!Vms -> VmType]
        /\ agent \in {"none", "start", "open", "closed"}
    BY DEF E2bInv, E2bTyped
  <1>v. /\ \A e \in Validations : E2b!Vm(e) \in E2b!Vms /\ e \in E2b!Vms /\ e # 0 /\ e # E2b!Shared
        /\ E2b!Shared \in E2b!Vms /\ E2b!Nobody \in E2b!Vms
    BY ValidationsAssumption DEF E2b!Vm, E2b!Vms, E2b!Shared, E2b!Nobody
  <1>g. E2b!Gone \in VmType /\ E2b!Gone.state = "gone"
    BY DEF E2b!Gone, VmType, E2b!Nobody, E2b!Vms, E2b!Shared
  <1>i. ASSUME NEW e \in Validations PROVE E2bOK(e) /\ run[e] \in RunType
    BY <1>t DEF E2bInv
  <1>1. ASSUME NEW e \in Validations, E2b!Begin(e) PROVE E2bInv'
    <2> DEFINE r == [E2b!NoRun EXCEPT !.pc = "vm"]
    <2>1. /\ r \in RunType /\ r.pc = "vm" /\ r.status = "none" /\ r.egress = {}
          /\ r.code = "none"
      BY NoRunIs DEF RunType
    <2>2. [E2b!NoRun EXCEPT !.pc = "threw"] \in RunType BY NoRunIs DEF RunType
    <2>3. run[e].pc = "idle" /\ UNCHANGED agent BY <1>1 DEF E2b!Begin
    <2> HIDE DEF r
    <2>4. ASSUME NEW q \in RunType, q.pc \in {"vm", "threw"}, q.status = "none",
                 q.egress = {}, q.code = "none",
                 run' = [run EXCEPT ![e] = q], vm' \in [E2b!Vms -> VmType],
                 \A v \in E2b!Vms : vm'[v] = vm[v] \/ v = e,
                 agent = "none" \/ (agent = "open" /\ UNCHANGED vm /\ E2b!Alone /\ q.pc = "vm")
          PROVE  E2bInv'
      <3>1. /\ run' \in [Validations -> RunType] /\ run'[e] = q
            /\ \A d \in Validations : d # e => run'[d] = run[d]
        BY <1>t, <2>4
      <3>2. E2bTyped' BY <1>t, <2>3, <2>4, <3>1 DEF E2bTyped
      <3>3. OneAtATime'
        <4>1. CASE agent = "none" BY <4>1, <2>3 DEF OneAtATime
        <4>2. CASE agent = "open" /\ E2b!Alone
          BY <4>2, <2>3, <3>1 DEF OneAtATime, E2b!Alone, Active
        <4>3. QED BY <4>1, <4>2, <2>4
      <3>4. ASSUME NEW d \in Validations PROVE E2bOK(d)'
        <4>1. CASE d = e BY <4>1, <3>1, <2>4 DEF E2bOK
        <4>2. CASE d # e
          <5>1. run'[d] = run[d] /\ E2b!Vm(d)' = E2b!Vm(d)
            BY <4>2, <3>1, <2>3 DEF E2b!Vm
          <5>2. vm'[E2b!Vm(d)] = vm[E2b!Vm(d)]
            BY <4>2, <1>v, <2>4 DEF E2b!Vm
          <5>3. QED BY <5>1, <5>2, <1>i DEF E2bOK
        <4>3. QED BY <4>1, <4>2
      <3>5. QED BY <3>2, <3>3, <3>4 DEF E2bInv
    <2>5. CASE agent = "none" /\ run' = [run EXCEPT ![e] = r] /\ vm' = [vm EXCEPT ![e].state = "up"]
      <3>1. vm' \in [E2b!Vms -> VmType] /\ \A v \in E2b!Vms : vm'[v] = vm[v] \/ v = e
        BY <1>t, <1>v, <2>5 DEF VmType
      <3>2. QED BY <2>1, <2>4, <2>5, <3>1
    <2>6. CASE agent = "none" /\ run' = [run EXCEPT ![e] = [E2b!NoRun EXCEPT !.pc = "threw"]] /\ UNCHANGED vm
      <3>1. LET q == [E2b!NoRun EXCEPT !.pc = "threw"]
            IN  q.pc = "threw" /\ q.status = "none" /\ q.egress = {} /\ q.code = "none"
        BY NoRunIs DEF RunType
      <3>2. QED BY <1>t, <2>2, <2>4, <2>6, <3>1
    <2>7. CASE agent = "open" /\ E2b!Alone /\ run' = [run EXCEPT ![e] = r] /\ UNCHANGED vm
      BY <1>t, <2>1, <2>4, <2>7
    <2>8. QED BY <1>1, <2>5, <2>6, <2>7 DEF E2b!Begin, E2b!Set, r
  <1>2. ASSUME NEW e \in Validations, E2b!WriteMain(e) PROVE E2bInv'
    <2> DEFINE r == [run[e] EXCEPT !.pc = "main"]
    <2>1. /\ run[e].pc = "vm" /\ run' = [run EXCEPT ![e] = r]
          /\ vm' = [vm EXCEPT ![E2b!Vm(e)].main = e] /\ UNCHANGED agent
      BY <1>2 DEF E2b!WriteMain, E2b!Set
    <2>2. /\ r \in RunType /\ r.pc = "main" /\ r.status = "none" /\ r.egress = {}
          /\ r.code = "none"
      BY SMTT(30), <1>i, <2>1 DEF RunType, E2bOK
    <2> HIDE DEF r
    <2>3. /\ run' \in [Validations -> RunType] /\ run'[e] = r
          /\ \A d \in Validations : d # e => run'[d] = run[d]
      BY <1>t, <2>1, <2>2
    <2>4. /\ vm' \in [E2b!Vms -> VmType] /\ vm'[E2b!Vm(e)].main = e
          /\ \A v \in E2b!Vms : v # E2b!Vm(e) => vm'[v] = vm[v]
      BY SMTT(30), <1>t, <1>v, <2>1 DEF VmType
    <2>5. E2bTyped' BY <1>t, <2>1, <2>3, <2>4 DEF E2bTyped
    <2>6. OneAtATime' BY <2>1, <2>2, <2>3 DEF E2bInv, OneAtATime, Active
    <2>7. ASSUME NEW d \in Validations PROVE E2bOK(d)'
      <3>0. E2b!Vm(d)' = E2b!Vm(d) /\ E2b!Vm(e)' = E2b!Vm(e) BY <2>1 DEF E2b!Vm
      <3>1. CASE d = e BY <3>0, <3>1, <2>2, <2>3, <2>4 DEF E2bOK
      <3>2. CASE d # e /\ E2b!Vm(d) # E2b!Vm(e)
        BY <3>0, <3>2, <1>v, <1>i, <2>3, <2>4 DEF E2bOK
      <3>3. CASE d # e /\ E2b!Vm(d) = E2b!Vm(e)
        <4>1. agent # "none" BY <3>3 DEF E2b!Vm
        <4>2. ~Active(d) BY <4>1, <3>3, <2>1 DEF E2bInv, OneAtATime, Active
        <4>3. run'[d].pc \notin {"main", "wrapper"} BY <4>2, <3>3, <2>3 DEF Active
        <4>4. QED BY <4>3, <3>3, <2>3, <1>i DEF E2bOK
      <3>4. QED BY <3>1, <3>2, <3>3
    <2>8. QED BY <2>5, <2>6, <2>7 DEF E2bInv
  <1>3. ASSUME NEW e \in Validations, E2b!WriteWrapper(e) PROVE E2bInv'
    <2> DEFINE r == [run[e] EXCEPT !.pc = "wrapper"]
    <2>1. run[e].pc = "main" /\ E2b!Set(e, r) /\ UNCHANGED <<vm, agent>>
      BY <1>3 DEF E2b!WriteWrapper
    <2>2. /\ r \in RunType /\ r.pc = "wrapper" /\ r.status = "none" /\ r.egress = {}
          /\ r.code = "none"
      BY <1>i, <2>1 DEF RunType, E2bOK
    <2>3. Active(e) BY <2>1 DEF Active
    <2> HIDE DEF r
    <2>4. QED BY <2>1, <2>2, <2>3, RunChanges
  <1>4. ASSUME NEW e \in Validations, E2b!RunCommand(e) PROVE E2bInv'
    <2> DEFINE r == [run[e] EXCEPT !.pc = "command", !.code = "up", !.source = vm[E2b!Vm(e)].main]
    <2>1. /\ run[e].pc = "wrapper" /\ E2b!Set(e, r) /\ UNCHANGED <<vm, agent>>
          /\ vm[E2b!Vm(e)].state = "up"
      BY <1>4 DEF E2b!RunCommand, E2b!UpVm
    <2>2. vm[E2b!Vm(e)].main = e BY <1>i, <2>1 DEF E2bOK
    <2>3. /\ r \in RunType /\ r.pc = "command" /\ r.status = "none" /\ r.egress = {}
          /\ r.source = e
      <3>1. r = [run[e] EXCEPT !.pc = "command", !.code = "up", !.source = e] BY <2>2
      <3>2. /\ run[e].status = "none" /\ run[e].egress = {}
            /\ e \in E2b!Vms
        BY <1>i, <1>v, <2>1 DEF E2bOK
      <3> HIDE DEF r
      <3>3. QED BY <1>i, <3>1, <3>2 DEF RunType
    <2>4. Active(e) BY <2>1 DEF Active
    <2> HIDE DEF r
    <2>5. QED BY <2>1, <2>3, <2>4, RunChanges
  <1>5. ASSUME NEW e \in Validations, E2b!CommandReturns(e) \/ E2b!Catch(e) PROVE E2bInv'
    <2>1. /\ run[e].pc \in {"vm", "main", "wrapper", "command"} /\ UNCHANGED <<vm, agent>>
          /\ \E s \in {"succeeded", "failed", "timeout"}, g \in {run[e].egress, E2b!extractWrapperOutput(e)} :
                E2b!Set(e, [run[e] EXCEPT !.pc = "finally", !.egress = g, !.status = s])
      <3>1. CASE E2b!CommandReturns(e)
        BY <3>1 DEF E2b!CommandReturns
      <3>2. CASE E2b!Catch(e)
        <4>1. PICK s \in {"timeout", "failed"} :
                E2b!Set(e, [run[e] EXCEPT !.pc = "finally", !.status = s])
          BY <3>2 DEF E2b!Catch
        <4>2. [run[e] EXCEPT !.pc = "finally", !.status = s] =
              [run[e] EXCEPT !.pc = "finally", !.egress = run[e].egress, !.status = s]
          BY <1>i DEF RunType
        <4>3. QED BY <3>2, <4>1, <4>2 DEF E2b!Catch, E2b!InTry
      <3>3. QED BY <1>5, <3>1, <3>2
    <2>2. PICK s \in {"succeeded", "failed", "timeout"}, g \in {run[e].egress, E2b!extractWrapperOutput(e)} :
            E2b!Set(e, [run[e] EXCEPT !.pc = "finally", !.egress = g, !.status = s])
      BY <2>1
    <2>o. E2b!extractWrapperOutput(e) \subseteq Fetches BY <1>i, HeadIsFetches
    <2> DEFINE r == [run[e] EXCEPT !.pc = "finally", !.egress = g, !.status = s]
    <2>3. /\ r \in RunType /\ r.pc = "finally" /\ r.source = run[e].source
          /\ r.code = run[e].code
      BY <1>i, <2>o DEF RunType
    <2>4. Active(e) BY <2>1 DEF Active
    <2>5. E2b!Set(e, r) BY <2>2
    <2> HIDE DEF r
    <2>6. QED BY <1>i, <2>1, <2>3, <2>4, <2>5, RunChanges DEF E2bOK
  <1>6. ASSUME NEW e \in Validations, E2b!CodeStep(e) PROVE E2bInv'
    <2>1. /\ run[e].code = "up" /\ UNCHANGED <<vm, agent>>
          /\ \E r \in RunType :
                /\ E2b!Set(e, r) /\ r.pc = run[e].pc /\ r.status = run[e].status
                /\ r.egress = run[e].egress /\ r.source = run[e].source
      BY <1>6, <1>i, CodeChanges
    <2>2. run[e].pc \notin {"idle", "vm", "main", "wrapper"}
      BY <1>i, <2>1, NoRunIs DEF E2bOK
    <2>3. QED BY <1>i, <2>1, <2>2, RunChanges DEF E2bOK, Active
  <1>k. \A v : /\ E2b!WithoutVm(v) \in [Validations -> RunType]
               /\ \A d \in Validations : Killed(d, E2b!WithoutVm(v)[d])
    BY WithoutVmIs DEF Killed, E2bInv
  <1>7. ASSUME NEW e \in Validations, E2b!Finally(e) PROVE E2bInv'
    <2>1. run[e].pc = "finally" /\ UNCHANGED agent BY <1>7 DEF E2b!Finally
    <2>2. ASSUME NEW w \in [Validations -> RunType], \A d \in Validations : Killed(d, w[d]),
                 run' = [w EXCEPT ![e].pc = "done"]
          PROVE  /\ run' \in [Validations -> RunType]
                 /\ \A d \in Validations : Killed(d, run'[d]) \/
                    (run[d].pc = "finally" /\ \E r : Killed(d, r) /\ run'[d] = [r EXCEPT !.pc = "done"])
      <3>1. /\ run'[e] = [w[e] EXCEPT !.pc = "done"]
            /\ \A d \in Validations : d # e => run'[d] = w[d]
        BY <2>2
      <3>2. [w[e] EXCEPT !.pc = "done"] \in RunType BY <2>2 DEF RunType
      <3>3. run' \in [Validations -> RunType] BY <2>2, <3>2
      <3>4. QED BY <2>1, <2>2, <3>1, <3>3
    <2>3. CASE agent = "none" /\ vm' = [vm EXCEPT ![e] = E2b!Gone]
                /\ run' = [E2b!WithoutVm(e) EXCEPT ![e].pc = "done"]
      <3>1. vm' \in [E2b!Vms -> VmType] /\ \A v \in E2b!Vms : vm'[v] = vm[v] \/ vm'[v].state # "up"
        BY <1>t, <1>v, <1>g, <2>3
      <3>2. QED BY <1>v, <1>k, <2>1, <2>2, <2>3, <3>1, VmsChange
    <2>r. ASSUME E2b!Set(e, [run[e] EXCEPT !.pc = "done"])
          PROVE  /\ run' \in [Validations -> RunType]
                 /\ \A d \in Validations : Killed(d, run'[d]) \/
                    (run[d].pc = "finally" /\ \E r : Killed(d, r) /\ run'[d] = [r EXCEPT !.pc = "done"])
      BY <1>t, <2>r, <2>2 DEF E2b!Set, Killed
    <2>4. CASE agent # "none" /\ vm' = [vm EXCEPT ![E2b!Shared].main = E2b!Nobody]
                /\ E2b!Set(e, [run[e] EXCEPT !.pc = "done"])
      <3>1. vm' \in [E2b!Vms -> VmType] BY <1>t, <1>v, <2>4 DEF VmType
      <3>2. \A d \in Validations : run[d].pc \notin {"main", "wrapper"}
        BY <2>1, <2>4 DEF E2bInv, OneAtATime, Active
      <3>3. QED BY <2>1, <2>4, <2>r, <3>1, <3>2, VmsChange
    <2>5. CASE UNCHANGED vm /\ E2b!Set(e, [run[e] EXCEPT !.pc = "done"])
      BY <1>t, <2>1, <2>5, <2>r, VmsChange
    <2>6. QED BY <1>7, <2>3, <2>4, <2>5 DEF E2b!Finally
  <1>8. ASSUME NEW v \in E2b!Vms, E2b!VmExpires(v) PROVE E2bInv'
    <2>1. vm' = [vm EXCEPT ![v] = E2b!Gone] /\ run' = E2b!WithoutVm(v) /\ UNCHANGED agent
      BY <1>8 DEF E2b!VmExpires
    <2>2. vm' \in [E2b!Vms -> VmType] /\ \A u \in E2b!Vms : vm'[u] = vm[u] \/ vm'[u].state # "up"
      BY <1>t, <1>g, <2>1
    <2>3. QED BY <1>v, <1>k, <2>1, <2>2, VmsChange
  <1>9. CASE E2b!AgentOpens \/ E2b!AgentCloses
    <2>1. agent # "none" /\ agent' \in {"open", "closed"}
      BY <1>9 DEF E2b!AgentOpens, E2b!AgentCloses
    <2>2. CASE E2b!AgentOpens
      <3>1. \A d \in Validations : run[d].pc \notin {"main", "wrapper"}
        BY <2>2 DEF E2b!AgentOpens, E2bInv, OneAtATime, Active
      <3>2. vm' \in [E2b!Vms -> VmType] /\ UNCHANGED run
        BY <1>t, <1>v, <2>2 DEF E2b!AgentOpens, VmType
      <3>3. QED BY <1>t, <2>1, <3>1, <3>2, VmsChange DEF Killed
    <2>3. CASE E2b!AgentCloses
      <3>1. CASE vm' = [vm EXCEPT ![E2b!Shared] = E2b!Gone] /\ run' = E2b!WithoutVm(E2b!Shared)
        <4>1. vm' \in [E2b!Vms -> VmType] /\ \A u \in E2b!Vms : vm'[u] = vm[u] \/ vm'[u].state # "up"
          BY <1>t, <1>g, <3>1
        <4>2. QED BY <1>v, <1>k, <2>1, <3>1, <4>1, VmsChange
      <3>2. CASE UNCHANGED <<vm, run>>
        BY <1>t, <2>1, <3>2, VmsChange DEF Killed
      <3>3. QED BY <2>3, <3>1, <3>2 DEF E2b!AgentCloses
    <2>4. QED BY <1>9, <2>2, <2>3
  <1>10. CASE UNCHANGED E2b!vars
    BY <1>10, <1>t, VmsChange DEF E2b!vars, Killed
  <1>11. QED
    BY <1>1, <1>2, <1>3, <1>4, <1>5, <1>6, <1>7, <1>8, <1>9, <1>10
       DEF E2b!Next, E2b!RunStep
-----------------------------------------------------------------------------
EitherInv == DockerInv /\ E2bInv

LEMMA EitherInvariant == EitherSpec => []EitherInv
  <1>1. EitherInit => EitherInv
    BY DockerInit, E2bInit DEF EitherInit, EitherInv
  <1>2. EitherInv /\ [EitherNext]_all => EitherInv'
    <2> SUFFICES ASSUME EitherInv, [EitherNext]_all PROVE EitherInv' OBVIOUS
    <2>1. [Next]_vars /\ [E2b!Next]_(E2b!vars)
      BY DEF EitherNext, all, E2b!vars
    <2>2. QED BY <2>1, DockerNext, E2bNext DEF EitherInv
  <1>3. QED BY <1>1, <1>2, PTL DEF EitherSpec

(* Every variable of the two executors has its type, and runs that share   *)
(* the VM of the agent do not overlap, whichever executor is chosen.       *)
THEOREM SandboxTypes == EitherSpec => []SandboxesTypeOK
  <1> DEFINE Chosen == provider \in {"docker", "e2b"}
  <1>1. EitherInit => Chosen BY DEF EitherInit, createSandboxExecutor
  <1>2. Chosen /\ [EitherNext]_all => Chosen' BY DEF EitherNext, all
  <1>3. EitherInv /\ Chosen => SandboxesTypeOK
    <2> SUFFICES ASSUME EitherInv, Chosen PROVE SandboxesTypeOK OBVIOUS
    <2>1. TypeOK /\ E2bTyped /\ OneAtATime BY DEF EitherInv, DockerInv, E2bInv
    <2>2. agent # "none" => \A d, e \in Validations :
              d # e => {run[d].pc, run[e].pc} \cap {"idle", "done"} # {}
      BY <2>1 DEF OneAtATime, Active
    <2>3. QED BY <2>1, <2>2 DEF SandboxesTypeOK, E2bTyped, RunType, VmType
  <1>4. QED BY <1>1, <1>2, <1>3, EitherInvariant, PTL DEF EitherSpec

(* A run that is reported succeeded did end by itself, before its timer,   *)
(* with exit code 0: also when wait threw, or the timer and the exit met.  *)
THEOREM SuccessIsClean == EitherSpec => []CleanRunsEnded
  <1>1. EitherInv => CleanRunsEnded BY DEF EitherInv, DockerInv, DockerOK, CleanRunsEnded
  <1>2. QED BY <1>1, EitherInvariant, PTL

(* A run that reports any call, or that is reported succeeded with         *)
(* failClosedOnProxy, reports every call a target has answered through the *)
(* entry the proxy has by then: an answer is recorded at once, and a proxy *)
(* that forgot the execution does not answer for it.                       *)
THEOREM AnswersAreReported == EitherSpec => AnsweredCallsAreReported
  <1> DEFINE Reports ==
        \A e \in Executions :
            /\ status[e] = "none" /\ status'[e] # "none"
            /\ egress'[e] # {} \/ (failClosed /\ status'[e] = "succeeded")
            => \A c \in Calls : calls[e][c] \in Answered /\ via[e][c] = entry[e]
                                => <<c, "answered">> \in egress'[e]
  <1>1. ASSUME EitherInv, [EitherNext]_all
        PROVE  Reports \/ UNCHANGED vars
    <2> SUFFICES ASSUME NEW e \in Executions, status[e] = "none", status'[e] # "none",
                        egress'[e] # {} \/ (failClosed /\ status'[e] = "succeeded"),
                        NEW c \in Calls, calls[e][c] \in Answered, via[e][c] = entry[e],
                        ~UNCHANGED vars
                 PROVE  <<c, "answered">> \in egress'[e]
      OBVIOUS
    <2>t. TypeOK BY <1>1 DEF EitherInv, DockerInv
    <2>1. Next BY <1>1 DEF EitherNext, all
    <2>2. PICK d \in Executions : FetchLog(d)
      BY <2>1 DEF Next, RunStep, CallStep, Create, Throw, Register, Start, Kill, WaitReturns,
                  WaitThrows, Exit, Request, RegisterAgain, Answer, Relay, UpstreamFails, Expire,
                  Teardown, Sweep, ProxyCrash, ProxyRestart, host, result
    <2>3. PICK reachable \in BOOLEAN :
            /\ egress' = [egress EXCEPT ![d] = IF reachable THEN Listed(d) ELSE {}]
            /\ status' = [status EXCEPT ![d] = Outcome(kill[d] # "none", exit[d], reachable)]
      BY <2>2, <2>t DEF FetchLog, TypeOK
    <2>4. d = e BY <2>t, <2>3 DEF TypeOK
    <2>5. /\ egress'[e] = IF reachable THEN Listed(e) ELSE {}
          /\ status'[e] = Outcome(kill[e] # "none", exit[e], reachable)
      BY <2>t, <2>3, <2>4 DEF TypeOK
    <2>6. reachable BY <2>5 DEF Outcome
    <2>7. <<c, "answered">> \in log[e] BY <1>1 DEF EitherInv, DockerInv, DockerOK
    <2>8. <<c, "answered">> \in Listed(e) BY <2>7 DEF Listed
    <2>9. QED BY <2>5, <2>6, <2>8
  <1>2. QED BY <1>1, EitherInvariant, PTL DEF EitherSpec, AnsweredCallsAreReported
-----------------------------------------------------------------------------
(* Both executors through the eyes of the contract.                        *)
Told == (Calls \X Verdicts) \cup Fetches

EndedOf(r)    == IF r[1] = "docker" THEN DockerEnded(r[2]) ELSE E2bEnded(r[2])
ToldOf(r)     == IF r[1] = "docker" THEN log[r[2]] ELSE E2bTold(r[2])
OutcomeOf(r)  == IF r[1] = "docker"
                 THEN IF pc[r[2]] = "threw" THEN "threw" ELSE status[r[2]]
                 ELSE IF run[r[2]].pc = "threw" THEN "threw" ELSE run[r[2]].status
ReportedOf(r) == IF r[1] = "docker" THEN egress[r[2]] ELSE run[r[2]].egress

SameEnded    == \A r \in Runs : EndedOf(r)' = EndedOf(r)
SameTold     == \A r \in Runs : ToldOf(r)' = ToldOf(r)
SameOutcome  == \A r \in Runs : OutcomeOf(r)' = OutcomeOf(r)
SameReported == \A r \in Runs : ReportedOf(r)' = ReportedOf(r)

LEMMA RunsAre ==
    /\ \A r \in Runs : \/ r[1] = "docker" /\ r[2] \in Executions /\ r = <<"docker", r[2]>>
                       \/ r[1] = "e2b" /\ r[2] \in Validations /\ r = <<"e2b", r[2]>>
    /\ \A e \in Executions : <<"docker", e>> \in Runs
    /\ \A e \in Validations : <<"e2b", e>> \in Runs
  BY DEF Runs

LEMMA Stutters ==
  ASSUME SameEnded, SameTold, SameOutcome, SameReported
  PROVE  UNCHANGED Contract!vars
  BY DEF SameEnded, SameTold, SameOutcome, SameReported, Contract!vars,
         EndedOf, ToldOf, OutcomeOf, ReportedOf

(* The codes of runs call, print or end.                                   *)
LEMMA GoesOn ==
  ASSUME SameOutcome, SameReported,
         \A r \in Runs : /\ EndedOf(r)' \in {"no", "well", "badly"}
                         /\ EndedOf(r) # "no" => EndedOf(r)' = EndedOf(r)
                         /\ ToldOf(r)' \subseteq Told
                         /\ ToldOf(r) \subseteq ToldOf(r)'
  PROVE  Contract!GoOn
  BY DEF SameOutcome, SameReported, Contract!GoOn, Told,
         EndedOf, ToldOf, OutcomeOf, ReportedOf

LEMMA ReportsIt ==
  ASSUME SameEnded, SameTold, NEW q \in Runs,
         \A r \in Runs : r # q => OutcomeOf(r)' = OutcomeOf(r) /\ ReportedOf(r)' = ReportedOf(r),
         OutcomeOf(q) = "none",
         OutcomeOf(q)' \in {"succeeded", "failed", "timeout", "threw"},
         OutcomeOf(q)' = "succeeded" => EndedOf(q) = "well",
         ReportedOf(q)' \subseteq ToldOf(q)
  PROVE  Contract!Report(q)
  <1> DEFINE outcome  == [r \in Runs |-> OutcomeOf(r)]
             reported == [r \in Runs |-> ReportedOf(r)]
             o  == OutcomeOf(q)'
             xs == ReportedOf(q)'
  <1>1. outcome' = [outcome EXCEPT ![q] = o] OBVIOUS
  <1>2. reported' = [reported EXCEPT ![q] = xs] OBVIOUS
  <1>3. outcome[q] = "none" OBVIOUS
  <1>4. /\ [r \in Runs |-> EndedOf(r)]' = [r \in Runs |-> EndedOf(r)]
        /\ [r \in Runs |-> ToldOf(r)]' = [r \in Runs |-> ToldOf(r)]
    BY DEF SameEnded, SameTold
  <1>5. [r \in Runs |-> EndedOf(r)][q] = EndedOf(q) /\ [r \in Runs |-> ToldOf(r)][q] = ToldOf(q)
    OBVIOUS
  <1>6. /\ \E s \in {"succeeded", "failed", "timeout", "threw"} :
            /\ s = "succeeded" => [r \in Runs |-> EndedOf(r)][q] = "well"
            /\ outcome' = [outcome EXCEPT ![q] = s]
        /\ \E ys \in SUBSET [r \in Runs |-> ToldOf(r)][q] : reported' = [reported EXCEPT ![q] = ys]
    <2>1. xs \in SUBSET [r \in Runs |-> ToldOf(r)][q] BY <1>5
    <2> HIDE DEF outcome, reported, o, xs
    <2>2. o \in {"succeeded", "failed", "timeout", "threw"} /\ (o = "succeeded" => EndedOf(q) = "well")
      BY DEF o
    <2>3. QED BY <1>1, <1>2, <1>5, <2>1, <2>2
  <1>7. QED
    BY <1>3, <1>4, <1>6 DEF Contract!Report, EndedOf, ToldOf, OutcomeOf, ReportedOf

(* What was printed are calls.                                             *)
LEMMA ToldIsTyped ==
  ASSUME EitherInv, NEW r \in Runs, r[1] # "docker"
  PROVE  ToldOf(r) \subseteq Told
  <1>1. r[2] \in Validations BY RunsAre
  <1>2. run[r[2]].stdout \in Seq(SUBSET Fetches)
    BY <1>1 DEF EitherInv, E2bInv, E2bTyped, RunType
  <1>3. \A i \in DOMAIN run[r[2]].stdout : run[r[2]].stdout[i] \subseteq Fetches BY <1>2
  <1>4. QED BY <1>3 DEF ToldOf, E2bTold, Told

(* A step of the Docker executor leaves the runs of the other alone.       *)
LEMMA DockerStepKeeps ==
  ASSUME UNCHANGED <<run, vm, agent>>, NEW r \in Runs, r[1] # "docker"
  PROVE  /\ EndedOf(r)' = EndedOf(r) /\ ToldOf(r)' = ToldOf(r)
         /\ OutcomeOf(r)' = OutcomeOf(r) /\ ReportedOf(r)' = ReportedOf(r)
  BY DEF EndedOf, ToldOf, OutcomeOf, ReportedOf, E2bEnded, E2bTold

LEMMA DockerSimulates ==
  ASSUME EitherInv, EitherInv', Next, UNCHANGED <<run, vm, agent>>
  PROVE  [Contract!Next]_(Contract!vars)
  <1>t. TypeOK /\ \A e \in Executions : DockerOK(e) BY DEF EitherInv, DockerInv
  <1>k. \A r \in Runs : r[1] # "docker" =>
            /\ EndedOf(r)' = EndedOf(r) /\ ToldOf(r)' = ToldOf(r)
            /\ OutcomeOf(r)' = OutcomeOf(r) /\ ReportedOf(r)' = ReportedOf(r)
    BY DockerStepKeeps
  <1>e. ASSUME UNCHANGED container PROVE SameEnded
    BY <1>k, <1>e DEF SameEnded, EndedOf, DockerEnded
  <1>m. ASSUME UNCHANGED log PROVE SameTold
    BY <1>k, <1>m DEF SameTold, ToldOf
  <1>o. ASSUME UNCHANGED <<pc, status>> PROVE SameOutcome
    BY <1>k, <1>o DEF SameOutcome, OutcomeOf
  <1>p. ASSUME UNCHANGED egress PROVE SameReported
    BY <1>k, <1>p DEF SameReported, ReportedOf
  <1>1. ASSUME NEW e \in Executions, Create(e) \/ Register(e) \/ Start(e)
                                     \/ WaitReturns(e) \/ WaitThrows(e)
        PROVE  UNCHANGED Contract!vars
    <2>1. /\ UNCHANGED <<status, egress, log>>
          /\ \E step \in {"created", "registered", "waiting", "exited"} : pc' = [pc EXCEPT ![e] = step]
          /\ pc[e] # "threw"
          /\ \/ UNCHANGED container
             \/ /\ container[e] \in {"none", "created"}
                /\ \E c \in {"created", "up"} : container' = [container EXCEPT ![e] = c]
      BY <1>1, <1>t
         DEF Create, Register, Start, WaitReturns, WaitThrows, Goto, proxy, result, DockerOK
    <2>2. SameEnded
      <3>1. CASE UNCHANGED container BY <3>1, <1>e
      <3>2. CASE container[e] \in {"none", "created"} /\
                    \E c \in {"created", "up"} : container' = [container EXCEPT ![e] = c]
        <4>1. container \in [Executions -> {"none", "created", "up"} \cup Dead] BY <1>t DEF TypeOK
        <4>2. \A d \in Executions : DockerEnded(d)' = DockerEnded(d)
          BY <3>2, <4>1 DEF DockerEnded
        <4>3. QED BY <1>k, <4>2, RunsAre DEF SameEnded, EndedOf
      <3>3. QED BY <2>1, <3>1, <3>2
    <2>3. SameOutcome
      <3>1. \A d \in Executions : (pc'[d] = "threw") <=> (pc[d] = "threw") BY <1>t, <2>1 DEF TypeOK
      <3>2. QED BY <1>k, <2>1, <3>1, RunsAre DEF SameOutcome, OutcomeOf
    <2>4. QED BY <1>m, <1>p, <2>1, <2>2, <2>3, Stutters
  <1>2. ASSUME NEW e \in Executions, Throw(e)
        PROVE  Contract!Report(<<"docker", e>>)
    <2> DEFINE q == <<"docker", e>>
    <2>1. /\ pc' = [pc EXCEPT ![e] = "threw"] /\ UNCHANGED <<status, egress, log, container>>
          /\ pc[e] \in {"idle", "created", "registered"}
      BY <1>2 DEF Throw, Goto, proxy, result
    <2>2. q \in Runs /\ q[1] = "docker" /\ q[2] = e BY RunsAre
    <2>3. \A r \in Runs : r # q => OutcomeOf(r)' = OutcomeOf(r) /\ ReportedOf(r)' = ReportedOf(r)
      <3> SUFFICES ASSUME NEW r \in Runs, r # q, r[1] = "docker"
                   PROVE  OutcomeOf(r)' = OutcomeOf(r) /\ ReportedOf(r)' = ReportedOf(r)
        BY <1>k
      <3>1. r[2] \in Executions /\ r[2] # e BY RunsAre
      <3>2. pc'[r[2]] = pc[r[2]] BY <1>t, <2>1, <3>1 DEF TypeOK
      <3>3. QED BY <2>1, <3>2 DEF OutcomeOf, ReportedOf
    <2>4. OutcomeOf(q) = "none" /\ ReportedOf(q) = {}
      BY <1>t, <2>1, <2>2 DEF OutcomeOf, ReportedOf, DockerOK
    <2>5. pc'[e] = "threw" BY <1>t, <2>1 DEF TypeOK
    <2>6. OutcomeOf(q)' = "threw" BY <2>2, <2>5 DEF OutcomeOf
    <2>7. ReportedOf(q)' = {} BY <2>1, <2>4 DEF ReportedOf
    <2> HIDE DEF q
    <2>8. QED BY <1>e, <1>m, <2>1, <2>2, <2>3, <2>4, <2>6, <2>7, ReportsIt DEF q
  <1>3. ASSUME NEW e \in Executions, FetchLog(e)
        PROVE  Contract!Report(<<"docker", e>>)
    <2> DEFINE q == <<"docker", e>>
    <2>1. PICK reachable \in BOOLEAN :
            /\ egress' = [egress EXCEPT ![e] = IF reachable THEN Listed(e) ELSE {}]
            /\ status' = [status EXCEPT ![e] = Outcome(kill[e] # "none", exit[e], reachable)]
      BY <1>3, <1>t DEF FetchLog, TypeOK
    <2>2. /\ pc[e] = "exited" /\ pc' = [pc EXCEPT ![e] = "done"] /\ UNCHANGED <<log, container>>
      BY <1>3 DEF FetchLog, Goto
    <2>3. q \in Runs /\ q[1] = "docker" /\ q[2] = e BY RunsAre
    <2>4. \A d \in Executions : d # e =>
            pc'[d] = pc[d] /\ status'[d] = status[d] /\ egress'[d] = egress[d]
      BY <1>t, <2>1, <2>2 DEF TypeOK
    <2>5. \A r \in Runs : r # q => OutcomeOf(r)' = OutcomeOf(r) /\ ReportedOf(r)' = ReportedOf(r)
      <3> SUFFICES ASSUME NEW r \in Runs, r # q, r[1] = "docker"
                   PROVE  OutcomeOf(r)' = OutcomeOf(r) /\ ReportedOf(r)' = ReportedOf(r)
        BY <1>k
      <3>1. r[2] \in Executions /\ r[2] # e BY RunsAre
      <3>2. QED BY <2>4, <3>1 DEF OutcomeOf, ReportedOf
    <2>6. OutcomeOf(q) = "none" BY <1>t, <2>2, <2>3 DEF OutcomeOf, DockerOK
    <2>7. /\ pc'[e] = "done" /\ status'[e] = Outcome(kill[e] # "none", exit[e], reachable)
          /\ egress'[e] \subseteq log[e]
      BY <1>t, <2>1, <2>2 DEF TypeOK, Listed
    <2>8. /\ OutcomeOf(q)' \in {"succeeded", "failed", "timeout"}
          /\ OutcomeOf(q)' = "succeeded" => exit[e] = "zero"
      BY <2>3, <2>7 DEF OutcomeOf, Outcome
    <2>9. exit[e] = "zero" => EndedOf(q) = "well"
      BY <1>t, <2>3 DEF EndedOf, DockerEnded, DockerOK
    <2>10. ReportedOf(q)' \subseteq ToldOf(q) BY <2>3, <2>7 DEF ReportedOf, ToldOf
    <2> HIDE DEF q
    <2>11. QED BY <1>e, <1>m, <2>2, <2>3, <2>5, <2>6, <2>8, <2>9, <2>10, ReportsIt DEF q
  (* The code of a run ends, or another entry is made in its log. *)
  <1>4. ASSUME NEW e \in Executions, UNCHANGED <<pc, status, egress>>,
               \A d \in Executions : container'[d] = container[d] \/ container[d] = "up",
               \A d \in Executions : log[d] \subseteq log'[d]
        PROVE  Contract!Next
    <2>1. \A d \in Executions : log'[d] \subseteq Told
      BY DEF EitherInv, DockerInv, TypeOK, Told
    <2>2. ASSUME NEW r \in Runs
          PROVE  /\ EndedOf(r)' \in {"no", "well", "badly"}
                 /\ EndedOf(r) # "no" => EndedOf(r)' = EndedOf(r)
                 /\ ToldOf(r)' \subseteq Told
                 /\ ToldOf(r) \subseteq ToldOf(r)'
      <3>1. CASE r[1] = "docker"
        <4>1. r[2] \in Executions BY <3>1, RunsAre
        <4>2. QED BY <1>4, <2>1, <3>1, <4>1 DEF EndedOf, DockerEnded, ToldOf
      <3>2. CASE r[1] # "docker"
        <4>1. ToldOf(r) \subseteq Told BY <3>2, ToldIsTyped
        <4>2. QED BY <1>k, <3>2, <4>1 DEF EndedOf, E2bEnded
      <3>3. QED BY <3>1, <3>2
    <2>3. QED BY <1>o, <1>p, <1>4, <2>2, GoesOn DEF Contract!Next
  <1>5. ASSUME NEW e \in Executions, Kill(e) \/ Exit(e)
        PROVE  Contract!Next
    <2>1. /\ UNCHANGED <<pc, status, egress, log>>
          /\ \/ UNCHANGED container
             \/ /\ container[e] = "up"
                /\ \E c \in {"zero", "nonzero", "killed"} : container' = [container EXCEPT ![e] = c]
      BY <1>5 DEF Kill, Exit, host, result, proxy
    <2>2. \A d \in Executions : container'[d] = container[d] \/ container[d] = "up"
      BY <1>t, <2>1 DEF TypeOK
    <2>3. QED BY <1>4, <2>1, <2>2
  <1>6. ASSUME NEW e \in Executions, NEW c \in Calls, CallStep(e, c)
        PROVE  Contract!Next
    <2>1. UNCHANGED <<pc, status, egress, container>>
      BY <1>6 DEF CallStep, Request, Answer, Relay, UpstreamFails, host, result
    <2>2. UNCHANGED log \/ \E v \in Verdicts : log' = [log EXCEPT ![e] = @ \cup {<<c, v>>}]
      BY <1>6 DEF CallStep, Request, Answer, Relay, UpstreamFails, Push, Verdicts
    <2>3. ASSUME NEW v \in Verdicts, log' = [log EXCEPT ![e] = @ \cup {<<c, v>>}]
          PROVE  \A d \in Executions : log[d] \subseteq log'[d]
      BY <1>t, <2>3 DEF TypeOK
    <2>4. \A d \in Executions : log[d] \subseteq log'[d] BY <2>2, <2>3
    <2>5. QED BY <1>4, <2>1, <2>4
  <1>7. ASSUME \/ Sweep \/ ProxyCrash \/ ProxyRestart
               \/ \E e \in Executions : Expire(e) \/ Teardown(e) \/ RegisterAgain(e)
        PROVE  UNCHANGED Contract!vars
    <2>1. UNCHANGED <<pc, status, egress, container, log>>
      BY <1>7 DEF Sweep, ProxyCrash, ProxyRestart, Expire, Teardown, RegisterAgain, host, result
    <2>2. QED BY <1>e, <1>m, <1>o, <1>p, <2>1, Stutters
  <1>8. ASSUME NEW e \in Executions, Throw(e) \/ FetchLog(e)
        PROVE  Contract!Next
    BY <1>2, <1>3, <1>8, RunsAre DEF Contract!Next
  <1>9. ASSUME NEW e \in Executions, RunStep(e)
        PROVE  Contract!Next \/ UNCHANGED Contract!vars
    BY <1>1, <1>5, <1>8, <1>9 DEF RunStep
  <1>10. QED BY <1>6, <1>7, <1>9 DEF Next

(* What was printed stays printed.                                         *)
LEMMA Printing ==
  ASSUME NEW s \in Seq(SUBSET Fetches), NEW t,
         t = s \/ \E cs \in SUBSET Fetches : t = Append(s, cs)
  PROVE  /\ UNION {s[i] : i \in DOMAIN s} \subseteq UNION {t[i] : i \in DOMAIN t}
         /\ UNION {t[i] : i \in DOMAIN t} \subseteq Fetches
  <1>1. t \in Seq(SUBSET Fetches) OBVIOUS
  <1>2. DOMAIN s \subseteq DOMAIN t /\ \A i \in DOMAIN s : t[i] = s[i] OBVIOUS
  <1>3. \A i \in DOMAIN t : t[i] \subseteq Fetches BY <1>1
  <1>4. QED BY <1>2, <1>3

(* A step of the E2B executor leaves the runs of the other alone.          *)
LEMMA E2bStepKeeps ==
  ASSUME UNCHANGED vars, NEW r \in Runs, r[1] = "docker"
  PROVE  /\ EndedOf(r)' = EndedOf(r) /\ ToldOf(r)' = ToldOf(r)
         /\ OutcomeOf(r)' = OutcomeOf(r) /\ ReportedOf(r)' = ReportedOf(r)
  BY DEF EndedOf, ToldOf, OutcomeOf, ReportedOf, DockerEnded, vars, host, result, proxy

LEMMA E2bSimulates ==
  ASSUME EitherInv, EitherInv', E2b!Next, UNCHANGED vars
  PROVE  [Contract!Next]_(Contract!vars)
  <1>t. /\ run \in [Validations -> RunType]
        /\ \A e \in Validations : run[e] \in RunType /\ E2bOK(e)
    BY DEF EitherInv, E2bInv, E2bTyped
  <1>k. \A r \in Runs : r[1] = "docker" =>
            /\ EndedOf(r)' = EndedOf(r) /\ ToldOf(r)' = ToldOf(r)
            /\ OutcomeOf(r)' = OutcomeOf(r) /\ ReportedOf(r)' = ReportedOf(r)
    BY E2bStepKeeps
  <1>e. ASSUME NEW r \in Runs, r[1] # "docker",
               run'[r[2]].code = run[r[2]].code, run'[r[2]].source = run[r[2]].source
        PROVE  EndedOf(r)' = EndedOf(r)
    BY <1>e DEF EndedOf, E2bEnded
  <1>m. ASSUME NEW r \in Runs, r[1] # "docker", run'[r[2]].stdout = run[r[2]].stdout
        PROVE  ToldOf(r)' = ToldOf(r)
    BY <1>m DEF ToldOf, E2bTold
  <1>o. ASSUME NEW r \in Runs, r[1] # "docker", run'[r[2]].status = run[r[2]].status,
               (run'[r[2]].pc = "threw") <=> (run[r[2]].pc = "threw")
        PROVE  OutcomeOf(r)' = OutcomeOf(r)
    BY <1>o DEF OutcomeOf
  <1>p. ASSUME NEW r \in Runs, r[1] # "docker", run'[r[2]].egress = run[r[2]].egress
        PROVE  ReportedOf(r)' = ReportedOf(r)
    BY <1>p DEF ReportedOf
  <1>q. \A r \in Runs : r[1] # "docker" => r[2] \in Validations /\ r = <<"e2b", r[2]>>
    BY RunsAre
  <1>s. ASSUME NEW e \in Validations, NEW w, run' = [run EXCEPT ![e] = w]
        PROVE  run'[e] = w /\ \A d \in Validations : d # e => run'[d] = run[d]
    BY <1>t, <1>s
  (* Nothing the contract speaks of changes. *)
  <1>1. ASSUME \A d \in Validations :
                 /\ run'[d].status = run[d].status /\ run'[d].egress = run[d].egress
                 /\ run'[d].stdout = run[d].stdout
                 /\ (run'[d].pc = "threw") <=> (run[d].pc = "threw")
        PROVE  SameTold /\ SameOutcome /\ SameReported
    BY <1>1, <1>k, <1>m, <1>o, <1>p, <1>q DEF SameTold, SameOutcome, SameReported
  <1>2. ASSUME \A d \in Validations :
                 run'[d].code = run[d].code /\ run'[d].source = run[d].source
        PROVE  SameEnded
    BY <1>2, <1>k, <1>e, <1>q DEF SameEnded
  (* Processes print or end. *)
  <1>3. ASSUME \A d \in Validations :
                 /\ run'[d].status = run[d].status /\ run'[d].egress = run[d].egress
                 /\ run'[d].source = run[d].source
                 /\ (run'[d].pc = "threw") <=> (run[d].pc = "threw")
                 /\ run'[d].code = run[d].code \/ run[d].code = "up"
                 /\ \/ run'[d].stdout = run[d].stdout
                    \/ \E cs \in SUBSET Fetches : run'[d].stdout = Append(run[d].stdout, cs)
        PROVE  Contract!Next
    <2>1. ASSUME NEW r \in Runs
          PROVE  /\ EndedOf(r)' \in {"no", "well", "badly"}
                 /\ EndedOf(r) # "no" => EndedOf(r)' = EndedOf(r)
                 /\ ToldOf(r)' \subseteq Told
                 /\ ToldOf(r) \subseteq ToldOf(r)'
      <3>1. CASE r[1] = "docker"
        <4>1. r[2] \in Executions BY <3>1, RunsAre
        <4>2. ToldOf(r) \subseteq Told
          BY <3>1, <4>1 DEF EitherInv, DockerInv, TypeOK, ToldOf, Told
        <4>3. QED BY <1>k, <3>1, <4>2 DEF EndedOf, DockerEnded
      <3>2. CASE r[1] # "docker"
        <4>1. r[2] \in Validations BY <1>q, <3>2
        <4>2. run[r[2]].stdout \in Seq(SUBSET Fetches) BY <1>t, <4>1 DEF RunType
        <4> DEFINE out  == run[r[2]].stdout
                   more == run'[r[2]].stdout
        <4>3. E2bTold(r[2]) \subseteq E2bTold(r[2])' /\ E2bTold(r[2])' \subseteq Fetches
          <5>1. more = out \/ \E cs \in SUBSET Fetches : more = Append(out, cs) BY <1>3, <4>1
          <5>2. E2bTold(r[2]) = UNION {out[i] : i \in DOMAIN out} BY DEF E2bTold
          <5>3. E2bTold(r[2])' = UNION {more[i] : i \in DOMAIN more} BY DEF E2bTold
          <5> HIDE DEF out, more
          <5>4. out \in Seq(SUBSET Fetches) BY <4>2 DEF out
          <5>5. QED BY <5>1, <5>2, <5>3, <5>4, Printing
        <4>4. ToldOf(r)' \subseteq Told /\ ToldOf(r) \subseteq ToldOf(r)'
          BY <3>2, <4>3 DEF ToldOf, Told
        <4>5. QED BY <1>3, <3>2, <4>1, <4>4 DEF EndedOf, E2bEnded
      <3>3. QED BY <3>1, <3>2
    <2>2. SameOutcome
      BY <1>3, <1>k, <1>o, <1>q DEF SameOutcome
    <2>3. SameReported
      BY <1>3, <1>k, <1>p, <1>q DEF SameReported
    <2>4. QED BY <2>1, <2>2, <2>3, GoesOn DEF Contract!Next
  (* One run reports. *)
  <1>4. ASSUME NEW e \in Validations, NEW w \in RunType, run' = [run EXCEPT ![e] = w],
               w.code = run[e].code, w.source = run[e].source, w.stdout = run[e].stdout,
               run[e].status = "none", run[e].pc # "threw",
               \/ w.pc = "threw"
               \/ w.pc # "threw" /\ w.status \in {"succeeded", "failed", "timeout"},
               w.pc # "threw" /\ w.status = "succeeded" => run[e].code = "zero",
               w.egress \subseteq E2bTold(e)
        PROVE  Contract!Next
    <2> DEFINE q == <<"e2b", e>>
    <2>1. q \in Runs /\ q[1] # "docker" /\ q[2] = e BY RunsAre
    <2>2. run'[e] = w /\ \A d \in Validations : d # e => run'[d] = run[d]
      BY <1>t, <1>4
    <2>3. \A r \in Runs : r # q => OutcomeOf(r)' = OutcomeOf(r) /\ ReportedOf(r)' = ReportedOf(r)
      <3> SUFFICES ASSUME NEW r \in Runs, r # q, r[1] # "docker"
                   PROVE  OutcomeOf(r)' = OutcomeOf(r) /\ ReportedOf(r)' = ReportedOf(r)
        BY <1>k
      <3>1. run'[r[2]] = run[r[2]] BY <1>q, <2>2
      <3>2. QED BY <1>o, <1>p, <3>1
    <2>4. SameEnded BY <1>2, <1>4, <2>2
    <2>5. SameTold
      <3>1. \A d \in Validations : run'[d].stdout = run[d].stdout BY <1>4, <2>2
      <3>2. QED BY <1>k, <1>m, <1>q, <3>1 DEF SameTold
    <2>6. OutcomeOf(q) = "none" BY <1>4, <2>1 DEF OutcomeOf
    <2>7. /\ OutcomeOf(q)' \in {"succeeded", "failed", "timeout", "threw"}
          /\ OutcomeOf(q)' = "succeeded" => run[e].code = "zero"
      BY <1>4, <2>1, <2>2 DEF OutcomeOf
    <2>8. run[e].code = "zero" => EndedOf(q) = "well"
      BY <1>t, <2>1 DEF EndedOf, E2bEnded, E2bOK
    <2>9. ReportedOf(q)' \subseteq ToldOf(q) BY <1>4, <2>1, <2>2 DEF ReportedOf, ToldOf
    <2> HIDE DEF q
    <2>10. QED
      BY <2>1, <2>3, <2>4, <2>5, <2>6, <2>7, <2>8, <2>9, ReportsIt DEF Contract!Next
  <1>5. ASSUME NEW e \in Validations, E2b!Begin(e)
        PROVE  Contract!Next \/ UNCHANGED Contract!vars
    <2>1. run[e] = E2b!NoRun BY <1>t, <1>5 DEF E2b!Begin, E2bOK
    <2>2. CASE run' = [run EXCEPT ![e] = [E2b!NoRun EXCEPT !.pc = "vm"]]
      <3>1. \A d \in Validations :
              /\ run'[d].status = run[d].status /\ run'[d].egress = run[d].egress
              /\ run'[d].stdout = run[d].stdout /\ run'[d].code = run[d].code
              /\ run'[d].source = run[d].source
              /\ (run'[d].pc = "threw") <=> (run[d].pc = "threw")
        <4> DEFINE w == [E2b!NoRun EXCEPT !.pc = "vm"]
        <4>1. /\ w.pc = "vm" /\ w.status = run[e].status /\ w.egress = run[e].egress
              /\ w.stdout = run[e].stdout /\ w.code = run[e].code /\ w.source = run[e].source
              /\ run[e].pc = "idle"
          BY <2>1, NoRunIs DEF RunType
        <4>2. run' = [run EXCEPT ![e] = w] BY <2>2
        <4> HIDE DEF w
        <4>3. run'[e] = w /\ \A d \in Validations : d # e => run'[d] = run[d] BY <1>s, <4>2
        <4>4. QED BY <4>1, <4>3
      <3>2. QED BY <1>1, <1>2, <3>1, Stutters
    <2>3. CASE run' = [run EXCEPT ![e] = [E2b!NoRun EXCEPT !.pc = "threw"]]
      <3> DEFINE w == [E2b!NoRun EXCEPT !.pc = "threw"]
      <3>1. /\ w \in RunType /\ w.pc = "threw" /\ w.code = run[e].code
            /\ w.source = run[e].source /\ w.stdout = run[e].stdout /\ w.egress = {}
            /\ run[e].status = "none" /\ run[e].pc # "threw"
        BY <2>1, NoRunIs DEF RunType
      <3> HIDE DEF w
      <3>2. QED BY <1>4, <2>3, <3>1 DEF w
    <2>4. QED BY <1>5, <2>2, <2>3 DEF E2b!Begin, E2b!Set
  <1>u. ASSUME NEW e \in Validations, NEW w, E2b!Set(e, w), run[e].pc \in {"vm", "main", "wrapper"},
               w.status = run[e].status, w.egress = run[e].egress, w.stdout = run[e].stdout,
               w.pc # "threw", (w.code = "none" /\ w.source = run[e].source) \/ w.code = "up"
        PROVE  UNCHANGED Contract!vars
    <2>1. run[e].code = "none" BY <1>t, <1>u DEF E2bOK
    <2>2. run'[e] = w /\ \A d \in Validations : d # e => run'[d] = run[d]
      BY <1>s, <1>u DEF E2b!Set
    <2>3. \A d \in Validations :
            /\ run'[d].status = run[d].status /\ run'[d].egress = run[d].egress
            /\ run'[d].stdout = run[d].stdout
            /\ (run'[d].pc = "threw") <=> (run[d].pc = "threw")
      BY <1>u, <2>2
    <2>4. \A d \in Validations :
            \/ run'[d].code = run[d].code /\ run'[d].source = run[d].source
            \/ run[d].code \in {"none", "up"} /\ run'[d].code \in {"none", "up"}
      BY <1>u, <2>1, <2>2
    <2>5. SameEnded
      <3> SUFFICES ASSUME NEW r \in Runs, r[1] # "docker" PROVE EndedOf(r)' = EndedOf(r)
        BY <1>k DEF SameEnded
      <3>1. r[2] \in Validations BY <1>q
      <3>2. QED BY <2>4, <3>1 DEF EndedOf, E2bEnded
    <2>6. QED BY <1>1, <2>3, <2>5, Stutters
  <1>6. ASSUME NEW e \in Validations, E2b!WriteMain(e) \/ E2b!WriteWrapper(e) \/ E2b!RunCommand(e)
        PROVE  UNCHANGED Contract!vars
    <2>1. ASSUME NEW s \in {"main", "wrapper"}, run[e].pc \in {"vm", "main"},
                 E2b!Set(e, [run[e] EXCEPT !.pc = s])
          PROVE  UNCHANGED Contract!vars
      <3> DEFINE w == [run[e] EXCEPT !.pc = s]
      <3>1. /\ w.status = run[e].status /\ w.egress = run[e].egress /\ w.stdout = run[e].stdout
            /\ w.pc = s /\ w.code = run[e].code /\ w.source = run[e].source
        BY <1>t DEF RunType
      <3>2. run[e].code = "none" BY <1>t, <2>1 DEF E2bOK
      <3>3. E2b!Set(e, w) BY <2>1
      <3> HIDE DEF w
      <3>4. QED BY <1>u, <2>1, <3>1, <3>2, <3>3
    <2>2. CASE E2b!RunCommand(e)
      <3> DEFINE w == [run[e] EXCEPT !.pc = "command", !.code = "up",
                                     !.source = vm[E2b!Vm(e)].main]
      <3>1. /\ w.status = run[e].status /\ w.egress = run[e].egress /\ w.stdout = run[e].stdout
            /\ w.pc = "command" /\ w.code = "up"
        BY <1>t DEF RunType
      <3>2. E2b!Set(e, w) /\ run[e].pc = "wrapper" BY <2>2 DEF E2b!RunCommand
      <3> HIDE DEF w
      <3>3. QED BY <1>u, <3>1, <3>2
    <2>3. CASE E2b!WriteMain(e) BY <2>1, <2>3 DEF E2b!WriteMain
    <2>4. CASE E2b!WriteWrapper(e) BY <2>1, <2>4 DEF E2b!WriteWrapper
    <2>5. QED BY <1>6, <2>2, <2>3, <2>4
  <1>7. ASSUME NEW e \in Validations, E2b!CommandReturns(e) \/ E2b!Catch(e)
        PROVE  Contract!Next
    <2>1. /\ run[e].pc \in {"vm", "main", "wrapper", "command"}
          /\ run[e].status = "none" /\ run[e].egress = {}
      BY <1>t, <1>7 DEF E2b!CommandReturns, E2b!Catch, E2b!InTry, E2bOK
    <2>2. CASE E2b!CommandReturns(e)
      <3> DEFINE s == IF run[e].code = "zero" THEN "succeeded" ELSE "failed"
                 g == E2b!extractWrapperOutput(e)
                 w == [run[e] EXCEPT !.pc = "finally", !.egress = g, !.status = s]
      <3>1. run' = [run EXCEPT ![e] = w]
        BY <2>2 DEF E2b!CommandReturns, E2b!Set
      <3>2. s \in {"succeeded", "failed"} /\ (s = "succeeded" => run[e].code = "zero") OBVIOUS
      <3>3. g \subseteq Fetches /\ g \subseteq E2bTold(e) BY <1>t, HeadIsFetches
      <3> HIDE DEF s, g
      <3>4. /\ w \in RunType /\ w.code = run[e].code /\ w.source = run[e].source
            /\ w.stdout = run[e].stdout /\ w.pc = "finally" /\ w.status = s /\ w.egress = g
        BY <1>t, <3>2, <3>3 DEF RunType
      <3> HIDE DEF w
      <3>5. QED BY <1>4, <2>1, <3>1, <3>2, <3>3, <3>4
    <2>3. CASE E2b!Catch(e)
      <3>1. PICK s \in {"timeout", "failed"} :
              run' = [run EXCEPT ![e] = [run[e] EXCEPT !.pc = "finally", !.status = s]]
        BY <2>3 DEF E2b!Catch, E2b!Set
      <3> DEFINE w == [run[e] EXCEPT !.pc = "finally", !.status = s]
      <3>2. /\ w \in RunType /\ w.code = run[e].code /\ w.source = run[e].source
            /\ w.stdout = run[e].stdout /\ w.pc = "finally" /\ w.status = s /\ w.egress = {}
        BY <1>t, <2>1 DEF RunType
      <3>3. run' = [run EXCEPT ![e] = w] BY <3>1
      <3> HIDE DEF w
      <3>4. QED BY <1>4, <2>1, <3>2, <3>3
    <2>4. QED BY <1>7, <2>2, <2>3
  <1>8. ASSUME NEW e \in Validations, E2b!CodeStep(e)
        PROVE  Contract!Next
    <2>1. run[e].code = "up" BY <1>t, <1>8, CodeChanges
    <2>2. PICK w \in RunType :
            /\ E2b!Set(e, w) /\ w.pc = run[e].pc /\ w.status = run[e].status
            /\ w.egress = run[e].egress /\ w.source = run[e].source
            /\ w.stdout = run[e].stdout \/
                 \E cs \in SUBSET Fetches : w.stdout = Append(run[e].stdout, cs)
      BY <1>t, <1>8, CodeChanges
    <2>3. run'[e] = w /\ \A d \in Validations : d # e => run'[d] = run[d]
      BY <1>s, <2>2 DEF E2b!Set
    <2>4. QED BY <1>3, <2>1, <2>2, <2>3
  <1>w. ASSUME NEW v, NEW d \in Validations
        PROVE  LET r == E2b!WithoutVm(v)[d]
               IN  /\ r \in RunType /\ r.status = run[d].status /\ r.egress = run[d].egress
                   /\ r.stdout = run[d].stdout /\ r.source = run[d].source /\ r.pc = run[d].pc
                   /\ r.code = run[d].code \/ run[d].code = "up"
    <2>1. /\ E2b!WithoutVm(v) \in [Validations -> RunType]
          /\ \/ E2b!WithoutVm(v)[d] = run[d]
             \/ run[d].code = "up" /\ E2b!WithoutVm(v)[d] = E2b!Ended(d, "killed")
      BY WithoutVmIs DEF EitherInv, E2bInv
    <2>2. QED BY <1>t, <2>1 DEF RunType, E2b!Ended
  <1>9. ASSUME NEW e \in Validations, E2b!Finally(e)
        PROVE  Contract!Next
    <2>1. PICK w : /\ run' = [w EXCEPT ![e].pc = "done"]
                   /\ w = run \/ w = E2b!WithoutVm(e)
      <3>1. run' = [run EXCEPT ![e] = [run[e] EXCEPT !.pc = "done"]] =>
                run' = [run EXCEPT ![e].pc = "done"]
        OBVIOUS
      <3>2. QED BY <1>9, <3>1 DEF E2b!Finally, E2b!Set
    <2>2. w \in [Validations -> RunType] BY <1>t, <2>1, WithoutVmIs DEF EitherInv, E2bInv
    <2>3. \A d \in Validations :
            /\ w[d].status = run[d].status /\ w[d].egress = run[d].egress
            /\ w[d].stdout = run[d].stdout /\ w[d].source = run[d].source /\ w[d].pc = run[d].pc
            /\ w[d].code = run[d].code \/ run[d].code = "up"
      BY <1>w, <2>1
    <2>4. \A d \in Validations :
            /\ run'[d].status = w[d].status /\ run'[d].egress = w[d].egress
            /\ run'[d].stdout = w[d].stdout /\ run'[d].source = w[d].source
            /\ run'[d].code = w[d].code
            /\ d # e => run'[d].pc = w[d].pc
            /\ run'[e].pc = "done"
      BY <2>1, <2>2 DEF RunType
    <2>5. run[e].pc = "finally" BY <1>9 DEF E2b!Finally
    <2>6. \A d \in Validations : (run'[d].pc = "threw") <=> (run[d].pc = "threw")
      BY <2>3, <2>4, <2>5
    <2>7. QED BY <1>3, <2>3, <2>4, <2>6
  <1>10. ASSUME NEW v, run' = E2b!WithoutVm(v)
         PROVE  Contract!Next
    <2>1. \A d \in Validations :
            /\ run'[d].status = run[d].status /\ run'[d].egress = run[d].egress
            /\ run'[d].stdout = run[d].stdout /\ run'[d].source = run[d].source
            /\ run'[d].pc = run[d].pc
            /\ run'[d].code = run[d].code \/ run[d].code = "up"
      BY <1>w, <1>10
    <2>2. QED BY <1>3, <2>1
  <1>11. ASSUME UNCHANGED run PROVE UNCHANGED Contract!vars
    BY <1>1, <1>2, <1>11, Stutters
  <1>12. ASSUME \/ \E v \in E2b!Vms : E2b!VmExpires(v)
                \/ E2b!AgentOpens \/ E2b!AgentCloses
         PROVE  Contract!Next \/ UNCHANGED Contract!vars
    BY <1>10, <1>11, <1>12 DEF E2b!VmExpires, E2b!AgentOpens, E2b!AgentCloses
  <1>13. QED
    BY <1>5, <1>6, <1>7, <1>8, <1>9, <1>12 DEF E2b!Next, E2b!RunStep

LEMMA ContractInit == EitherInit => Contract!Init
  <1> SUFFICES ASSUME EitherInit PROVE Contract!Init OBVIOUS
  <1>1. \A r \in Runs : /\ EndedOf(r) = "no" /\ ToldOf(r) = {}
                        /\ OutcomeOf(r) = "none" /\ ReportedOf(r) = {}
    <2> SUFFICES ASSUME NEW r \in Runs
                 PROVE  /\ EndedOf(r) = "no" /\ ToldOf(r) = {}
                        /\ OutcomeOf(r) = "none" /\ ReportedOf(r) = {}
      OBVIOUS
    <2>1. CASE r[1] = "docker"
      <3>1. r[2] \in Executions BY <2>1, RunsAre
      <3>2. QED BY <2>1, <3>1 DEF EitherInit, Init, EndedOf, DockerEnded, ToldOf, OutcomeOf, ReportedOf
    <2>2. CASE r[1] # "docker"
      <3>1. r[2] \in Validations BY <2>2, RunsAre
      <3>2. run[r[2]] = E2b!NoRun BY <3>1 DEF EitherInit, E2b!Init
      <3>3. QED BY <2>2, <3>2, NoRunIs DEF EndedOf, E2bEnded, ToldOf, E2bTold, OutcomeOf, ReportedOf
    <2>3. QED BY <2>1, <2>2
  <1>2. QED
    BY <1>1 DEF Contract!Init, EndedOf, ToldOf, OutcomeOf, ReportedOf

(* Both executors keep the contract of SandboxAPI: no outcome changes, a   *)
(* success tells of the very code that was handed over, and the egress log *)
(* of a result holds only what the proxy has recorded for this run, under  *)
(* whichever entry, or what the process of this run has printed.           *)
THEOREM BothKeepContract == EitherSpec => KeepsContract
  <1>1. EitherInv /\ EitherInv' /\ [EitherNext]_all => [Contract!Next]_(Contract!vars)
    <2> SUFFICES ASSUME EitherInv, EitherInv', [EitherNext]_all
                 PROVE  [Contract!Next]_(Contract!vars)
      OBVIOUS
    <2>1. CASE Next /\ UNCHANGED <<run, vm, agent>> BY <2>1, DockerSimulates
    <2>2. CASE E2b!Next /\ UNCHANGED vars BY <2>2, E2bSimulates
    <2>3. CASE UNCHANGED all
      BY <2>3 DEF all, vars, host, result, proxy, Contract!vars, EndedOf, ToldOf, OutcomeOf,
                  ReportedOf, DockerEnded, E2bEnded, E2bTold
    <2>4. QED BY <2>1, <2>2, <2>3 DEF EitherNext
  <1>2. QED
    BY <1>1, EitherInvariant, ContractInit, PTL DEF EitherSpec, KeepsContract, Contract!Spec
=============================================================================
