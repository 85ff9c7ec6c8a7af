------------------------------- MODULE E2bRun -------------------------------
(***************************************************************************)
(* Runs of generated code in microVMs of E2B                               *)
(* (packages/sandbox/src/e2b-executor.ts): one VM for each run, or, while  *)
(* the agent generates (packages/agent/src/agentic-agent.ts), one VM for   *)
(* the validations it asks for, one after the other.                       *)
(*                                                                         *)
(* E2B is external: every request to it may fail, it ends a VM whose       *)
(* lifetime is over, and a command that timed out may go on in its VM.     *)
(***************************************************************************)
EXTENDS Naturals, FiniteSets, Sequences

CONSTANTS
    Executions,   \* calls of run, numbered from 1
    Calls         \* bound: HTTP calls the code of a run may make

VARIABLES
    run,     \* the calls of run
    vm,      \* the VMs: state, and whose source is in /tmp/main.mjs
    agent    \* "none" for the runner and the worker; or the generation

vars == <<run, vm, agent>>

Shared  == 0                            \* the VM of the agent
Nobody  == 0                            \* no source
Vms     == Executions \cup {Shared}
Vm(e)   == IF agent = "none" THEN e ELSE Shared

(* A run: the await it has reached and its result; the process: how far it *)
(* is, whose source it imported, the wrapper's log while it is there, and  *)
(* what the marked lines in stdout say of egress.                          *)
NoRun == [pc |-> "idle", status |-> "none", egress |-> {}, code |-> "none",
          source |-> Nobody, log |-> {}, stdout |-> <<>>]

InTry(e)  == run[e].pc \in {"vm", "main", "wrapper", "command"}
Alone     == \A d \in Executions : run[d].pc \in {"idle", "done"}
UpVm(e)   == vm[Vm(e)].state = "up"
Set(e, r) == run' = [run EXCEPT ![e] = r]
Ended(e, code) == [run[e] EXCEPT !.code = code, !.log = {}]

(* The end of a VM, and of the processes in it.                            *)
WithoutVm(v) == [e \in Executions |-> IF Vm(e) = v /\ run[e].code = "up"
                                      THEN Ended(e, "killed")
                                      ELSE run[e]]
Gone == [state |-> "gone", main |-> Nobody]
-----------------------------------------------------------------------------
(* run *)

(* Mutant of Begin: validations may overlap in the VM of the agent.        *)
BeginAtOnce(e) ==
    /\ run[e].pc = "idle" /\ agent = "open"
    /\ Set(e, [NoRun EXCEPT !.pc = "vm"])
    /\ UNCHANGED <<vm, agent>>

(* Sandbox.create, which throws out of run; or the VM of the agent, whose  *)
(* SDK makes one call of this tool at a time.                              *)
Begin(e) ==
    /\ run[e].pc = "idle"
    /\ \/ /\ agent = "none"
          /\ Set(e, [NoRun EXCEPT !.pc = "vm"])
          /\ vm' = [vm EXCEPT ![e].state = "up"]
       \/ /\ agent = "none"
          /\ Set(e, [NoRun EXCEPT !.pc = "threw"])
          /\ UNCHANGED vm
       \/ /\ agent = "open" /\ Alone
          /\ Set(e, [NoRun EXCEPT !.pc = "vm"])
          /\ UNCHANGED vm
    /\ UNCHANGED agent

(* Mutant of WriteMain: that the file was not written is not noticed.      *)
WriteMainOrNot(e) ==
    /\ run[e].pc = "vm" /\ UpVm(e)
    /\ Set(e, [run[e] EXCEPT !.pc = "main"])
    /\ vm' \in {vm, [vm EXCEPT ![Vm(e)].main = e]}
    /\ UNCHANGED agent

WriteMain(e) ==
    /\ run[e].pc = "vm" /\ UpVm(e)
    /\ Set(e, [run[e] EXCEPT !.pc = "main"])
    /\ vm' = [vm EXCEPT ![Vm(e)].main = e]
    /\ UNCHANGED agent

WriteWrapper(e) ==
    /\ run[e].pc = "main" /\ UpVm(e)
    /\ Set(e, [run[e] EXCEPT !.pc = "wrapper"])
    /\ UNCHANGED <<vm, agent>>

(* commands.run: the wrapper imports /tmp/main.mjs.                        *)
RunCommand(e) ==
    /\ run[e].pc = "wrapper" /\ UpVm(e)
    /\ Set(e, [run[e] EXCEPT !.pc = "command", !.code = "up",
                             !.source = vm[Vm(e)].main])
    /\ UNCHANGED <<vm, agent>>

(* The first marked line in stdout; a line that is not JSON says nothing.  *)
extractWrapperOutput(e) == IF run[e].stdout = <<>> THEN {} ELSE Head(run[e].stdout)

(* The command is over.                                                    *)
CommandReturns(e) ==
    /\ run[e].pc = "command" /\ run[e].code \in {"zero", "nonzero"}
    /\ Set(e, [run[e] EXCEPT !.pc = "finally", !.egress = extractWrapperOutput(e),
            !.status = IF run[e].code = "zero" THEN "succeeded" ELSE "failed"])
    /\ UNCHANGED <<vm, agent>>

(* A request to E2B fails, the command has run for timeout_ms, or ended    *)
(* with an exit code the SDK throws for: the message decides the status.   *)
Catch(e) ==
    /\ InTry(e)
    /\ \E s \in {"timeout", "failed"} :
        Set(e, [run[e] EXCEPT !.pc = "finally", !.status = s])
    /\ UNCHANGED <<vm, agent>>

(* finally: the own VM is killed, the one of the agent tidied; if E2B will *)
(* not, it stays as it is.                                                 *)
Finally(e) ==
    /\ run[e].pc = "finally"
    /\ \/ /\ agent = "none"
          /\ vm' = [vm EXCEPT ![e] = Gone]
          /\ run' = [WithoutVm(e) EXCEPT ![e].pc = "done"]
       \/ /\ agent # "none"
          /\ vm' = [vm EXCEPT ![Shared].main = Nobody]
          /\ Set(e, [run[e] EXCEPT !.pc = "done"])
       \/ /\ UNCHANGED vm
          /\ Set(e, [run[e] EXCEPT !.pc = "done"])
    /\ UNCHANGED agent
-----------------------------------------------------------------------------
(* The process in the VM *)

(* fetch of the wrapper, which logs the call, be it answered or refused.   *)
Fetch(e, c) ==
    /\ run[e].code = "up" /\ c \notin run[e].log
    /\ Set(e, [run[e] EXCEPT !.log = @ \cup {c}])
    /\ UNCHANGED <<vm, agent>>

(* With nothing to import, the wrapper exits with code 1.                  *)
ExitCodes(e) == IF run[e].source = Nobody THEN {"nonzero"} ELSE {"zero", "nonzero"}

(* Stdout is shared with the code, which may have printed such a line      *)
(* itself, whatever it says; a second one of it changes nothing.           *)
PrintLine(e, cs) ==
    /\ run[e].code = "up" /\ run[e].stdout = <<>>
    /\ Set(e, [run[e] EXCEPT !.stdout = <<cs>>])
    /\ UNCHANGED <<vm, agent>>

(* The code returned, or threw: the wrapper prints its log and exits.      *)
Return(e) ==
    /\ run[e].code = "up"
    /\ \E code \in ExitCodes(e) :
        Set(e, [Ended(e, code) EXCEPT !.stdout = Append(@, run[e].log)])
    /\ UNCHANGED <<vm, agent>>

(* The code ends the process itself, or is killed in it.                   *)
ExitEarly(e) ==
    /\ run[e].code = "up"
    /\ \E code \in ExitCodes(e) : Set(e, Ended(e, code))
    /\ UNCHANGED <<vm, agent>>

VmExpires(v) ==
    /\ vm[v].state = "up"
    /\ vm' = [vm EXCEPT ![v] = Gone]
    /\ run' = WithoutVm(v)
    /\ UNCHANGED agent
-----------------------------------------------------------------------------
(* The agent *)

(* createReusableSandbox, or it throws and generateIntegrationCode too.    *)
AgentOpens ==
    /\ agent = "start"
    /\ \/ agent' = "open" /\ vm' = [vm EXCEPT ![Shared].state = "up"]
       \/ agent' = "closed" /\ UNCHANGED vm
    /\ UNCHANGED run

(* The conversation is over, maybe in the middle of a validation; the VM   *)
(* is killed, if E2B will.                                                 *)
AgentCloses ==
    /\ agent = "open"
    /\ agent' = "closed"
    /\ \/ vm' = [vm EXCEPT ![Shared] = Gone] /\ run' = WithoutVm(Shared)
       \/ UNCHANGED <<vm, run>>

Init ==
    /\ run = [e \in Executions |-> NoRun]
    /\ vm = [v \in Vms |-> [state |-> "none", main |-> Nobody]]
    /\ agent \in {"none", "start"}

RunStep(e) == \/ WriteMain(e) \/ WriteWrapper(e) \/ RunCommand(e)
              \/ CommandReturns(e) \/ Catch(e) \/ Finally(e)

CodeStep(e) == \/ Return(e) \/ ExitEarly(e) \/ \E c \in Calls : Fetch(e, c)
               \/ \E cs \in SUBSET Calls : PrintLine(e, cs)

Next ==
    \/ \E e \in Executions : Begin(e) \/ RunStep(e) \/ CodeStep(e)
    \/ \E v \in Vms : VmExpires(v)
    \/ AgentOpens \/ AgentCloses

Spec == Init /\ [][Next]_vars

(* Node goes on with a run, and timeouts pass; the code owes nothing.      *)
Fairness == \A e \in Executions : WF_vars(RunStep(e))
=============================================================================
