----------------------------- MODULE SandboxRun -----------------------------
(***************************************************************************)
(* One run of generated code in a hardened container                       *)
(* (packages/sandbox/src/executor.ts), await by await, together with the   *)
(* egress proxy that forwards and records its HTTP calls                   *)
(* (packages/egress-proxy/src/index.ts, proxy.ts).                         *)
(*                                                                         *)
(* Docker and the systems called are external: each request to them may    *)
(* fail, the one to kill a container included, and a container exits when  *)
(* it likes or never.  Nothing bounds how long container.start takes, so   *)
(* the TTL of an execution may pass at any moment.                         *)
(***************************************************************************)
EXTENDS Naturals, FiniteSets

CONSTANTS
    Executions,   \* correlation ids, a fresh one for every run
    Calls,        \* bound: HTTP calls the code of a run may make
    MaxEntries    \* bound: registrations of one execution with the proxy

ASSUME EntriesAssumption == MaxEntries \in Nat \ {0}

VARIABLES
    failClosed, \* failClosedOnProxy; its default is FALSE
    pc,         \* run: the await it has reached
    kill,       \* run: what Docker said to the kill timer, once it fired
    exit,       \* run: exitCode
    status,     \* run: the status it returned
    egress,     \* run: egress_calls it returned
    tmpdir,     \* the host directory with the source exists
    container,  \* Docker: the container
    proxyUp,    \* the proxy process is there
    store,      \* ProxyStore: the entry of the execution
    entry,      \* which registration made that entry; 0 if none did
    via,        \* the entry in the hands of each call
    log,        \* the calls arrays of all entries of the execution
    calls       \* how far the proxy is with each call

keeper == <<proxyUp, store, entry>>
proxy  == <<keeper, via, log, calls>>
result   == <<failClosed, exit, status, egress>>
host   == <<result, pc, kill, tmpdir>>
vars   == <<host, container, proxy>>

Dead     == {"zero", "nonzero", "killed"}
Answered == {"answered", "relayed", "broken"}

Goto(e, step) == pc' = [pc EXCEPT ![e] = step]
-----------------------------------------------------------------------------
(* run *)

(* The source is written to a directory, the container created from it.    *)
Create(e) ==
    /\ pc[e] = "idle"
    /\ Goto(e, "created")
    /\ tmpdir' = [tmpdir EXCEPT ![e] = TRUE]
    /\ container' = [container EXCEPT ![e] = "created"]
    /\ UNCHANGED <<kill, result, proxy>>

(* createContainer, attach or start throws, and run with it.               *)
Throw(e) ==
    /\ pc[e] \in {"idle", "created", "registered"}
    /\ Goto(e, "threw")
    /\ tmpdir' = [tmpdir EXCEPT ![e] = TRUE]
    /\ UNCHANGED <<kill, result, container, proxy>>

(* ProxyStore.register: the entry is replaced by an empty one.             *)
register(e) ==
    /\ proxyUp
    /\ store' = [store EXCEPT ![e] = "live"]
    /\ entry' = [entry EXCEPT ![e] = @ + 1]

(* POST /execution to the proxy; that it did not arrive is not noticed.    *)
Register(e) ==
    /\ pc[e] = "created"
    /\ Goto(e, "registered")
    /\ UNCHANGED <<store, entry>> \/ register(e)
    /\ UNCHANGED <<kill, result, tmpdir, container, proxyUp, via, log, calls>>

(* container.start; the kill timer is set.                                 *)
Start(e) ==
    /\ pc[e] = "registered"
    /\ Goto(e, "waiting")
    /\ container' = [container EXCEPT ![e] = "up"]
    /\ UNCHANGED <<kill, result, tmpdir, proxy>>

(* Mutant of Kill: SIGTERM, which is taken and which the code may catch.   *)
KillIsCaught(e) ==
    /\ pc[e] = "waiting" /\ kill[e] = "none"
    /\ \E answer \in {"taken", "refused"} : kill' = [kill EXCEPT ![e] = answer]
    /\ UNCHANGED <<pc, result, tmpdir, container, proxy>>

(* The timer fires, maybe after the code has exited.  Docker is asked once *)
(* and its refusal ignored, whether there is nothing to kill or not.       *)
Kill(e) ==
    /\ pc[e] = "waiting" /\ kill[e] = "none"
    /\ \/ /\ container[e] = "up"
          /\ container' = [container EXCEPT ![e] = "killed"]
          /\ kill' = [kill EXCEPT ![e] = "taken"]
       \/ /\ kill' = [kill EXCEPT ![e] = "refused"]
          /\ UNCHANGED container
    /\ UNCHANGED <<pc, result, tmpdir, proxy>>

(* container.wait answers; the timer is cleared.                           *)
WaitReturns(e) ==
    /\ pc[e] = "waiting" /\ container[e] \in Dead
    /\ Goto(e, "exited")
    /\ exit' = [exit EXCEPT ![e] = IF container[e] = "zero" THEN "zero" ELSE "nonzero"]
    /\ UNCHANGED <<failClosed, kill, status, egress, tmpdir, container, proxy>>

(* container.wait throws, whatever became of the container.                *)
WaitThrows(e) ==
    /\ pc[e] = "waiting"
    /\ Goto(e, "exited")
    /\ exit' = [exit EXCEPT ![e] = "null"]
    /\ UNCHANGED <<failClosed, kill, status, egress, tmpdir, container, proxy>>

(* Mutant of Outcome: the exit code is looked at first.                    *)
OutcomeByExitCode(late, code, reachable) ==
    CASE code = "zero" -> IF failClosed /\ ~reachable THEN "failed" ELSE "succeeded"
      [] OTHER         -> IF late THEN "timeout" ELSE "failed"

(* The final status of a run.                                              *)
Outcome(late, code, reachable) ==
    IF late THEN "timeout"
    ELSE IF code = "zero" /\ (failClosed => reachable) THEN "succeeded"
    ELSE "failed"

(* ProxyStore.get drops an entry that it finds expired.                    *)
Get(e) == store' = [store EXCEPT ![e] = IF @ = "live" THEN "live" ELSE "absent"]

(* The calls array of the entry there is.                                  *)
Listed(e) == {x \in log[e] : via[e][x[1]] = entry[e]}

(* GET /log/:executionId, then the directory goes and run returns.         *)
FetchLog(e) ==
    /\ pc[e] = "exited"
    /\ Goto(e, "done")
    /\ \E reachable \in {FALSE, proxyUp /\ store[e] = "live"} :
        /\ egress' = [egress EXCEPT ![e] = IF reachable THEN Listed(e) ELSE {}]
        /\ status' = [status EXCEPT ![e] = Outcome(kill[e] # "none", exit[e], reachable)]
    /\ UNCHANGED store \/ (proxyUp /\ Get(e))
    /\ tmpdir' = [tmpdir EXCEPT ![e] = FALSE]
    /\ UNCHANGED <<failClosed, exit, kill, container, proxyUp, entry, via, log, calls>>

(* The entrypoint ends: with 0 once run of the module has returned, with 1 *)
(* if there is none or something threw; or the code ends it itself, or the *)
(* kernel does, out of memory.  Its calls may still be under way.          *)
Exit(e) ==
    /\ container[e] = "up"
    /\ \E code \in {"zero", "nonzero"} : container' = [container EXCEPT ![e] = code]
    /\ UNCHANGED <<host, proxy>>
-----------------------------------------------------------------------------
(* The proxy *)

SetCall(e, c, to) == calls' = [calls EXCEPT ![e][c] = to]

Push(e, c, verdict) == log' = [log EXCEPT ![e] = @ \cup {<<c, verdict>>}]

(* The code was started: requests of it arrive, also after it has ended.   *)
Started(e) == container[e] \in {"up"} \cup Dead

(* fetch of the code: the entrypoint sends it to the proxy, which is to    *)
(* pass it on; one for the proxy itself goes there as it is.               *)
temperProxyFetch(e, c) == Started(e) /\ calls[e][c] = "none"

(* handleProxyRequest until it awaits the target: an execution that is     *)
(* unknown or expired gets 404, a bad or foreign target is refused and     *)
(* recorded, the rest is forwarded, with the entry in its hands.           *)
Request(e, c) ==
    /\ proxyUp /\ temperProxyFetch(e, c)
    /\ \/ /\ store[e] # "live"
          /\ Get(e)
          /\ SetCall(e, c, "unknown")
          /\ UNCHANGED <<via, log>>
       \/ /\ store[e] = "live"
          /\ SetCall(e, c, "refused")
          /\ Push(e, c, "blocked")
          /\ via' = [via EXCEPT ![e][c] = entry[e]]
          /\ UNCHANGED store
       \/ /\ store[e] = "live"
          /\ SetCall(e, c, "forwarded")
          /\ via' = [via EXCEPT ![e][c] = entry[e]]
          /\ UNCHANGED <<store, log>>
    /\ UNCHANGED <<host, container, proxyUp, entry>>

(* POST /execution asks nobody who he is: the code, which knows its id,    *)
(* may register it anew, while calls of it hold the old entry.             *)
RegisterAgain(e) ==
    /\ Started(e) /\ entry[e] < MaxEntries
    /\ register(e)
    /\ UNCHANGED <<host, container, proxyUp, via, log, calls>>

(* Mutant of Answer: the call is recorded once its body is there.          *)
AnswerUnrecorded(e, c) ==
    /\ proxyUp /\ calls[e][c] = "forwarded"
    /\ SetCall(e, c, "answered")
    /\ UNCHANGED <<host, container, keeper, via, log>>

(* The target answered; the entry is made before the body is read.         *)
Answer(e, c) ==
    /\ proxyUp /\ calls[e][c] = "forwarded"
    /\ SetCall(e, c, "answered")
    /\ Push(e, c, "answered")
    /\ UNCHANGED <<host, container, keeper, via>>

Relay(e, c) ==
    /\ proxyUp /\ calls[e][c] = "answered"
    /\ SetCall(e, c, "relayed")
    /\ UNCHANGED <<host, container, keeper, via, log>>

(* The request failed, or the body could not be read to its end.           *)
UpstreamFails(e, c) ==
    /\ proxyUp /\ calls[e][c] \in {"forwarded", "answered"}
    /\ SetCall(e, c, IF calls[e][c] = "answered" THEN "broken" ELSE "failed")
    /\ Push(e, c, "blocked")
    /\ UNCHANGED <<host, container, keeper, via>>

(* DELETE /execution/:executionId, which the executor never sends, but     *)
(* anybody else may.                                                       *)
Teardown(e) ==
    /\ proxyUp /\ store[e] # "absent"
    /\ store' = [store EXCEPT ![e] = "absent"]
    /\ UNCHANGED <<host, container, proxyUp, entry, via, log, calls>>

Expire(e) ==
    /\ store[e] = "live"
    /\ store' = [store EXCEPT ![e] = "expired"]
    /\ UNCHANGED <<host, container, proxyUp, entry, via, log, calls>>

(* Mutant of Sweep: the comparison is the wrong way round.                 *)
SweepLive ==
    /\ \E e \in Executions : store[e] = "live"
    /\ store' = [e \in Executions |-> IF store[e] = "live" THEN "absent" ELSE store[e]]
    /\ UNCHANGED <<host, container, proxyUp, entry, via, log, calls>>

(* sweepExpired                                                            *)
Sweep ==
    /\ \E e \in Executions : store[e] = "expired"
    /\ store' = [e \in Executions |-> IF store[e] = "expired" THEN "absent" ELSE store[e]]
    /\ UNCHANGED <<host, container, proxyUp, entry, via, log, calls>>

(* The proxy keeps everything in memory.                                   *)
ProxyCrash ==
    /\ proxyUp
    /\ proxyUp' = FALSE
    /\ store' = [e \in Executions |-> "absent"]
    /\ calls' = [e \in Executions |-> [c \in Calls |->
                    IF calls[e][c] \in {"forwarded", "answered"} THEN "lost" ELSE calls[e][c]]]
    /\ UNCHANGED <<host, container, entry, via, log>>

ProxyRestart ==
    /\ ~proxyUp
    /\ proxyUp' = TRUE
    /\ UNCHANGED <<host, container, store, entry, via, log, calls>>
-----------------------------------------------------------------------------
Init ==
    /\ failClosed \in BOOLEAN
    /\ pc = [e \in Executions |-> "idle"]
    /\ kill = [e \in Executions |-> "none"]
    /\ exit = [e \in Executions |-> "none"]
    /\ status = [e \in Executions |-> "none"]
    /\ egress = [e \in Executions |-> {}]
    /\ tmpdir = [e \in Executions |-> FALSE]
    /\ container = [e \in Executions |-> "none"]
    /\ proxyUp = TRUE
    /\ store = [e \in Executions |-> "absent"]
    /\ entry = [e \in Executions |-> 0]
    /\ via = [e \in Executions |-> [c \in Calls |-> 0]]
    /\ log = [e \in Executions |-> {}]
    /\ calls = [e \in Executions |-> [c \in Calls |-> "none"]]

RunStep(e) == \/ Create(e) \/ Throw(e) \/ Register(e) \/ Start(e) \/ Kill(e)
              \/ WaitReturns(e) \/ WaitThrows(e) \/ FetchLog(e) \/ Exit(e)

CallStep(e, c) == Request(e, c) \/ Answer(e, c) \/ Relay(e, c) \/ UpstreamFails(e, c)

Next ==
    \/ \E e \in Executions : \/ RunStep(e) \/ RegisterAgain(e) \/ Expire(e) \/ Teardown(e)
                            \/ \E c \in Calls : CallStep(e, c)
    \/ Sweep \/ ProxyCrash \/ ProxyRestart

Spec == Init /\ [][Next]_vars

(* Timers fire, time passes, Docker answers in the end; the code of a run  *)
(* owes nothing, not even to stop.                                         *)
Fairness ==
    /\ WF_vars(Sweep)
    /\ \A e \in Executions :
        WF_vars(Expire(e)) /\ WF_vars(Kill(e) \/ WaitReturns(e) \/ FetchLog(e))
-----------------------------------------------------------------------------
Verdicts == {"answered", "blocked"}

TypeOK ==
    /\ failClosed \in BOOLEAN
    /\ pc \in [Executions -> {"idle", "created", "registered", "waiting", "exited",
                              "done", "threw"}]
    /\ kill \in [Executions -> {"none", "taken", "refused"}]
    /\ exit \in [Executions -> {"none", "zero", "nonzero", "null"}]
    /\ status \in [Executions -> {"none", "succeeded", "failed", "timeout"}]
    /\ egress \in [Executions -> SUBSET (Calls \X Verdicts)]
    /\ tmpdir \in [Executions -> BOOLEAN]
    /\ container \in [Executions -> {"none", "created", "up"} \cup Dead]
    /\ proxyUp \in BOOLEAN
    /\ store \in [Executions -> {"absent", "live", "expired"}]
    /\ entry \in [Executions -> 0 .. MaxEntries]
    /\ via \in [Executions -> [Calls -> 0 .. MaxEntries]]
    /\ log \in [Executions -> SUBSET (Calls \X Verdicts)]
    /\ calls \in [Executions -> [Calls -> Answered \cup
            {"none", "unknown", "refused", "forwarded", "failed", "lost"}]]

(* A run that is reported succeeded ended by itself with exit code 0: not  *)
(* one that the timer killed, that was never waited for, or that exited at *)
(* the very moment the timer fired.                                        *)
CleanRunsEnded ==
    \A e \in Executions :
        status[e] = "succeeded" => container[e] = "zero" /\ kill[e] = "none"

(* A run that reports any call, or is reported succeeded where the log is  *)
(* required (failClosedOnProxy), reports every call that a target answered *)
(* through the entry the proxy then has, although the proxy may have       *)
(* crashed, or dropped the execution, while calls were under way.  What    *)
(* went through an entry that was replaced is not in the log.              *)
AnsweredCallsAreReported ==
    [][\A e \in Executions :
        /\ status[e] = "none" /\ status'[e] # "none"
        /\ egress'[e] # {} \/ (failClosed /\ status'[e] = "succeeded")
        => \A c \in Calls : calls[e][c] \in Answered /\ via[e][c] = entry[e]
                            => <<c, "answered">> \in egress'[e]]_vars

(* Code that never ends is stopped: every run whose container was started  *)
(* returns, unless Docker refused the one request to kill it, and then     *)
(* only as long as the code itself goes on.                                *)
EveryRunEnds ==
    \A e \in Executions :
        pc[e] = "waiting" ~> pc[e] = "done" \/ (container[e] = "up" /\ kill[e] = "refused")

(* Nobody has to tear an execution down: after the last of its             *)
(* registrations, of which there are finitely many, the proxy forgets it   *)
(* for good.                                                               *)
EntriesGoAway == \A e \in Executions : <>[](store[e] = "absent")
=============================================================================
