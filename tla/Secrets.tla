------------------------------- MODULE Secrets -------------------------------
(***************************************************************************)
(* The secrets manager of one tenant (packages/db/src/secrets.ts): get,    *)
(* set and delete are one statement on the row of the secret and then a    *)
(* record in the audit log, either of which may fail.  The log is the one  *)
(* of module AuditLog; how record keeps that promise is in AuditChain.     *)
(***************************************************************************)
EXTENDS Naturals, Sequences, FiniteSets

CONSTANTS
    Callers,    \* processes that use the manager, one call at a time each
    MaxNames,   \* bound: the names of secrets are 1 .. MaxNames
    MaxEvents   \* bound: events in the log

ASSUME SecretsAssumption == MaxNames \in Nat /\ MaxEvents \in Nat

VARIABLES
    secrets,    \* the table: what is stored under each name
    chain,      \* the audit log of the tenant
    calls,      \* the call of each process, and how it ended
    deleted     \* history: names that were deleted

secretsVars == <<secrets, chain, calls, deleted>>

Tenant == "demo"
Names  == 1 .. MaxNames
Values == {"seed", "set"}
Events == {"found", "missing", "written", "tenant.created"}

Audit == INSTANCE AuditLog WITH Tenants <- {Tenant}, Bodies <- Events

Told(e) == Cardinality({i \in DOMAIN chain[Tenant] : chain[Tenant][i] = e})

Idle  == [pc |-> "idle", event |-> "missing"]
Threw == [Idle EXCEPT !.pc = "threw"]
-----------------------------------------------------------------------------
(* The statement of a call; event is what it has to record.                *)
Call(p, event) ==
    /\ calls[p].pc # "recording"
    /\ calls' = [calls EXCEPT ![p] = [pc |-> "recording", event |-> event]]
    /\ UNCHANGED chain

(* Mutant of getSecret: a secret that is not there is not worth an event.  *)
getSecretQuietly(p, n) ==
    \/ secrets[n] # "none" /\ Call(p, "found") /\ UNCHANGED <<secrets, deleted>>
    \/ /\ secrets[n] = "none" /\ calls[p].pc # "recording"
       /\ calls' = [calls EXCEPT ![p] = [pc |-> "returned", event |-> "missing"]]
       /\ UNCHANGED <<secrets, chain, deleted>>

getSecret(p, n) ==
    /\ Call(p, IF secrets[n] = "none" THEN "missing" ELSE "found")
    /\ UNCHANGED <<secrets, deleted>>

(* INSERT ... ON CONFLICT DO UPDATE                                        *)
setSecret(p, n, v) ==
    /\ Call(p, "written")
    /\ secrets' = [secrets EXCEPT ![n] = v]
    /\ UNCHANGED deleted

deleteSecret(p, n) ==
    /\ Call(p, "written")
    /\ secrets' = [secrets EXCEPT ![n] = "none"]
    /\ deleted' = deleted \cup {n}

(* record returns, and the call with it; or the event is committed and the *)
(* call throws, as the answer of COMMIT is lost or the value does not      *)
(* decrypt.                                                                *)
Record(p) ==
    /\ calls[p].pc = "recording"
    /\ Len(chain[Tenant]) < MaxEvents
    /\ Audit!Record(Tenant, calls[p].event)
    /\ \/ calls' = [calls EXCEPT ![p].pc = "returned"]
       \/ calls' = [calls EXCEPT ![p] = Threw]
    /\ UNCHANGED <<secrets, deleted>>

(* The statement throws, or record does: what was written stays.           *)
CallFails(p) ==
    /\ calls[p].pc \in {"idle", "recording"}
    /\ calls' = [calls EXCEPT ![p] = Threw]
    /\ UNCHANGED <<secrets, chain, deleted>>

Ended(p) == calls[p].pc \in {"returned", "threw"}

SecretsInit ==
    /\ secrets = [n \in Names |-> "none"]
    /\ Audit!Init
    /\ calls = [p \in Callers |-> Idle]
    /\ deleted = {}
-----------------------------------------------------------------------------
(* "Readers shouldn't be able to probe the existence of a secret without   *)
(* leaving a trace" (secrets.ts:111-112): whatever interleaves, crashes or *)
(* fails, a call only returns together with the event that tells of it.    *)
AnswersAreTraced ==
    [][\A p \in Callers : calls'[p].pc = "returned" /\ calls[p].pc # "returned" =>
            chain'[Tenant] = Append(chain[Tenant], calls'[p].event)]_secretsVars
=============================================================================
