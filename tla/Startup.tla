------------------------------- MODULE Startup -------------------------------
(***************************************************************************)
(* Processes that start on a shared database: seedDemoTenant               *)
(* (packages/db/src/seed.ts) and then seedDemoSecrets                      *)
(* (packages/platform/src/index.ts), one statement at a time, in several   *)
(* containers at once, each of which may crash and be started again while  *)
(* others already use the secrets.                                         *)
(***************************************************************************)
EXTENDS Secrets

CONSTANTS
    Users,      \* processes that get, set and delete secrets at any time
    MaxStarts,  \* bound: starts of the platform
    MaxTime     \* bound: what the clocks say is 1 .. MaxTime

ASSUME StartupAssumption ==
    /\ MaxStarts \in Nat /\ MaxTime \in Nat
    /\ Callers = (1 .. MaxStarts) \cup Users
    /\ (1 .. MaxStarts) \cap Users = {}

VARIABLES
    tenant,     \* created_at of the tenant's row; 0 if there is none
    admin,      \* the row of the admin user exists
    starts      \* the starts: their step and the locals of the seeds

startupVars == <<secretsVars, tenant, admin, starts>>

Starts == 1 .. MaxStarts

Steps == {"off", "tenant", "insert", "reread", "admin", "insertAdmin", "audit",
          "get", "set", "ready", "down"}

Off == [pc |-> "off", now |-> 1, created |-> FALSE, name |-> 1]

Up(s) == starts[s].pc \notin {"off", "ready", "down"}

GoTo(s, pc) == starts' = [starts EXCEPT ![s].pc = pc]
-----------------------------------------------------------------------------
(* seedDemoTenant takes the time before it looks for the tenant.           *)
Begin(s) ==
    /\ starts[s].pc = "off"
    /\ \E now \in 1 .. MaxTime : starts' = [starts EXCEPT ![s] = [Off EXCEPT !.pc = "tenant", !.now = now]]
    /\ UNCHANGED <<secretsVars, tenant, admin>>

LookForTenant(s) ==
    /\ starts[s].pc = "tenant"
    /\ GoTo(s, IF tenant = 0 THEN "insert" ELSE "admin")
    /\ UNCHANGED <<secretsVars, tenant, admin>>

(* ON CONFLICT (id) DO NOTHING                                             *)
InsertTenant(s) ==
    /\ starts[s].pc = "insert"
    /\ tenant' = IF tenant = 0 THEN starts[s].now ELSE tenant
    /\ GoTo(s, "reread")
    /\ UNCHANGED <<secretsVars, admin>>

(* Mutant of Reread: whoever ran the INSERT takes the tenant for its own.  *)
RereadBlindly(s) ==
    /\ starts[s].pc = "reread"
    /\ starts' = [starts EXCEPT ![s].pc = "admin", ![s].created = TRUE]
    /\ UNCHANGED <<secretsVars, tenant, admin>>

(* The tenant is taken for one's own if it has one's own created_at.       *)
Reread(s) ==
    /\ starts[s].pc = "reread"
    /\ starts' = [starts EXCEPT ![s].pc = "admin", ![s].created = (tenant = starts[s].now)]
    /\ UNCHANGED <<secretsVars, tenant, admin>>

(* The user is looked for, and inserted like the tenant.                   *)
SeedAdmin(s) ==
    /\ \/ /\ starts[s].pc = "admin"
          /\ GoTo(s, IF admin THEN "audit" ELSE "insertAdmin")
          /\ UNCHANGED admin
       \/ /\ starts[s].pc = "insertAdmin"
          /\ admin' = TRUE
          /\ GoTo(s, "audit")
    /\ UNCHANGED <<secretsVars, tenant>>

(* tenant.created; the process goes down if record throws.                 *)
AuditTenant(s) ==
    /\ starts[s].pc = "audit"
    /\ \/ ~starts[s].created /\ GoTo(s, "get") /\ UNCHANGED chain
       \/ /\ starts[s].created /\ Len(chain[Tenant]) < MaxEvents
          /\ Audit!Record(Tenant, "tenant.created")
          /\ GoTo(s, "get") \/ GoTo(s, "down")
    /\ UNCHANGED <<secrets, calls, deleted, tenant, admin>>
-----------------------------------------------------------------------------
(* seedDemoSecrets *)

NextName(start) == IF start.name < MaxNames THEN [start EXCEPT !.pc = "get", !.name = @ + 1]
                ELSE [start EXCEPT !.pc = "ready"]

(* The call is made, and goes on like any other.                           *)
SeedCall(s) ==
    /\ calls[s] = Idle
    /\ \/ starts[s].pc = "get" /\ getSecret(s, starts[s].name)
       \/ starts[s].pc = "set" /\ setSecret(s, starts[s].name, "seed")
    /\ UNCHANGED <<starts, tenant, admin>>

(* Mutant of SeedGoesOn: a get that throws counts as one that found it.    *)
SeedGoesOnAfterThrow(s) ==
    /\ Up(s) /\ Ended(s)
    /\ starts' = [starts EXCEPT ![s] =
            IF @.pc = "get" /\ calls[s].pc = "returned" /\ calls[s].event = "missing"
            THEN [@ EXCEPT !.pc = "set"] ELSE NextName(@)]
    /\ calls' = [calls EXCEPT ![s] = Idle]
    /\ UNCHANGED <<secrets, chain, deleted, tenant, admin>>

(* A get that throws is taken for null; a set that throws ends the process.*)
SeedGoesOn(s) ==
    /\ Up(s) /\ Ended(s)
    /\ starts' = [starts EXCEPT ![s] =
            IF @.pc = "get"
            THEN IF calls[s].pc = "returned" /\ calls[s].event = "found" THEN NextName(@)
                 ELSE [@ EXCEPT !.pc = "set"]
            ELSE IF calls[s].pc = "returned" THEN NextName(@) ELSE [@ EXCEPT !.pc = "down"]]
    /\ calls' = [calls EXCEPT ![s] = Idle]
    /\ UNCHANGED <<secrets, chain, deleted, tenant, admin>>

(* The process crashes, or a statement of seedDemoTenant throws.           *)
Crash(s) ==
    /\ Up(s)
    /\ starts' = [starts EXCEPT ![s] = [Off EXCEPT !.pc = "down", !.now = starts[s].now]]
    /\ calls' = [calls EXCEPT ![s] = Idle]
    /\ UNCHANGED <<secrets, chain, deleted, tenant, admin>>

Start(s) == \/ Begin(s) \/ LookForTenant(s) \/ InsertTenant(s) \/ Reread(s)
            \/ SeedAdmin(s) \/ AuditTenant(s) \/ SeedCall(s) \/ SeedGoesOn(s) \/ Crash(s)

(* Any other process, once there is a tenant; a crash looks like a throw.  *)
Use(u) ==
    /\ tenant # 0
    /\ \E n \in Names : getSecret(u, n) \/ setSecret(u, n, "set") \/ deleteSecret(u, n)
    /\ UNCHANGED <<tenant, admin, starts>>

Manager(p) ==
    /\ \/ Record(p)
       \/ CallFails(p) /\ (p \in Starts => starts[p].pc \in {"get", "set"})
    /\ UNCHANGED <<tenant, admin, starts>>

Init ==
    /\ SecretsInit
    /\ tenant = 0 /\ admin = FALSE
    /\ starts = [s \in Starts |-> Off]

Next == \/ \E s \in Starts : Start(s)
        \/ \E u \in Users : Use(u)
        \/ \E p \in Callers : Manager(p)

Spec == Init /\ [][Next]_startupVars
-----------------------------------------------------------------------------
TypeOK ==
    /\ secrets \in [Names -> Values \cup {"none"}]
    /\ chain \in [{Tenant} -> Seq(Events)]
    /\ calls \in [Callers -> [pc : {"idle", "recording", "returned", "threw"},
                              event : Events]]
    /\ deleted \subseteq Names
    /\ tenant \in Nat
    /\ admin \in BOOLEAN
    /\ starts \in [Starts -> [pc : Steps, now : Nat \ {0}, created : BOOLEAN, name : Nat]]

(* However many containers start at once, only those whose clock said what *)
(* the tenant's created_at says record tenant.created: two events need two *)
(* seeders in one millisecond ("worst case we emit one extra", seed.ts:59).*)
TenantIsToldByItsCreators ==
    Told("tenant.created")
        <= Cardinality({s \in Starts : starts[s].pc # "off" /\ starts[s].now = tenant})

(* A platform that serves has its tenant, its admin and a value for every  *)
(* name it seeds, unless someone deleted that: neither a crash of another  *)
(* container between two statements nor a failed read leaves a gap.        *)
ReadyIsSeeded ==
    \A s \in Starts : starts[s].pc = "ready" =>
        tenant # 0 /\ admin /\ \A n \in Names : secrets[n] = "none" => n \in deleted
=============================================================================
