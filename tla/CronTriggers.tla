---------------------------- MODULE CronTriggers ----------------------------
(***************************************************************************)
(* The cron side of the runner: the scheduler's map of tasks               *)
(* (packages/runner/src/scheduler.ts), the sync loop that reconciles it    *)
(* with the database every 60 seconds (sync.ts), and the shutdown of the   *)
(* process (index.ts).  A reconcile is a chain of awaits, one query for    *)
(* each tenant, and nothing keeps two of them from overlapping.            *)
(***************************************************************************)
EXTENDS FiniteSets

CONSTANTS
    Tenants,
    Crons,       \* integrations with a cron trigger
    TenantOf,
    Valid,       \* those whose cron expression validates
    Reconciles   \* bound: reconciles that could be in progress at one time

ASSUME CronAssumption == TenantOf \in [Crons -> Tenants] /\ Valid \subseteq Crons

VARIABLES
    firable,    \* integrations whose row is Deployed, Running or Degraded
    tasks,      \* the keys of the scheduler's map
    recs,       \* the reconciles
    process,    \* "up", then "stopping" until process.exit
    stable,     \* history: what was firable ever since a reconcile began
    answering   \* the database answers every query from now on

vars == <<firable, tasks, recs, process, stable, answering>>

Rec(pc, todo, found, wanted) ==
    [pc |-> pc, todo |-> todo, found |-> found, wanted |-> wanted]

NoRec == Rec("idle", {}, {}, {})
-----------------------------------------------------------------------------
(* The timer of startSyncLoop, or its first pass: the query for tenants.   *)
StartReconcile(k) ==
    /\ process = "up"
    /\ recs[k].pc = "idle"
    /\ recs' = [recs EXCEPT ![k] = Rec("query", Tenants, {}, {})]
    /\ stable' = [stable EXCEPT ![k] = firable]
    /\ UNCHANGED <<firable, tasks, process, answering>>

(* The database answers listIntegrations of the next tenant.               *)
Query(k, t) ==
    /\ recs[k].pc = "query" /\ t \in recs[k].todo
    /\ recs' = [recs EXCEPT ![k] = Rec("answer", @.todo \ {t},
                    {i \in firable : TenantOf[i] = t}, @.wanted)]
    /\ UNCHANGED <<firable, tasks, process, stable, answering>>

(* Mutant of Resume: nothing is deregistered.                              *)
ResumeNeverDrops(k) ==
    /\ recs[k].pc = "answer"
    /\ tasks' = tasks \cup (recs[k].found \cap Valid)
    /\ recs' = [recs EXCEPT ![k] = IF @.todo = {} THEN NoRec
                    ELSE Rec("query", @.todo, {}, @.wanted \cup @.found)]
    /\ UNCHANGED <<firable, process, stable, answering>>

(* The await resumes: register what is firable and, after the last tenant, *)
(* deregister the rest.                                                    *)
Resume(k) ==
    LET r       == recs[k]
        wanted  == r.wanted \cup r.found
        present == tasks \cup (r.found \cap Valid)
    IN  /\ r.pc = "answer"
        /\ IF r.todo = {}
           THEN /\ tasks' = present \cap wanted
                /\ recs' = [recs EXCEPT ![k] = NoRec]
           ELSE /\ tasks' = present
                /\ recs' = [recs EXCEPT ![k] = Rec("query", r.todo, {}, wanted)]
        /\ UNCHANGED <<firable, process, stable, answering>>

(* Mutant of QueryFails: what was found so far is taken for everything.    *)
QueryFailsAndDrops(k) ==
    /\ ~answering
    /\ recs[k].pc \in {"query", "answer"}
    /\ recs' = [recs EXCEPT ![k] = NoRec]
    /\ tasks' = tasks \cap recs[k].wanted
    /\ UNCHANGED <<firable, process, stable, answering>>

(* A query throws: the reconcile is over, nothing is deregistered.         *)
QueryFails(k) ==
    /\ ~answering
    /\ recs[k].pc \in {"query", "answer"}
    /\ recs' = [recs EXCEPT ![k] = NoRec]
    /\ UNCHANGED <<firable, tasks, process, stable, answering>>

(* SIGTERM: the timer is cleared and every task stopped; then the webhook  *)
(* server and the pool are closed, which is awaited.                       *)
Shutdown ==
    /\ process = "up"
    /\ process' = "stopping"
    /\ tasks' = {}
    /\ UNCHANGED <<firable, recs, stable, answering>>

(* process.exit, and the next start.                                       *)
Restart ==
    /\ process = "stopping"
    /\ process' = "up"
    /\ tasks' = {}
    /\ recs' = [k \in Reconciles |-> NoRec]
    /\ UNCHANGED <<firable, stable, answering>>

(* The row is deployed, or taken back.                                     *)
Deploy(i) ==
    /\ firable' = (firable \cup {i}) \ (firable \cap {i})
    /\ stable' = [k \in Reconciles |-> stable[k] \cap firable']
    /\ UNCHANGED <<tasks, recs, process, answering>>

(* The database is well from now on.                                       *)
Recover ==
    /\ ~answering
    /\ answering' = TRUE
    /\ UNCHANGED <<firable, tasks, recs, process, stable>>

Init ==
    /\ firable \in SUBSET Crons
    /\ tasks = {}
    /\ recs = [k \in Reconciles |-> NoRec]
    /\ process = "up"
    /\ stable = [k \in Reconciles |-> {}]
    /\ answering = FALSE

Next ==
    \/ \E k \in Reconciles : \/ StartReconcile(k) \/ Resume(k) \/ QueryFails(k)
                             \/ \E t \in Tenants : Query(k, t)
    \/ Shutdown \/ Restart \/ Recover
    \/ \E i \in Crons : Deploy(i)

Spec == Init /\ [][Next]_vars

(* The timer keeps firing, Node resumes every await, and from some time on *)
(* the database answers.                                                   *)
Progress(k) == Resume(k) \/ \E t \in Tenants : Query(k, t)

FairSpec ==
    /\ Spec
    /\ WF_vars(\E k \in Reconciles : StartReconcile(k))
    /\ \A k \in Reconciles : WF_vars(Progress(k))
    /\ WF_vars(Recover)
-----------------------------------------------------------------------------
TypeOK ==
    /\ firable \subseteq Crons /\ tasks \subseteq Valid
    /\ recs \in [Reconciles -> [pc : {"idle", "query", "answer"}, todo : SUBSET Tenants,
                                found : SUBSET Crons, wanted : SUBSET Crons]]
    /\ process \in {"up", "stopping"}
    /\ stable \in [Reconciles -> SUBSET Crons]
    /\ answering \in BOOLEAN

(* A reconcile never deregisters an integration that was firable from its  *)
(* beginning to its end, whatever other reconciles do and whichever query  *)
(* fails: a schedule is not lost to a slow or broken database.             *)
KeepsWhatIsFirable ==
    [][process' = process =>
        \A k \in Reconciles : recs'[k] # recs[k] =>
            \A i \in tasks \ tasks' : i \notin stable[k]]_vars

(* Unless the runner shuts down again and again, an integration that stays *)
(* firable gets its task in the end and keeps it, one that stays not       *)
(* firable loses it for good, although old lists are applied late.         *)
TasksFollowTheRows ==
    \A i \in Valid :
        /\ <>[](process = "up" /\ i \in firable) => <>[](i \in tasks)
        /\ <>[](process = "up" /\ i \notin firable) => <>[](i \notin tasks)
=============================================================================
