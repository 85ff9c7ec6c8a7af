# Temper: verification project

TLA+ models of the Temper integration platform (`src/`), the TLC runs that
check them on small instances, and theorems about them that TLAPS checks for
every instance. `tlc -workers 2 -config X.cfg M` in this directory repeats a
run, `tlapm M.tla` a proof; `PROJECT.json` lists the runs, the mutants that show
that each property can fail, and the source lines every definition stands for.

## The system

A user describes an integration; an agent writes code for it, a sandbox tests
it, the user approves, the platform builds and deploys it, and a runner fires it
from a cron schedule, a webhook or a file drop. Every component keeps its state
in one Postgres database and talks to the others through its rows, except for
what is in memory as noted.

| component (source) | state it keeps | operations | talks to |
|---|---|---|---|
| integration workflow and activities (`packages/workflows`) | Temporal history: the await, attempts, signals, locals; rows `integrations`, `integration_versions`, `runs` | start, approve, reject; 6 activities with retries and timeouts; 24 h gate | API (signals), agent, sandbox, audit log |
| control-plane API (`packages/api`) | none; `runs.ts` keeps one generator per open log stream | test, approve, reject, deploy, log stream, reads | workflow client, repository |
| Temporal clients (`api/src/temporal-client.ts`, `packages/platform`) | the stub: a map of handles, in memory | start, approve, reject, deploy | the workflow; the stub writes the rows itself |
| audit log (`packages/db/src/audit.ts`) | rows `audit_log`, one hash chain per tenant | record, list, verify | everybody records |
| repository and schema (`packages/db`) | all rows, tenant-scoped | statements, each its own transaction | everybody |
| secrets (`packages/db/src/secrets.ts`) | rows `secrets` | get, set, delete, list | audit log |
| seeding at start (`packages/db/src/seed.ts`, `packages/platform/src/index.ts`) | rows of tenant, admin, secrets | one pass per container start | repository, secrets, audit log |
| runner: firing (`runner/src/executor.ts`) | rows `runs`, `integrations.state` | fireIntegration, maybeDegrade | sandbox, secrets, audit log |
| runner: sync loop, scheduler (`sync.ts`, `scheduler.ts`, `index.ts`) | map of cron tasks, in memory | reconcile, register, deregister, shutdown | repository, firing |
| runner: SFTP watcher (`sftp-watcher.ts`) | set of names seen, `inFlight`, in memory | tick, checkOne | SFTP server, firing |
| sandbox executors (`packages/sandbox`) | host directory, container; or a VM of E2B | run | Docker, E2B, egress proxy |
| egress proxy (`packages/egress-proxy`) | executions and their calls, in memory, with a TTL | register, forward, log, sweep | generated code, target systems |
| agent (`packages/agent`) | one conversation, one reusable VM | generate, validate | language model, E2B |
| user interface (`packages/ui`) | React state, a polling interval; one EventSource per log view | form, page of an integration, log view | API |

What is hard here:

- **at-least-once activities**: an attempt that timed out goes on in the worker,
  while its retry, or the rest of the workflow, writes the same row with the same
  unconditional statements;
- **signals against timers**: approve and reject may arrive before, at and after
  the gate, more than once, or together with the timeout;
- **read, await, write**: the runner decides on what it read several awaits ago,
  and nothing keeps fires of one integration from overlapping with each other or
  with a redeployment;
- **a chain that must not fork**, with a lock that does not do quite what its
  comment says;
- **timers that overlap their own work** (SFTP ticks, cron reconciles) and state
  in memory that a restart loses;
- **a container, its kill timer, its proxy and its log**, each of which may fail
  by itself; the same promise kept by a hosted VM that is sometimes reused;
- **a stream that polls while rows change**, a browser that reconnects by
  itself, and a page that stops polling on what it was told last;
- **two writers of one row**: in demo mode the stub walks the lifecycle inside the
  request, statement by statement, and two requests interleave;
- **a statement and the event that tells of it**, which are two transactions, and
  several containers that seed one empty database at once.

What makes each component correct is stated at its runs below; `PROJECT.json`
lists the hazards line by line, with the properties that cover them.

## The modules

| module | models | composed of | proved in |
|---|---|---|---|
| `IntegrationWorkflow` | the workflow, its activities statement by statement, the API requests | | `WorkflowProofs` |
| `Clients` | the three Temporal clients: the shim, the adapter, the stub with its statements | extends `IntegrationWorkflow`, refines `Lifecycle` | `WorkflowProofs` |
| `Lifecycle` | abstract: what the row of an integration promises to its readers | refined by `Clients` | |
| `AuditChain` | record as the transaction it runs; list, verify | refines `AuditLog` | `AuditProofs` |
| `AuditLog` | abstract: an append-only list for each tenant | refined by `AuditChain`, used by `Secrets` | |
| `AuditTamper` | rows altered behind the logger's back | extends `AuditChain` | `AuditProofs` |
| `Secrets` | get, set, delete as the statement and the event they are | instances `AuditLog` | `StartupProofs` |
| `Startup` | containers that seed one database at once | extends `Secrets` | `StartupProofs` |
| `Runner` | fires of one integration, its workflow reduced to its writes and the approval before them | refines `Health` when fires do not overlap | `RunnerProofs` |
| `Health` | abstract: the state as a function of the newest runs | refined by `Runner` | |
| `SftpWatcher` | ticks, priming, the set of seen names | | `SftpProofs` |
| `CronTriggers` | reconciles, the task map, shutdown and restart | | `CronProofs` |
| `SandboxRun` | the Docker executor, the container and the egress proxy | in `Sandboxes` | `SandboxProofs` |
| `E2bRun` | the E2B executor, the wrapper script, the agent's VM | in `Sandboxes` | `SandboxProofs` |
| `Sandboxes` | the factory that chooses one of the two | refines `SandboxContract` | `SandboxProofs` |
| `SandboxContract` | abstract: what a caller of `SandboxAPI.run` may rely on | refined by `Sandboxes` | |
| `LogStream` | the server-sent event stream and the component that reads it | | `LogProofs` |
| `DetailPage` | the form, the page of an integration, its polling and buttons | extends `LogStream` | `LogProofs` |
| `AuditClaims`, `RunnerClaims` | what a comment says and the code does not do | | |
| `MCAudit`, `MCAuditTamper`, `MCCron`, `MCSftp` | instances for TLC | | |

**How state and actions correspond to the code.** One action is what the code
does between two awaits; a statement outside an explicit transaction is one
action, because `pg` autocommits it. A guard is the code's condition at that
place, evaluated on what the code has read by then, not on the current row:
locals that survive an await (`integration` in `fireIntegration`, `current` in
the log stream, `prevHash` in `record`) are fields of the record of the call.
Variables marked *history* record what a property speaks about and are read by
no guard.

- `IntegrationWorkflow`: `wf` is the Temporal execution (the activity awaited,
  its attempt, the locals), `running` the attempts whose code runs in the worker,
  whether they are still awaited (`Live`) or late. `Body` lists the statements of
  each activity in order; `Statement` performs the next one, `StatementFails`
  throws there. `AttemptTimesOut` retries or fails the call and leaves the old
  attempt running; `WorkerCrash` drops all of them. `PassGate` is what follows
  `condition(...)`. `POST .../deploy` only makes the workflow log a line and has
  no action.
- `Clients`: `client` is the one a process was given at its start. The shim and
  the adapter differ in the prefixes they strip from a workflow id (`Strips`),
  which decides whether a signal reaches its execution. With the stub there is
  no Temporal: `requests` holds the calls in progress with their place in
  `StubBody`, `handle` is the entry of the map that a start leaves and a restart
  of the process loses.
- `AuditChain`: `tx[w]` is the open transaction of writer `w`. `Snapshot` and
  `Lock` are the two halves of `SELECT ... FOR UPDATE` at READ COMMITTED: the
  snapshot picks the row, the lock is waited for, the *same* row is returned.
  A hash is the term it is computed from, which makes it injective.
- `Secrets`, `Startup`: `calls[p]` is the call of a process between its statement
  on `secrets` and its record in the log; `starts[s]` is a container on its way
  through `seedDemoTenant` and `seedDemoSecrets` with their locals, `now` being
  the time it took at the beginning.
- `Runner`: `fires[f].pc` names the await a call of `fireIntegration` has reached;
  a run row exists from `Stamp` (its `started_at` is taken) but is listed from
  `Insert`. `cycle` is the workflow reduced to its own writes of the row and of
  `runs`: its test row is listed as running while the sandbox works, as
  `maybeDegrade` sees it; `Gate` takes an approval of *any* version there is, as
  the route does, and `PinVersion` pins what was captured; `Settle`, the second
  write of Deployed, may take Running or Degraded back. Retries and late attempts
  of activities are left to `IntegrationWorkflow`. `quiet` says whether calls
  overlap in this behaviour.
- `SftpWatcher`, `CronTriggers`: one record for each tick or reconcile in
  progress; `Restart` is the end of the process and its next start.
- `SandboxRun`: `container` is Docker's; `exit`, `kill` (whether the timer has
  fired, and whether Docker took the one request) and `status` are the
  executor's; `store`, `log`, `calls` are the proxy's. The code in the container
  is fetched over HTTP and exits as `docker/entrypoint.js` lets it. Its `fetch`
  passes URLs of the proxy itself through, and `POST /execution` asks nobody who
  he is, so `RegisterAgain` lets the code replace its own entry by an empty one:
  `entry` numbers the registrations, `via` is the one a call was forwarded
  through, and the log that is fetched is that of the last. `failClosed` takes
  both values; no caller in the repository sets it.
- `E2bRun`: `run[e]` has the await, the process in the VM and the result; `vm[v]`
  whose source lies in `/tmp/main.mjs`. With `agent # "none"` all runs share VM 0.
  The stdout that `extractWrapperOutput` searches for the first marked line
  belongs to the wrapper and the code alike: `PrintLine` is the code's own line,
  with whatever calls it names, `Return` the wrapper's.
- `LogStream`: `streams[s]` is a generator with what it has read, `sent` its
  cursors, `ui` the component.
- `DetailPage`: `page` is the browser: where the user is, the state that is shown
  and the refresh under way; `workflow` is reduced to the arrows it walks. A
  behaviour looks at the log tab or at the page around it (`view`), because the
  two read the same rows and share nothing else.

## The runs

| run | asks | bounds and why they are enough |
|---|---|---|
| `workflow_clients` | Whichever client the process has: is Tested shown only after a clean run, Deployed only with a version, is a completed execution settled, does the row keep `Lifecycle`? | 1 execution, 2 attempts, 1 late attempt: a retry, and a late write after the retry has succeeded, need no more; 2 requests inside the stub, with 2 starts, interleave in every way two can |
| `workflow_restart` | Is only what was approved and built ever pinned, is a rejection final, an approval never lost, does every execution close? | 2 executions with one attempt each and one late attempt: late attempts then belong to the previous execution, the case the first run cannot have |
| `audit_many` | Does every committed event continue one of its tenant? Does verify only complain of forks? Is the log of a tenant whose records do not overlap append-only? | 2 writers of one tenant, 1 of another, 4 sequence values: forks need two records after a first one; foreign and rolled-back rows lie between |
| `audit_tampered` | Does verify never get past the first altered row, and report exactly that one where records do not overlap? | 2 writers of one tenant (symmetric) and 1 of another, 3 rows, any subset altered at any time: a first, a middle and a last row, in a chain that forks and in one that does not |
| `startup` | Does tenant.created tell who created the tenant, does a platform that is ready have what it seeds, does no read of a secret go untraced? | 2 containers and 1 other process, 1 name, 2 clock values (equal and different), 4 events; each of the two may crash or fail anywhere |
| `runner_fires` | Is what fires always pinned and approved, after a clean test, does a finished call leave exactly one row, do three bad runs degrade, is the state what `Health` says? | overlapping: 3 calls, 2 at a time, 2 versions, 4 of calls and executions together (`MaxWork`: 3 calls in 1 execution, or 2 in 2), as `maybeDegrade` looks at three rows and a stale read, or the approval of an older version, takes one redeployment; one after the other: 6 calls, longer than the window of three and back |
| `sftp_fires` | Does a name fire at most once, and a new file in the end? | 2 integrations (one listing fails while the other goes on), 2 ticks to overlap |
| `cron_sync` | Is a schedule never lost to a slow or failing query, and are the tasks right in the end? | 2 tenants, 3 integrations (two in one tenant, one of these with an invalid expression), 2 reconciles to overlap |
| `sandbox_runs` | Is succeeded true, does a log that is not empty hold all that was answered through its entry, does everything end, do entries of the proxy go away, do both executors keep the contract? | Docker: 1 run (runs share nothing but the proxy's map, keyed by run), 2 calls, so that one is answered and one in flight, refused or answered through another entry, 2 registrations, so that the code replaces the executor's, `failClosedOnProxy` set and not; E2B: 2 validations, for the second finds what the first left, and 1 call, which is logged or not, and printed or not |
| `log_stream` | Is each run told once and in order, is done complete, does the stream end and the component come to rest? Does a page that shows a transitional state come to show the row? | 3 runs, 1 generator: generators share nothing, an old one that lingers is replaced once it has ended; 2 executions, so that a page left behind by the first meets the second |
| `claim_no_fork` | refuted: `FOR UPDATE` prevents parallel branches | 2 writers, 3 rows |
| `claim_firable` | refuted: a pre-Deployed integration stays out of the runner's hands | 1 call, 2 versions, 3 of both together |

Counters that the code does not bound are bounded by constants, each named in a
comment "bound"; they appear in guards only. Deadlock checking is off where a
bounded number of calls, executions or runs may all be over. Symmetry is used
in `audit_tampered` only: the other runs have liveness properties, or actors that
differ (an order, a tenant, a fault of their own).

**Faults and liveness.** Failures may happen at any await. Where a property holds
only once they stop, the model has a switch (`answering` in `CronTriggers`, `calm`
in `LogStream` and `DetailPage`) that is thrown once and for good, after an arbitrary number of
faults. The premise is not written as "from some time on no failing step is taken":
a query that fails in the last step of a reconcile changes the same variables as
one that finds nothing to drop, and such a formula would exclude both.

**Fairness and why the code justifies it.**

- `IntegrationWorkflow`: weak fairness of the awaited attempt's next statement,
  of Temporal's timers and of the wake-up at the gate. Users and crashes owe
  nothing, late attempts need not go on.
- `AuditChain`: a transaction that holds its lock is answered (weak); who waits
  for a row lock is served between the others (strong): Postgres queues them.
- `SftpWatcher`: the interval keeps firing and Node resumes a tick (weak); a
  listing that is tried in every tick works now and then (strong).
- `CronTriggers`: `setInterval` and the awaits (weak), the database recovers.
- `SandboxRun`: the kill timer, the TTL and the sweeper are timers (weak), Docker
  answers `wait` once the container is gone, and the log request is answered or
  fails. The generated code owes nothing. Docker may refuse the one request to
  kill: then the run waits for as long as its code goes on, which `EveryRunEnds`
  says.
- `E2bRun`: Node goes on with a run; `Catch` includes the command's timeout, so it
  comes at the latest then.
- `LogStream`: Node goes on with a generator; the ten minutes pass although each
  check of them may find a new pass first (strong); the browser reconnects.
  `EveryStreamEnds` rests on that cap: it supposes that each yield is taken, for a
  reader that stalls without closing keeps the generator from its check.
- `DetailPage`: the interval, the request it sends, its answer and React's update
  (all weak); the user and the workflow owe nothing, `PollingCatchesUp` speaks of
  rows that come to rest.

**What the properties leave out, because the code does not give it.**

- `CompletedIsSettled` exempts an execution with a late write behind it: such a
  write may take a settled row back (see RepeatedStateWriteIsNoOp below).
- `FiresAtMostOnce` and `NewFileFires` speak of one life of the runner: a restart
  forgets the set of seen names, and files present then are primed, not fired.
- `DoneIsRecorded` speaks of calls that came to their end; one that died with the
  runner leaves its row running, and nothing ever tidies it.
- `BadRunsDegrade` and `HealthFollowsRuns` speak of calls of which none succeeds,
  or which do not overlap: a success between the list and the write of
  `maybeDegrade` is overwritten (see DegradedMeansThreeBad below).
- `AnsweredCallsAreReported` speaks of the entry the proxy has when the log is
  fetched: calls through a replaced entry, and calls answered after the fetch,
  are in no log that is reported.
- `KeepsContract` promises of the log under E2B only that the process printed it.
- `ComponentComesToRest` speaks of a mounted component, `PollingCatchesUp` of a
  page that shows a transitional state.

Each liveness property has a mutant (a timer that is missing, a lock that is not
released, a close that is not called) for which TLC finds it violated under the
same fairness.

## What is proved

All theorems hold for every value of the constants that satisfies the named
assumptions of the modules: `ExecsAssumption`, `AttemptsAssumption`,
`RequestsAssumption`, `TestsAssumption` (positive numbers), `LateAssumption`,
`SeqAssumption`, `SecretsAssumption` (natural numbers), `OwnerAssumption` (a function
from writers to tenants), `RunnerAssumption`, `StartupAssumption` (containers and other
processes are distinct), `CronAssumption` (each integration has a tenant),
`RunsAssumption`, `ValidationsAssumption` and `StreamsAssumption` (sets of numbers),
`EntriesAssumption` (a positive number). A theorem with a property of a run proves what that run
checks on its instance.

`WorkflowProofs`
- `TypeCorrect`: `Spec => []TypeOK`. `TypeInv` adds what typing needs and `TypeOK`
  does not say: a running execution has a number, an attempt's step lies within
  the body of its activity. One lemma for each way an attempt ends (`Await`,
  `Retry`, `Throw`, `Return`, `Proceed`), one for the gate, one step for each action.
- `ApprovalTrailHolds`: `Spec => []ApprovalTrail`. `PinnedWasApprovedAndBuilt` is
  not inductive: nothing in it says that the argument of a *running* `deployToRunner`
  was approved. `ApprovalTrail` follows the version from the signal to the
  pointer: what the execution holds as approved or captured was approved; what
  `buildImage` and `deployToRunner` carry is the captured version; what
  `deployToRunner` carries was built; and of a refused execution nothing is past
  the gate. Late attempts are why it quantifies over `running` and not over the
  awaited call only.
- `OnlyApprovedArePinned`, `RefusedStayOut`: the two properties, from it.
- `ApprovalsAreKept`: `Spec => ApprovalIsNotDropped`, a step at the gate at a time.
- `PinnedFirst`: while nothing is pinned, no attempt of `deployToRunner`, late or
  not, is past its first statement, and the workflow has not come to its last.
- `RunTrail`: no run row has two attempts that write it (`RunsOnce`: a row is named
  after the attempt that creates it, and `Fresh` rows are absent), so a run that
  succeeded stays succeeded although late attempts of `runSandbox` go on; and an
  execution, or an attempt that writes Tested, has such a run behind it.
- `SettledTrail`: only the return of the last call completes an execution.
- `ClientsInv` puts these together for the two clients that use Temporal, and for
  the stub says how far each request has come (`RequestOK`), that two starts never
  share their rows (`SameStart`), and that a handle implies a pinned version.
  From it `ClientsTypes`, `TestedAlwaysPassed`, `DeployedIsPinnedByAll`,
  `CompletedAreSettled`.
- `RowKeepsItsPromises`: `ClientsSpec => KeepsLifecycle`, by step simulation under
  the mapping `passed <- ` the versions of the succeeded rows: a state write is
  `Enter`, an insert `Generate`, `setCurrentVersion` is `Pin`, the end of a run is
  `Pass` or nothing; the rest stutters. It needs `RunTrail` (a row that is written
  had not succeeded) and `PinnedFirst`.

`AuditProofs`
- `EveryEventContinuesHolds`: `Spec => []EveryEventContinues`. `ChainInv` says the
  same of rows that are inserted and not committed, with the two facts that make
  it inductive: what a transaction has read is the hash of a committed row of its
  tenant (rows are never removed, so it stays one), and a pending row has a `seq`
  nobody else has.
- `OnlyForksBreak`: `Spec => []BreaksAreForks`. The row `verify` reports is the first,
  in the order of `seq`, whose `prev` is not the hash of the one before; it exists
  because `<` on the naturals is well-founded (`Least`, from
  `WellFoundedInduction`). What it continues is an event before that one, and the
  row that follows that event continues it too: two rows with one `prev`. For a
  tenant whose records do not overlap `SoleInv` adds that what its one writer waits
  for, and what it has read, is the end of the chain until it commits.
- `AuditTypes`: `Spec => []TypeOK`.
- `ListOnlyAppends`: `Spec => IsAppendOnly`, by step simulation. `Rank` numbers the
  rows of a chain in the order of `seq` without a gap, so that `list` is a sequence
  of its rows whatever order they came in; the commit of a lone writer adds the
  row with the highest `seq`, which `list` shows last, and every other step stutters.

- `AlteredAlwaysReported`: `TamperSpec => []FirstAlteredIsReported`. `HashesTell`: a
  stored hash covers the fields next to it iff the row was not altered, for one
  UPDATE changes one of them and a hash tells them all apart; an altered row
  therefore disagrees whatever lies before it, and `verify` stops there at the
  latest. That it does not stop earlier needs `ChainsKnown` of a writer that is alone
  for its tenant: a row agrees as long as neither it nor one before it was altered
  (`UnalteredAgree`), because the hash a record has read is still at the end of the
  chain when it commits, the lock of the last row keeping an UPDATE out (`EndKnown`).

`RunnerProofs`
- `TypesHold`, `FirableAlwaysPinned`, `FiredWereApproved`, `DoneAreRecorded`. `PinInv`
  carries the pinned version, the captured one and what a call has read of it back
  to an approval that followed a clean test run of that version or a later one;
  `RowInv` says that a call past `Stamp` has exactly one row with its result.
- `BadRunsAlwaysDegrade`: `Spec => []BadRunsDegrade`, for any number of overlapping
  calls. The argument is about the last of them to list the runs (`LastJudges`): as
  each call finishes its row before it lists, that one finds all rows in, and since
  every row but the first is of a call that ended badly (`FirstCycle`), the newest
  three are bad (`NewestThree`, `ThreeBadIs`, by cardinality); from there on it is on its
  way to write Degraded or has found it. No call writes Running, for none succeeded
  (`ResultsKnown`).
- `StateFollowsRuns`: `Spec => HealthFollowsRuns`, by step simulation. `OneByOne` says
  that without overlap row i is that of call i - 1, all calls before the last are
  done, and what the last has read of the state is still so. The step in which a
  call ends is `Record` of its result (`EndRecords`): the window moves on by one
  (`NewestStep`) and `maybeDegrade` judges that very window (`WindowIsJudged`); every
  other step stutters (`PastStays`).
- `DegradedFollowsThreeBad`: drawn from the refinement alone, by an invariant of `Health`
  (`WindowInv`): while calls come one at a time the row says Degraded exactly when the
  last three finished runs were all bad. No run checks it as a property of its own.

`SftpProofs`
- `FiresOnce`, `WatcherTypes`. `OnceInv`: one tick at a time is past its first await
  (`inFlight` is set before it and cleared after it), a file in its hands is not
  in what is left, and what has fired is seen or is in its hands.

`CronProofs`
- `CronTypes`, `SchedulesAreKept`. `Accounted`: what stayed firable since a reconcile
  began was found, or belongs to a tenant that is still to be asked.

`SandboxProofs`
- `SandboxTypes`, `SuccessIsClean`, `AnswersAreReported`, `BothKeepContract`. `DockerOK`: the
  exit code the executor holds is the container's, and status comes last. `OneAtATime`: runs
  that share the agent's VM do not overlap. That an answered call is in the log of
  the entry it went through is invariant whatever is registered in between, so the
  fetched log of the last entry has all of its own. The contract is simulated step
  by step with `EndedOf`, `ToldOf`, `OutcomeOf`, `ReportedOf`, which choose the
  executor; what the keeper was told is what the proxy recorded under any entry,
  or, under E2B, the union of what was printed, whose first line is reported.

`LogProofs`
- `PageTypes`, `StoriesAreTold`, `DoneTellsAll`. `GenOK`: what a generator has told of a run is one
  of four stories, and what it was told by the state it read is told before done.

`StartupProofs`
- `StartupTypes`, `CreatorsTell`, `ReadyMeansSeeded`, `NoAnswerUntraced`. `FewTold` counts
  the events by the starts that are past theirs and whose clock agrees (`Tellers`);
  `StartOK` says what a container at each step may rely on.

Model-checked only: the liveness properties (fairness and ENABLED are out of the
prover's reach). Every invariant, action property and refinement of the runs is a
theorem.

## Known divergences

Places where a comment, a document or a name says one thing and the code does
another. Two are run as refuted claims (`claim_no_fork`, `claim_firable`); the
others were met while modelling and confirmed in the models, and are the reason
why the properties above are stated as they are. The models follow the code.

- **MarkFailedLeavesDraft** (`src/packages/workflows/src/activities.ts:366`): workflow.ts:166-168 says of markFailed: "itself an activity (and itself retried), so the only way state can be stuck mid-flow is if the worker is down for the entire retry budget" (src/packages/workflows/src/workflow.ts:166). markFailed catches the error of its own write of Draft, records its event and returns, so Temporal does not retry it: one failed UPDATE leaves the row in Generating or Building with the worker up.
- **RejectMovesToDraft** (`src/packages/workflows/src/workflow.ts:126`): "reject: { reason? } - moves the integration back to Draft" (src/packages/workflows/src/workflow.ts:48). sig.rejected is read once, after the approval gate; a reject that is accepted while the execution builds or deploys is never looked at and the integration ends Deployed.
- **RepeatedStateWriteIsNoOp** (`src/packages/workflows/src/activities.ts:141`): "Idempotent at the row level - setting the same state twice is a no-op write but still safe under Temporal's at-least-once delivery" (src/packages/workflows/src/activities.ts:137). An attempt that timed out goes on in the worker; when the retry has succeeded and the workflow has moved on, its unconditional UPDATE sets the row back to the earlier state.
- **FailedDeployIsNotHalfDone** (`src/packages/workflows/src/activities.ts:339`): "the version-pointer flip and the state flip happen under the same DB connection - a crash between them would leak a half-deployed integration" (src/packages/workflows/src/activities.ts:325). They are two autocommitted statements on a pool; when the second fails for good, the new version stays pinned while markFailed puts the row in Draft.
- **PinnedWasTested** (`src/packages/api/src/routes/integrations.ts:134`): "Sandbox-tested version stored ... Approve button appears in the UI" (src/README.md:141). The approve endpoint only checks that the version belongs to the integration; a version that an attempt of generateCode inserted before it was retried never ran, can be approved and is pinned and deployed.
- **NoParallelBranches** (`src/packages/db/src/audit.ts:104`): "FOR UPDATE on the tail row prevents two writers from reading the same prev_hash and inserting parallel branches in the chain" (src/packages/db/src/audit.ts:84). A writer that waited for the lock gets the row its snapshot had chosen, not the tail committed meanwhile, and an empty chain has no row to lock: both write a row with the same prev_hash and verify reports a break in a log nobody altered.
- **CleanRunPromotes** (`src/packages/runner/src/executor.ts:143`): "Always promote to Running on a clean run, even from Degraded - that's how an integration recovers" (src/packages/runner/src/executor.ts:141). The test uses the state read before the sandbox ran: if it was Running and overlapping calls degraded the row since, the clean run leaves it Degraded.
- **DegradedMeansThreeBad** (`src/packages/runner/src/executor.ts:163`): "Mark integration Degraded if the most recent 3 runs are all non-success" (src/packages/runner/src/executor.ts:154). The runs are listed two awaits before the write; a run that succeeds in between is overwritten with Degraded.
- **PreDeployedStaysOut** (`src/packages/runner/src/executor.ts:144`): "pre-Deployed states (Draft/Generating/Tested/Approved/Building/Retired) are not" firable (src/packages/runner/src/executor.ts:44). The guard is evaluated when the call begins; the unconditional write at its end takes an integration that its workflow has put back in Generating or Draft to Running or Degraded, and so into the runner's list again.
- **PresentFilesFire** (`src/packages/runner/src/sftp-watcher.ts:135`): "Restarting the runner will refire for every file currently present" (src/packages/runner/src/sftp-watcher.ts:14). After a restart the first listing primes the set: the present files are marked as seen and never fire, one that arrived while the runner was down included.
- **FiredFilesHaveRows** (`src/packages/runner/src/sftp-watcher.ts:167`): "Mark seen even on failure ... The run row records the failure for operator visibility" (src/packages/runner/src/sftp-watcher.ts:165). fireIntegration throws before createRun when the integration left the firable states after the tick listed it: the name is marked, and no run row exists.
- **NoTaskAfterShutdown** (`src/packages/runner/src/index.ts:53`): "SIGTERM stops the sync loop, scheduler, and SFTP poller" (src/packages/runner/src/index.ts:16). sync.stop only clears the timer; a reconcile that awaits a query registers cron tasks after scheduler.stopAll, while the webhook server and the pool are being closed.
- **ReturnedIsTornDown** (`src/packages/egress-proxy/src/index.ts:49`): "Tear down an execution's state (sandbox executor calls this after run)" (src/packages/egress-proxy/src/index.ts:49). SandboxExecutor.run never sends the DELETE; the execution stays registered until its TTL has passed.
- **ForwardedCallsAreReported** (`src/packages/egress-proxy/src/proxy.ts:251`): "The proxy is the source of truth for what actually went out" (src/packages/sandbox/src/executor.ts:246). handleProxyRequest makes the entry after the target has answered; code that exits without waiting for the answer yields a succeeded run whose egress_calls lack a call that went out, also with failClosedOnProxy.
- **A run's log may be emptied by its code** (`src/packages/egress-proxy/src/proxy.ts:71`): the log is called "the source of truth for what actually went out" (src/packages/sandbox/src/executor.ts:246); a second `POST /execution` for the same id, which the code itself may send (src/packages/sandbox/docker/entrypoint.js:32), replaces the entry by an empty one, and `GET /log` goes on to answer 200, also with failClosedOnProxy.
- **A refused kill is not repeated** (`src/packages/sandbox/src/executor.ts:226`): the timer sets the outcome to timeout and asks Docker once; if that request fails the error is dropped, the code runs on without a limit and `run` waits for it.
- **Under E2B the code may write its own log** (`src/packages/sandbox/src/e2b-executor.ts:216`): the first marked line of stdout is taken for the wrapper's, and the code may have printed one before. The runner stores it as the run's egress calls.
- **OneVerdictPerCall** (`src/packages/egress-proxy/src/proxy.ts:269`): "Every forward attempt produces an EgressCall", with "status_code: null when blocked" (src/packages/egress-proxy/README.md:64). The entry of an answered call is made before its body is read; when the body breaks off, the catch block makes a second entry that says blocked.
- **EndedLeavesNoTmpdir** (`src/packages/sandbox/src/executor.ts:264`): "8. Cleanup the host tmpdir. AutoRemove handles the container." (src/packages/sandbox/src/executor.ts:263). The rm is not in a finally: when createContainer, attach or start throws, the directory with the source stays on the host.
- **ReturnedIsNotUp** (`src/packages/sandbox/src/executor.ts:240`): "wait can throw if the container was already removed by AutoRemove after a kill. That's fine" (src/packages/sandbox/src/executor.ts:235). The catch takes every error of wait for that one, and the finally clears the kill timer: if the request to Docker broke off, the code runs on without a time limit after the run was reported.
- **The log view never shows live lines** (`src/packages/ui/components/LogStream.tsx:81`): the comment lists "message - log line (default)" (src/packages/ui/components/LogStream.tsx:71); the server names its events stdout, stderr and status (src/packages/api/src/routes/runs.ts:132), for which the component has no listener.
- **An unmounted log view may reconnect for ever** (`src/packages/ui/components/LogStream.tsx:65`): "done - integration is idle; close cleanly, don't retry" (src/packages/ui/components/LogStream.tsx:72). If listRuns fails after the component was unmounted, the catch falls through to a new EventSource that nobody closes: its done listener returns early, and the browser reconnects.
- **A draft need not be validated** (`src/packages/agent/src/agentic-agent.ts:295`): "The platform's Zod schema will reject if validation didn't pass" (src/packages/agent/src/agentic-agent.ts:238). The arguments of the last submission are taken whether or not a validation ran.
- **A reused VM is not always tidy** (`src/packages/sandbox/src/e2b-executor.ts:139`): "Either way the call ends with the sandbox in a clean state" (src/packages/sandbox/src/e2b-executor.ts:57). A failed rm is ignored, and a command that timed out may go on; the next run overwrites the source before it runs, which is why `KeepsContract` holds all the same.
- **Ids of the stand-alone API** (`src/packages/api/src/temporal-client.ts:248`): the adapter strips `integration-` from ids that the routes build with the prefix `wf-`; signals then go to an execution that does not exist. The shim of `packages/platform` strips both. `Clients` has both (`Strips`): with the adapter no approval arrives.
- **A second start is not told apart** (`src/packages/api/src/temporal-client.ts:235`): the real client says that a second call "will fail with WorkflowExecutionAlreadyStartedError from Temporal, which the API converts to a 409" (src/packages/workflows/src/client.ts:46); nothing does, the request fails with 500.
- **The stub ignores the state it starts from** (`src/packages/api/src/temporal-client.ts:168`): any request walks its statements whatever the row says, and the handles are lost with the process, so an approval after a restart fails although the row says Tested. What holds all the same is `Lifecycle`.
- **Reject never works from the page** (`src/packages/ui/lib/api.ts:52`): the page sends `reason: ''`, the route wants at least one character (src/packages/api/src/routes/integrations.ts:22) and answers 400.
- **Polling may stop too early** (`src/packages/ui/components/IntegrationDetail.tsx:75`): the comment says that the page polls while the workflow is moving (src/packages/ui/components/IntegrationDetail.tsx:66). An answer that still says Draft or Tested ends the interval although the workflow has started; a failed read shows not found and is not tried again. `PollingCatchesUp` holds of pages that show a transitional state.
- **A test that did not start** (`src/packages/ui/components/SubmitForm.tsx:86`): the error of `POST .../test` is swallowed and the page of a Draft nobody is testing is opened.
- **A secret may be written without its event** (`src/packages/db/src/secrets.ts:137`): "Each read and write emits an audit event" (src/packages/db/src/secrets.ts:5). The write is committed before the record, which may fail; only an answer implies its event (`AnswersAreTraced`).
- **Seeding may overwrite a secret** (`src/packages/platform/src/index.ts:38`): a read that throws is taken for one that found nothing, and the default is written over what was there.
- **tenant.created may be lost** (`src/packages/db/src/seed.ts:59`): a container that dies between its insert and its event is not made up for: the next one finds the tenant and records nothing.
- **Secrets of a fire are read one by one** (`src/packages/runner/src/executor.ts:71`): a rotation between two reads hands the sandbox one old and one new value.
- **An approval may go without its event** (`src/packages/api/src/routes/integrations.ts:144`): the signal is sent before the record; if that fails the request answers 500 and the approval stands.

## Not modelled, and why

- **Repository**: tenants, users and plain reads change nothing others depend on;
  tenant scoping is a WHERE clause on each statement. `listSecretNames` is such a
  read; encryption at rest is a conversion nobody's control depends on, but for
  the read that fails to decrypt, which `Secrets` has.
- **Agent conversation**: a language model; its outcome, a version or an error, is
  a choice in `IntegrationWorkflow`. Its VM is in `E2bRun`; the subprocess of
  `cli-agent.ts` and the parser answer one call each and keep nothing.
- **Webhook HTTP layer**: a call of `fireIntegration`, which `Trigger` of `Runner` is.
- **User interface**: rendering, the sidebar and the list of integrations, which
  read and keep nothing.
- **Mock systems, infrastructure**: stand-ins for what is external to the platform,
  and configuration.
- **Data**: sources, payloads, headers, stdout, hostnames and cron expressions are
  model values, or choices where a decision depends on them.

## Plan

Done: every component that keeps state others rely on, with its faults; four
abstract specifications (`Lifecycle`, `AuditLog`, `Health`, `SandboxContract`), all
refined by the detailed modules, all four refinements proved; and every safety
property of the runs proved for all values of the constants.

Left: the composition of `CronTriggers`, `SftpWatcher` and the webhook with `Runner`:
what a trigger that was just deregistered may still fire.
