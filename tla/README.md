# VmOrbit: TLA+ models and proofs

VmOrbit is a Go server that manages virtual machines on several kinds of
hypervisor (VMware vCenter, ESXi, Proxmox, Nutanix) behind one HTTP API.  Nearly
everything it does to a hypervisor is asynchronous: a request writes a *task* row,
pushes its ID to Redis, and a pool of goroutines executes it.  Around that core sit
a scheduler, a workflow engine, approvals, notifications and a WebSocket hub.
There are no Go tests in the repository; the reference for every definition
below is the code under `src/internal`.

This directory holds TLA+ modules that model the parts of the server whose
correctness depends on the order of steps of several goroutines, requests and
crashes, TLC configurations that check them on small instances, and TLAPS proofs of
the most important invariants for every value of the constants.

## 1. Inventory

| component | state | operations | interacts with | hard because |
|---|---|---|---|---|
| task engine (`internal/task/engine.go`, `queue.go`, `throttle.go`, `context.go`, `service/task_service.go`, `repository/task_repo.go`) | task rows (`status`, `retry_count`), ten Redis lists, `task:lock:*`, `task:cancel:*`; per process: workers, semaphores, retry timers | create, enqueue, dequeue, lock, execute, finish, retry, cancel, poll the database | everything that enqueues | several copies of one ID, locks without owner, TTLs, unconditional status writes, crashes |
| task handlers (`task/handlers.go`, `provisioning_handlers.go`) | VM rows, provisioning jobs | power, delete, snapshot, sync, clone | providers, repositories | shared provider sessions, partial failure |
| bulk and environment tasks (`task/bulk_handlers.go`, `environment_handlers.go`) | child task rows | fan out, wait for children | task engine | parents occupy the workers their children need |
| provider registry and sessions (`provider/registry.go`, `provider/base.go`) | one shared provider object per type, its current connection | Connect, operation, Disconnect | handlers, services, console | one connection field for all hypervisors of a type |
| provider operations (`provider/{vmware,esxi,proxmox,nutanix}`) | none but the connection; remote tasks at the hypervisor | some twenty operations, each a sequence of remote calls | hypervisors | lost replies, retries, refusals, waits that end before the task does |
| provider manager (`provider/manager.go`), health tracker (`provider/health_tracker.go`) | connection entries, attempts, failure counts | register, health check, reconnect with backoff | providers | reconnect racing removal |
| scheduler (`scheduler/engine.go`, `cron.go`) | schedules, next/last run | tick, dispatch, compute the next run | task engine, policies | a slow tick fires a schedule twice; crash between dispatch and update |
| workflow engine (`scheduler/workflow_engine.go`) | workflow runs, step results | trigger, execute steps, retry, cancel | task engine, event bus | check-then-create of runs, crash leaves runs running |
| policy engine (`policy/engine.go`, `service/policy_service.go`) | policies, conditions, assignments | create, update, enable, disable, assign, evaluate | its own endpoint, approvals | row and conditions written apart, whole rows saved back, first match of a list read in three statements |
| approvals (`service/approval_service.go`, `policy/expiry.go`) | requests, steps | submit, approve, reject, cancel, escalate, expire | policy engine, task engine | read, check, write back the whole row |
| event bus and WebSocket hub (`infrastructure/messaging/eventbus.go`, `websocket/hub.go`) | handlers; clients, rooms, send channels | publish; register, join, broadcast, unregister | every service, browsers | channels closed under senders, slow clients |
| notifications (`notification/dispatcher.go`, `sender.go`) | rules, history, last triggered | dispatch, throttle, retry | event bus | throttle checked before and written after delivery |
| console sessions (`service/console_service.go`, `handler/console_proxy_handler.go`) | session cache, rows | open, validate, close, expire | providers | cache and database written apart |
| authentication and users (`service/auth_service.go`, `user_service.go`) | user rows with roles, refresh tokens in Redis | login, refresh, logout; create, update, assign and revoke roles | cache, database | a token is read and then deleted; a login saves the user it loaded |
| request limits (`api/middleware/ratelimit.go`) | counters, breaker state, de-duplication markers | admit, record, expire | HTTP API | window boundaries, half-open state, stale timers |
| backpressure and shutdown (`task/throttle.go`, `task/engine.go` Stop, `bootstrap/app.go`) | sampled depth, wait groups | sample, admit, stop | task engine | decision on an old sample; Stop waits for blocked workers |
| environments (`service/environment_service.go`) | environment, member and dependency rows, runs and steps | edit, plan an order, start an orchestration | task engine | cycles, several kinds of dependency, saved copies |
| provisioning and templates (`service/provisioning_service.go`, `template_service.go`) | jobs, templates | clone, provision, retry, edit | task engine, providers | request and handler save the same row |
| inventory sync (`service/hypervisor_service.go`) | hypervisor, VM, host, cluster, datastore and network rows | register, update, delete, test, sync | providers | overlapping syncs, soft-deleted rows, VMs made meanwhile |
| provider health (`service/provider_health_service.go`, `health/engine.go`) | one health row per hypervisor | check, score, record a sync | providers, sync | three writers of whole rows |
| analytics, tags, roles, audit | rows | CRUD, aggregation | database | one statement per request |
| HTTP handlers, router, configuration, logging, metrics, seed and debug commands | none of their own | decode, call a service, encode | services | pure I/O |
| frontend (`frontend/`) | browser state | views over the HTTP API | HTTP API | presentation |

The properties that make a component correct are stated with its module below;
`PROJECT.json` lists the hazards at their lines.

How the parts interact: HTTP handlers call services; services write rows and call
`Engine.Enqueue`; workers run handlers, which open a provider session, act, write
rows and publish events; the event bus runs every subscriber in a goroutine of its
own and the hub, the notification dispatcher and the workflow engine subscribe;
scheduler, expiry worker, health engine and fallback poller are tickers that read
rows and act on them.  No two of them share a lock; Redis keys and single SQL
statements are all the atomicity there is.

## 2. `TaskEngine`: the task engine

*Source:* `internal/task/{engine,queue,throttle,context}.go`,
`service/task_service.go`, `repository/task_repo.go`, and `enqueueVMTask` for how a
task is born.

*State.*  Durable: `status` (the row), `queue` (ten Redis lists, here
`MaxPriority`), `locked` (`task:lock:*`, which stores no owner), `cancelFlag`
(`task:cancel:*`).  Per process, lost in `Crash`: `pc`/`job`/`outcome` of every
worker, `sem` (tokens in the provider semaphores), `timers` (armed
`EnqueueDelayed`s), the poller's position, half-done requests.  `done`, `failures`,
`cancels`, `crashes` and `faults` are history variables; `retry_count` is a constant
0, because no statement writes the column.

*Actions.*  One per Redis call or SQL statement:

| actor | actions | code |
|---|---|---|
| creating request | `Create`, `EnqueuePush`, `EnqueueRejected`, `EnqueueMark` | `enqueueVMTask`, `Engine.Enqueue` |
| cancelling request | `CancelRead`, `CancelSignal`, `CancelMark` | `taskService.Cancel` |
| worker | `Dequeue`, `AcquireLock`/`DropTask`, `LoadTask`/`LoadFailed`, `AcquireSlot`, `NoHandler`, `Checkpoint`, `HandlerReturn`, `Finish`, `ReleaseSlot`, `ReleaseLock` | `Engine.worker`, `processTask` |
| poller | `PollList`, `PollAcquire`, `PollRelease`, `PollPush`, `PollMark`, `PollEnd` | `rehydrateFromDB` |
| time | `TimerFire`, `LockExpire` | `EnqueueDelayed`, `LockTTL` |
| environment | `Crash` | restart of the process |

A failed call is a `Fault`; where the code writes `_ =` before it the step goes on
without the effect.  The back-pressure guard works on a sampled depth, so
`EnqueueRejected` is possible at any time.  A handler is a checkpoint
(`IsCancelled`) followed by an outcome; what it does to the hypervisor is
`ProviderSession`'s subject.

*Abstractions.*  `SlowCalls = FALSE` says that a slot wait stays within `LockTTL`
and that deferred calls end before the shortest backoff (5 s).  With `TRUE` the lock
can expire under a worker that waits for a slot, and `OneOwner` fails: it is the one
assumption of that theorem.

*Properties.*  `OneOwner` (no two workers between lock and unlock of a task),
`ProviderConcurrency` (semaphore never exceeded), `LockHasHolder` and
`RunningHasWorker` (no orphaned key or row while nothing fails), `RetryNotLost` (a
row that waits for a retry is still on its way), `EveryTaskSettles` (liveness).

| run | instance | shows |
|---|---|---|
| `task_lifecycle` | 1 task, 2 workers, 1 handler failure, 1 cancel, 1 crash, 1 failed call; or 2 tasks of one hypervisor, 1 slot, one of them without a handler, 1 failure and 1 crash (`Contained` keeps the two apart) | the five safety properties; two workers suffice because what can go wrong is two holders of one task's copies, and the poller makes the second copy |
| `task_liveness` | 2 tasks, 2 workers, 1 slot, no crash | every task settles |
| `task_at_most_once` (violation) | 1 task | the poller pushes a second copy between `LPUSH` and the `queued` write; the first run completes and the second runs the handler again |

*Fairness.*  Weak fairness of each worker, of the timers and of the poller: they
are goroutines and runtime timers with nothing that can starve them.  Nothing is
assumed of clients, of crashes or of lock expiry.

*Seen while modelling, without a run of its own:* `Enqueue`'s late `queued` write,
`Cancel` and the poller can each overwrite a final status; rows that are `queued`,
`running` or `retrying` at a crash are not picked up again, because `ListPending`
returns pending rows only.

## 3. `ProviderSession`: sessions on a shared provider object

*Source:* `provider/registry.go`, `provider/base.go`,
`provider/vmware/{provider,client}.go`, the power, delete and sync handlers and
services that use them.

*State.*  The object all callers of a type share: `conn` (`p.conn`, unprotected) and
`connected` (behind its own lock); the logins at the hypervisors (`dials`, `host`,
`open`); per session its kind, target, own connection and the connection its VM
object is bound to; per hypervisor one VM (`power`) and its row (`row`).

*Actions.*  `Start`, `Dial`, `Store`, `Flag` (Connect), `EnsureConnected`, `FindVM`,
`AssertPowerState`, `Operate`, `WriteRow`, and `Disconnect`, `Logout`, `Clear`,
`Unflag`.  Each touches one shared field or makes one remote call.  A nil `p.conn`
that is dereferenced is `Panic`: a request's panic is caught by `Recovery`, a
worker's ends the process.  A remote error is always possible; a `Fault` is a reply
lost after its effect or a row write that fails.

| run | instance | shows |
|---|---|---|
| `session` | 2 sessions, 2 hypervisors; overlapping ones of three kinds with 3 connections, one after another of all eight kinds with 4 connections and 1 fault | whatever overlapped, the object is disconnected when all are done (`QuietDisconnected`); a session that nobody overlaps is undisturbed by earlier ones (`LoneSession`); as long as none overlapped the row agrees with the hypervisor afterwards (`RowMatches`) |

Two sessions and two hypervisors are the least with which connections can be
confused; three connections let a third session meet what two overlapping ones left
behind.  A deadlock is impossible: a session can always end.

*Seen without a run:* the synchronous `DELETE` never connects, so it works only on
the connection of someone else; overwritten connections are never logged out.

## 4. `WebSocketHub`: event bus, hub and pumps

*Source:* `websocket/hub.go`, `api/handler/ws_handler.go`,
`infrastructure/messaging/eventbus.go`.

*State.*  The hub's `clients`, `rooms`, `userConns` and its three channels; per
client its rooms, send buffer, whether the channel is closed, its connection and
its two pumps; the bus's handler goroutines still to deliver (`inflight`).

*Actions.*  `Handle`, `JoinRoom`, `ReadError`, `ReadEnd`, `Write`, `WriteEnd`, `Drop`
of a connection; `Publish` and `BroadcastToRoom` of the bus; `RunRegister`,
`RunUnregister`, `RunBroadcast` and `Stop` of the hub goroutine, whose `select` takes
any ready channel.  A send on, or a close of, a closed channel panics and ends the
process (`hub = "crashed"`).

| run | instance | shows |
|---|---|---|
| `hub` | 2 clients of one user, 1 room, all capacities 1, 2 events | `UserConnsCover`, `TimelyJoinsAreSafe`, and the pumps of a dead connection end (`PumpsEnd`) |

Capacity 1 makes every channel full at once, so each blocking and each slow-client
path occurs; one room is enough, because rooms interact only through the client.

*Fairness.*  The pumps and the hub goroutine run (weak fairness); a goroutine that
is blocked on a full channel gets its turn (strong fairness of `ReadEnd`: Go queues
blocked senders in order); a read of a dead connection fails by its pong deadline.

*Seen without a run:* a slow client that is removed keeps its share of `userConns`,
and the declared limit per user is never compared with it, which is why
`UserConnsCover` is an inequality.

## 5. `Approval`: approval chains and expiry

*Source:* `service/approval_service.go`, `policy/expiry.go`,
`repository/approval_repo.go`, `domain/model/approval.go`.

*State.*  `status` of each request row, `step` of each step row, `history` (the audit
trail), `making` (how far `Create` has got), `due` (deadline passed); per actor the
operation, request and step it has read; the expiry sweep.  `early` and `faults` are
history variables.

*Actions.*  `Create`, `CreateStep`, `CreateEnd`, `CreateCut`; an actor's `Begin`
(reads a pending request), `ReadStep`, `ResolveStep`, `MoreSteps`, `Save` (whole row,
unconditional), `Record`, `Cut`; `PassDeadline`; the worker's `ListExpired`,
`ExpireStale`, `ExpireRecord`.

| run | instance | shows |
|---|---|---|
| `approval` | 1 request with a chain of 3, 2 actors, 1 fault | `ChainInOrder`, `ApprovedIsResolved`, `NeverPendingAgain`, and `ExpiryHappens` |

Requests do not interact except in the sweep's loop, so one is enough; three steps
let two actors be at different steps with one left.

*Fairness.*  Weak fairness of the expiry worker, a ticker in its own goroutine.

*Seen without a run:* an escalated request is no longer pending, so nobody can
approve, reject, cancel or expire it.

## 6. The provider operations and the contract of `port.Provider`

*Source:* `provider/{vmware,esxi,proxmox,nutanix}/{provider,client,mapper,retry,task}.go`.

`ProxmoxProvider`, `NutanixProvider`, `VMwareProvider` and `ESXiProvider` translate
each operation of a provider into a sequence of steps (`ProviderSteps`): check the
flag, look something up, send a request, wait for its task, assert a state, gather
lists in goroutines; with the error code each error is wrapped in, the retry policy
around it and where control goes after an error.  `ProviderCalls` runs such a program
against a hypervisor that executes requests as remote tasks: `SendOK`, `SendRefused`,
`SendFails`, `ReplyLost` (the request was accepted and the client is told it was not,
so that it may be sent again), `WaitEnds`, `WaitGivesUp`, `Succeed` and `TaskFails` of a
task, `Expire` of the context, and `Admin`, somebody else who powers VMs on and off or
removes them.

`ProviderPort` is the abstract specification, what a caller of `port.Provider` may rely
on: an operation that returns `nil` has had its effect by then; one that returns an
error promises nothing, and its effect may come later.  `Contract` is the refinement:
the effects are those of the tasks that ended well, every error code is `error`.

| run | instance | shows |
|---|---|---|
| `provider_calls` | each operation of each provider, 5 VMs, 2 disks, 2 faults, 1 change by others | `Contract` (refinement); `CreatedOnce` (a create sent again makes no second VM, where the provider chooses the identity); `AnswersTruthful` (a status returned and a snapshot returned were true during the call); `DisksFollowClone` (a failed ESXi clone leaves no disks) |

One call at a time is enough, because a call leaves nothing in the client but the
connection (`ProviderSession` has the overlaps).  Two faults let a cleanup fail, a
retry be lost again, or a wait give up after a lost reply.  Three attempts of the retry
loop need a budget of two failures.

## 7. What acts on its own: `Scheduler`, `Cron`, `WorkflowEngine`, `Notifications`

`Scheduler` (`scheduler/engine.go`, `schedule_service.go`, `schedule_repo.go`): one row,
the goroutines of `fire` on their copies of it, the requests on theirs.  `Cron`
(`scheduler/cron.go`): the search for the next minute, one action per iteration, on a
calendar with short hours, days and months of different length; the reference is "the
least matching minute".  `WorkflowEngine` (`scheduler/workflow_engine.go`): events, the
count and the insert of a run, its actions with retries, crash.  `Notifications`
(`event_integration.go`, `notification/`): translation of events, rules as they were
listed, throttle, attempts, one deadline.

| property | says |
|---|---|
| `SlotFiredOnce` | a due time is dispatched once, except after an overlap, crash or stale save that the history variable names |
| `RunsWithinMax` | a schedule left alone fires at no more times than `max_runs` |
| `DisabledStaysQuiet` | a schedule disabled without overlap is never due, although a goroutine that still fires writes `active` |
| `NextIsLeast` | no jump over months, days or hours skips a matching minute |
| `EventRunsWithinMax` | `max_concurrent_runs` holds unless one count fell between another's count and insert, failed, or the limit was changed |
| `RunningIsAlive` | only a crash or a failed last write leaves a run running |
| `RunTellsOutcome` | status, log and actions of a run agree, with `continue_on_error` and retries |
| `ThrottleHolds` | deliveries of a rule keep its throttle unless they raced, timed out or were overwritten |

Run `automation` checks them; the four share no row, so a behaviour runs one of them.
Two goroutines and two edits are the least that overlap with a third step between; the
clock reaches a second due time.  The calendar is a table of the days on which the months
begin, so that years may differ in length.  In the run it has hours of three minutes, days
of three hours and three months in a year, with a day more in the second month of the
second year (the leap day); the search looks two years ahead (four in the code) from each
minute of the first two days, with lists, ranges, steps, a day that only the longer month
has and a month that does not exist.

The properties are conditional because the code does not exclude the races: the
condition lists the ways past the property that the code leaves open, kept in a
history variable, and the property says that there is no other.

## 8. Tasks made of tasks: `Environment`, `Orchestration`, `Provisioning`

`Environment` (`environment_service.go`): members, dependencies and the plan, Kahn's
algorithm one iteration per step with an unstable sort.  `Orchestration`
(`bulk_handlers.go`, `environment_handlers.go`, `enqueueBulkTask`): parents that occupy
a worker while they wait for other tasks of the same pool; the engine is reduced to
taking a task, finishing it and the poller's re-enqueue (`TaskEngine` has the rest).
`Provisioning`: one job, the request that saves its copy after the task is enqueued, the
handler that saves its own, and a template's row.

| run | instance | shows |
|---|---|---|
| `orchestration` | plans of 3 VMs; a pool of 2 workers with a bulk task of two VMs, one of one VM and two upsets, an environment of two steps and two upsets, two environments at once; one job with 2 failed statements or cancellations | `OrderRespected`, `ParentWaits`, `StepsTell`, `JobMatchesTask` |
| `orchestration_liveness` | the same pool with fewer upsets | `ParentsEnd`: two parents on two workers, whose children wait in the queue, still come to an end |

*Fairness.*  `PoolFairness`: workers take what is queued, the poller polls, a leaf task
ends, a parent's handler goes on or its context expires, a retry timer fires.  Expiry is
fair because `context.WithTimeout` is a runtime timer; it is what ends the parents that
block each other.

## 9. Rows and counters: `Inventory`, `ProviderHealth`, `Policies`, `Access`, `RequestLimits`

| module | source | what it has |
|---|---|---|
| `Inventory` | `hypervisor_service.go`, `hypervisor_repo.go`, `vm_repo.go`, `infrastructure_repo.go`, `datastore_repo.go` | a hypervisor's row, its tables, two synchronisations statement by statement, VMs made and destroyed meanwhile |
| `ProviderHealth` | `provider_health_service.go`, `health/engine.go` | the health row with score and status, checks and the goroutine after a sync, each reading and saving all of it |
| `Policies` | `policy/engine.go`, `policy_service.go`, `policy_repo.go` | policies, conditions, assignments; an evaluation in four statements |
| `Access` | `auth_service.go`, `user_service.go`, `user_repo.go` | a user with roles; refresh tokens |
| `RequestLimits` | `api/middleware/ratelimit.go` | fixed windows per layer and key; the marker that keeps synchronisations apart and its timers |

| property | says |
|---|---|
| `QuietSyncMirrors` | a sync that nobody disturbed leaves the VMs it listed, less the ones that were ever soft-deleted, linked and counted, whatever came before it |
| `HealthTells` | the status of a health row follows from its columns; without a lost update it tells how the last sync ended |
| `LoneEditorKeeps` | requests on a policy that do not overlap leave what they asked for, conditions included |
| `FirstMatchDecides` | an undisturbed evaluation is decided by a first applying policy of the tables, with the right violation |
| `RevokedStaysRevoked` | without lost updates a revoked role, disabled account or changed password stays so |
| `SpentStaysSpent` | a refresh token is exchanged once, unless two requests used it at once or Redis failed |
| `SyncsSpaced` | synchronisations are a window apart unless an older request's timer swept the marker; a limiter lets through twice its limit in a window at most |

Run `services` checks them; again a behaviour runs one of the five.  Bounds: two
requests or synchronisations at a time (the races are between pairs), two VMs, two
policies of any of three drafts, three tokens (so that a token made from a token can be
exchanged), a clock of six ticks for a marker's window of three.

## 10. `Shutdown`

*Source:* `cmd/server/main.go`, `bootstrap/app.go` `Stop`, the `Stop`s and loops of the
task, scheduler and analytics engines and of the expiry worker.

Run `shutdown` expects a violation of `StopReturns` ("Stop gracefully shuts down all
components", `bootstrap/app.go`): `Stop` waits for the workers; an idle worker is in
`BRPOP` without a timeout, looks at `stopCh` only before it, and the context that would
end the call is cancelled by `main` only after `Stop` has returned.  Fairness: every
goroutine that can go on does; a `select` that finds its `stopCh` closed again and again
takes it (strong fairness of `LoopStops`); no signal, request or Redis error is
required.

## 11. Proofs

All proofs hold for every value of the constants that meets the named assumptions,
and for unbounded numbers of failures, requests and steps, since the bounds are arbitrary
naturals.  The assumptions say of each constant what its declaration says (a bound is a
natural number, a table has entries of the right shape, sets that are counted are finite);
the ones with content are `OrchestrationAssumption` (parents that share a pool have
different children, a parent's children are pairwise different: tasks get fresh UUIDs),
`LimitsAssumption` (a limiter lets at least one request through),
`NotificationAssumption` (there is a rule) and `CronAssumption` (hours, days, weeks and
years are not empty, months neither, and the calendar reaches two years beyond the last time
at which a search goes on).  TLC evaluates all of them in the runs.

Each module of sections 7 to 9 has a specification of its own (`SchedSpec`, `CronSpec`,
`WfSpec`, `NtSpec`, `EnvSpec`, `PoolSpec`, `JobSpec`, `AccSpec`, `LimSpec`, `InvSpec`,
`HpSpec`, `PolSpec`); a theorem is about that one, and the runs `automation`, `orchestration` and `services`
choose between them in the initial state.

Nearly every property is conditional on "no overlap" or "no failed statement", so its
inductive invariant has the same shape: as long as the history variable has not recorded
the excuse, every copy of a row that some process holds is still the row, or differs from
it exactly by what that process is about to write.

`TaskEngineProofs`

- `TypeCorrect`: `TypeOK` is inductive.
- `OneOwnerCorrect` (assumes `~SlowCalls`): `OneOwner` alone is not inductive,
  because `ReleaseLock` and the poller's probe delete the key whoever set it.
  `LockInv` adds that the key stands while any worker or the poller relies on it, and
  that the two exclude each other.
- `ProviderConcurrencyCorrect`: `SlotInv` says that `sem[h]` *is* the number of
  workers between `Acquire` and release; every path out of `processTask` must keep
  that equation.  Needs finitely many workers.
- `LockHasHolderCorrect`, `RunningHasWorkerCorrect`: inductive with `TypeOK`.
- `RetryNotLostCorrect` (assumes `~SlowCalls`): a worker that finds the lock taken drops
  its copy, which is harmless because the lock has a holder (`LockHasHolder`) and a holder
  about to leave has a timer armed (`RetryInv`).  The hypothesis is needed: a timer that
  fires before the deferred `ReleaseLock` pushes a copy which another worker then drops.

`ProviderSessionProofs`

- `TypeCorrect` through `TypeInv`: which positions each kind of session may be in.
- `QuietDisconnectedCorrect` through `Minded`: while the shared object holds a connection,
  some session still has `Disconnect` ahead of it.
- `LoneSessionCorrect` through `LoneInv`, which follows the connection the only session
  under way has dialled, stored and flagged.
- `RowMatchesCorrect` through `RowInv`: what the session under way still owes the row.

`WebSocketHubProofs`

- `TypeCorrect`, which includes that no send buffer exceeds its capacity.
- `TimelyJoinsAreSafeCorrect` through `TimelyInv`: besides the property, `rooms` and
  `client.rooms` must agree (otherwise `RunUnregister` misses a room) and a client
  passes through `register` once and before it is ever closed.
- `UserConnsCoverCorrect`: inductive with `TypeOK`; needs finitely many clients.

`ApprovalProofs`

- `TypeCorrect` through `TypeInv`, which ties an actor's position to its operation.
- `NeverPendingAgainCorrect`: an action property.
- `ChainInOrderCorrect` through `ChainInv`: `Create` inserts rows in order
  (`InOrder`), and the step an actor has read stays the first that can be pending
  (`FirstPending`), since no row becomes pending again.
- `ApprovedIsResolvedCorrect` through `ApprovedInv`: without faults and early actors,
  all rows exist before anyone acts, and an actor about to approve has seen none
  pending.

`ProviderCallsProofs`

- What the proofs need of a step program is stated once (`Sound`: it stays within its
  bounds, every way through it that ends without an error passes the wait for the request
  that does what the operation promises, it asks for nothing else) and shown for each of
  the operations of the four providers, through lemmas about how programs are put together
  (`Cat`, `TolerantKeeps`, `OnErrorKeeps`, ...).  The loops of the ESXi clone are functions
  over the positions of their steps, so that they can be reasoned about for any number of
  disks.
- `TypesKept`: control stays at a step of the program, every task belongs to a call.
- `ContractKept`, the refinement `Spec => Contract`, through `MayInv` (no task or question
  to the guest that the call's operation does not allow) and `DeliveryInv` (behind the
  step that waits, the effect is there): each step of the interpreter is a step of
  `ProviderPort` or a stutter.
- `OneVM` (`CreatedOnce`) through `MakingInv` and `CountInv`: how many tasks that make a VM
  the call can have left by the attempt it is in, and on Proxmox that all of them carry the
  ID that was allocated before the first.
- `AnswersTrue` (`AnswersTruthful`) through `HistoryInv`, `LookedInv` and `SyncInv`: the VM
  last read was in the state it was read in, and the list of VMs is not yet there, missing
  or complete, in whatever order the goroutines end.
- `DisksKept` (`DisksFollowClone`) through `CloneInv`: while at most one failure has
  happened, the only clone is in one of six stages, each of which says exactly which disks
  are on the datastore, which are on the list `copiedDisks`, and that no task but the one
  waited for is running.  In the stage that cleans up the one failure is already used up, so
  nothing can go wrong there.

`AutomationProofs`

- `SchedTypeCorrect`, `WfTypeCorrect`, `NtTypeCorrect`.
- `SlotFiredOnceCorrect` through `SlotInv`: every time dispatched so far lies before the
  next one, the row's or the one a goroutine is about to write; `RunsWithinMaxCorrect`
  through `CountInv` (`run_count` counts the times fired, the one in progress aside);
  `DisabledStaysQuietCorrect` through `QuietInv` (nobody is about to write an enabled row
  over a disabled one).
- `EventRunsWithinMaxCorrect` through `LimitInv`: a handler between count and insert holds
  the last free place alone.
- `RunningIsAliveCorrect` and `RunTellsOutcomeCorrect` through `ExecInv`, which relates
  the row of a run, its log and the position of its goroutine action by action.
- `NextIsLeastCorrect` through `CronInv`: nothing before the candidate matches.  It rests on
  lemmas about the calendar that hold for any table of months: within a day, an hour or a
  month the fields that a jump looks at are constant (`SameDay`, `SameHour`), and
  `FirstOf` is the first day of the next month in the set (`NextMonthIs`, `JumpMonth`).
- `ThrottleHoldsCorrect` through `ToldInv`: rows tell the time of the last delivery, and
  so do a goroutine's copies of the rules ahead of it that nobody has delivered since.

`ServicesProofs`

- `AccTypeCorrect`, `LimTypeCorrect`, `InvTypeCorrect`, `HpTypeCorrect`, `PolTypeCorrect`.
- `RevokedStaysRevokedCorrect` through `RowInv`; `SpentStaysSpentCorrect` through
  `TokenInv` (who may still use a token that is in Redis).
- `SyncsSpacedCorrect` through `MarkInv` (whose the marker is, and which timers may sweep
  it) and `PassInv` (which passes fall into the limiter's last window and how far the ones
  a limit before them lie back).
- `QuietSyncMirrorsCorrect` through `MirrorInv`: statement by statement, what an
  undisturbed synchronisation has made of each table so far.
- `HealthTellsCorrect` through `SoundRow` (score and counters within their bounds, status
  the function of them, in every copy) and `RaceInv`.
- `LoneEditorKeepsCorrect` through `EditInv`; `FirstMatchDecidesCorrect` through `EvalInv`
  and the lemma that an ordered listing of a finite set holds each of its members.

`OrchestrationProofs`

- `PlansOrdered` (`OrderRespected`) through `PlanInv`, whose part `Kahn` is the invariant of
  the loop: the degrees count the dependencies on VMs that have not been placed, queue and
  result name no VM twice, a placed VM is behind all it depends on, and none of the stuck
  VMs has come up.  When the queue is empty the VMs left support each other and so are the
  stuck ones (`KahnEnd`); `Stuck` is defined as the largest set whose members each depend
  on another of them.
- `PoolTypeCorrect`: besides types, what a worker may be doing with each kind of task.
- `ParentWaitsCorrect` through `Known` (a task is in the pool only when its row exists)
  and `WaitInv` (children a parent no longer waits for have ended).
- `StepsTellCorrect` through `TellInv`: a parent of an environment is queued and executed
  once (`Once`), before that its rows are untouched (`Fresh`), while it runs its counts are
  the steps it has passed (`Doing`), and afterwards the rows tell the rest (`Tells`).
- `JobTypeCorrect`, `JobMatchesTaskCorrect` through `JobInv`: what the job's row holds at
  each statement of the handler, over any number of retries.

For the proofs, the children of a parent are listed by a function over their positions
(`ByCreation`) and the operators on sequences use functions in place of recursion; both
compute what the code's `ORDER BY created_at` and loops compute.

Every safety invariant, action property and refinement that a passing run checks is stated
by one of these theorems.  Only model-checked are the liveness properties
(`EveryTaskSettles`, `PumpsEnd`, `ExpiryHappens`, `ParentsEnd`), which are out of the
prover's reach, and the two properties whose violation a run expects.

## 12. Disagreements between code and comments

Two runs expect a violation, `task_at_most_once` and `shutdown`; `PROJECT.json`
(`findings`) quotes the comments they contradict.  Further ones, seen in the code while
it was modelled, and reflected in the conditions of the properties:

- *Tasks.*  `processTask` increments `retry_count` on its copy and no statement writes
  the column, so a task with `max_retries` of 2 or more is retried for ever with the first
  backoff (`retry.go` documents 5 s, 25 s, 125 s).  `MaxRetries: 0` of a bulk parent
  ("parent is not retried") is omitted by the insert and becomes the column's default 3.
  The parent of a bulk task is inserted before its children and is pending: the poller may
  have it run in between, and it completes with the children it finds.
- *Sessions.*  `Registry.Get` returns a shared object, so two overlapping sessions of one
  type act on each other's hypervisor; the synchronous `DELETE` never connects.
- *Hub.*  A client that was removed as slow can still join a room, and the next broadcast
  sends on its closed channel.
- *Approvals.*  A failed `GetCurrentPendingStep` counts as "no step left" and approves a
  request with pending steps.
- *Environments.*  A clone step's payload has no `provisioning_job_id`, which the clone
  handler requires: such a step always fails.  A stop ignores `stop_after`.  After the
  timeout of a run its row stays running ("Updates the final run status").
- *Providers.*  Nutanix lists one page of 500; its create carries no identity and may make
  one VM per attempt.
- *Notifications.*  The engine publishes the task's type under `type` and the translation
  reads `task_type`: every failed task becomes the general event.
- *Inventory.*  The upsert never resets `deleted_at`, so a VM hidden by an overlapping
  sync stays hidden; `Save` after a deletion inserts the hypervisor again.
- *Policies.*  A policy created disabled is enabled and a priority of 0 becomes 100 (zero
  values with a default are omitted); windows across midnight never match; saving a
  policy brings back what was deleted since it was loaded.
- *Access.*  A login saves the user it loaded, over changes made meanwhile; a refresh token
  of a deactivated user is honoured.

## 13. Plan

1. `Approval`: that a recorded history names the status.
2. `ProviderCalls`: several calls of one session one after another on the same VM, with the
   tasks an abandoned call left behind (the proofs allow any number of calls, the run has
   one).
3. The request handlers of `api/handler` that write rows themselves, beside the services.

## 14. Not modelled

Services that run one statement per request (tags, roles, audit, analytics queries)
have no state between statements.  HTTP decoding, configuration, logging, metrics, seed
and debug commands are I/O.  The provider manager and the health tracker are never
given an entry by the server, the circuit breaker is never told an outcome, the Redis
rate limiter is on no route and the task de-duplicator has no caller, so their state does
not change.  The console proxy copies bytes between two sockets; the provider session
behind it is a kind of `ProviderSession`.  Reading rows for display, metrics of VMs and
the tables for graphs are left out everywhere.  The frontend presents the HTTP API.
