# A verification project for the charting platform

The repository is a self-hosted charting and strategy platform: a FastAPI
backend (`backend/app`) with ARQ background tasks, market-data providers and
alerts, a Vue frontend, and Strategy Lab v2 (`backend/app/strategy_lab_v2`), a
distributed back-testing system whose API, PostgreSQL, Redis streams and
dedicated worker processes must agree on who runs what.  This directory holds
TLA+ models of the parts where that agreement is decided, the TLC runs that
check them on small instances, and TLAPS proofs for every size.

Source paths below are relative to `src/backend/app/strategy_lab_v2/` unless
they start with another directory.

## 1. Inventory

### The core: dispatch, execution, settlement and recovery of search trials

| Component | State | Operations | Talks to |
|---|---|---|---|
| Worker slots, leases, observations (`workers.py`, `lifecycle.py`, `lease_observations.py`, `postgres_worker_state.py`) | rows for reservations, leases and the ordered observations of each lease | reserve, persist lease, observe (heartbeat), release capacity | every other part; each method is one transaction under row locks |
| Search queue (`search_state.py`, `postgres_search_state.py`) | one search row (cancellation, last transition time), one row per candidate (phase, current attempt, attempt count) | start, record terminal, request cancellation, append candidates | dispatch starts, handler and recovery close |
| Search dispatch (`application.py`, `search_dispatch_preparation.py`, `search_dispatch.py`, `postgres_search_dispatch.py`) | dispatch and admission rows, outbox message | assign a worker (persists a lease), then one transaction that starts, reserves, admits and enqueues | ledger, search queue, outbox |
| Worker service (`worker_service.py`, `worker_callbacks.py`, `worker_consumer.py`, `worker_process.py`) | the local state of one handler | replay lookup, lease and cancellation preflight, run with heartbeat and cancellation loops | terminal writer, recovery |
| Terminal writer (`worker_terminal*.py`, `worker_settlement.py`, `postgres_worker_settlement.py`, `postgres_result_completion.py`) | settlement receipts, result completions | settle, complete, release | ledger |
| Recovery (`worker_recovery*.py`, `postgres_worker_recovery.py`, `recovery.py`) | recovery receipts, retry attempts | receipt, release, persist retry, close prior, redispatch | ledger, search queue, dispatch |

How a trial flows: the API prepares a dispatch (lease, in its own transaction)
and commits it (candidate running, slot reserved, outbox message).  The relay
puts the message on a Redis stream; one worker of the consumer group takes it.
Its handler first looks for a committed result to replay, then checks lease and
cancellation, then runs the trial in a child process.  A finished run is settled
(settlement receipt, result completion, release of lease and slot, candidate
closed).  Anything else is recovered (recovery receipt, release, retry attempt,
prior attempt closed, retry dispatched).  Only a COMPLETE answer acknowledges
the stream entry; RETRY and REJECT leave it pending, to be delivered again.

What is hard here: the handler reads rows in one transaction and acts on them in
a later one; Redis delivers an entry again, to anyone, after 30 s; a worker can
stop between any two transactions; settlement of one consumer races recovery by
another; cancellation arrives at any moment; timestamps fixed at dispatch meet
rows that have moved on; lease expiry is a matter of whose clock reading is used.

What makes it correct: a serial worker never holds two slots; lease and slot are
released together, once; stored histories can always be loaded again; every
release has the receipt that explains it; a retry starts only after the release
of its predecessor; a candidate is closed once, on evidence; every entry is in
the end acknowledged, every slot freed, every candidate closed.

### Around the core

| Component | State | Operations | Hard behaviour | Correct when |
|---|---|---|---|---|
| Outbox relay and streams (`outbox*.py`, `redis_*.py`, `worker_consumer.py`, `postgres_event_transaction.py`) | outbox rows, idempotency hash, stream, pending list of the group; a relay task and a consumer task in each worker process | stage, relay, enqueue script, acknowledge row, reclaim, read, handle, acknowledge entry | relays race over rows they read earlier; replies are lost after Redis acted; a relay task dies alone | each message is one entry; published means on the stream; an entry leaves the group only when completed, and every entry does |
| Forward workers (`forward_worker_*.py`, `forward_state.py`, `application.py:transition_forward_instance`) | one row per forward instance, its lifecycle requests, slots and leases in the ledger | start, resume, pause, stop, warm-up completion, heartbeat, event dispatch | a call is four or five transactions and may stop between them; heartbeats race the release; calls race one another | an instance that runs has exactly one worker, one that was paused or stopped has none |
| Market refresh queue (`backend/app/services/market_refresh_queue.py`, `backend/app/tasks/data_tasks.py`) | refresh jobs with leased claims | enqueue, claim, complete, retry, defer | claims are committed by the first fetch of a batch, a failed save rolls back earlier completions, leases run out mid-batch, batches deadlock | only the owner ends a claim; nothing is worked on twice at once; every job is completed |
| Provider quota (`backend/app/services/provider_quota_coordinator.py`, `provider_runtime.py:execute_provider_call`) | windows with counters, reservations, symbol claims, usage baselines | reserve, settle, expire leases, reconcile | settlement runs beside admission; calls are settled twice, never, or with unknown outcome; windows and baselines roll over | counters balance, no window is over-admitted, a counted symbol stays claimed |

### The rest of the system

| Component | What it keeps and does | Hard behaviour | Correct when |
|---|---|---|---|
| Walk-forward queue (`walk_forward_*.py`) | phases appended to a search | append racing the last terminal receipt | a phase starts once, after the previous one |
| Event, artifact and result storage | content-addressed rows, retention pins | pin racing collection | nothing pinned is collected |
| Alerts (`backend/app/services/alert_engine.py`) | alert rows, trigger history | overlapping task runs | a one-shot alert fires once |
| Research jobs (`backend/app/services/research_jobs.py`, `backend/research_runner`) | job files handed to a runner | cancellation during hand-over | a job has one outcome |
| Distributed locks, background tasks, HTTP and websocket API | glue around the services | lock expiry | - |
| Analytics, Nautilus adapters, market-data ingestion, providers, strategy runtime, frontend, developer scripts | computations, wire formats, vendor I/O, UI | - | out of scope: no protocol for a model checker |

`PROJECT.json` lists every component with its status, and the hazards of the code
with the line where each one bites and the property that would catch it.

## 2. Modules

```
LeaseCapacity            the ledger: slots, leases, observations
  LeaseCapacityProofs    its proofs
  WorkerProtocol         EXTENDS it: dispatch, handler, settlement, recovery, search queue
    WorkerProtocolProofs its proofs, over the lemmas of LeaseCapacityProofs
  ForwardFleet           EXTENDS it: lifecycle calls and workers of forward instances
    ForwardFleetProofs   its proofs, over the lemmas of LeaseCapacityProofs
EntryDelivery            what the transport promises (abstract)
  OutboxDelivery         implements it: outbox rows, relays, stream, consumer group
    OutboxDeliveryProofs its proofs
  WorkerProtocol         its `stream` implements the safety part
RefreshQueue             the market refresh queue and the task that drains it
  RefreshQueueProofs     its proofs
ProviderQuota            the provider quota ledger under concurrent calls
  ProviderQuotaProofs    its proofs
MC<module>               TLC instances, one cfg per question
```

### LeaseCapacity

State: `reservations`, `leases` and `applied` are the three tables; `clock` is
the time processes read.  A row that does not exist is `None`.

| Action or operator | Code |
|---|---|
| `Reserve` | `PostgresWorkerStateAdapter.reserve`, `reserve_worker_slot` answering ACCEPT |
| `PersistLease` | `persist_lease`, with the partial unique index of migration `slv2_0008` |
| `Observe` | `observe`, which calls `apply_lease_observation` (`Applies`, `Observed`) |
| `ReleaseCapacity`, `ReleaseReplays` | `release_capacity` answering RELEASED and REPLAY_EXISTING |
| `StatusAt` | `ExecutionAttemptLease.status_at`: the status at a given time, not "now" |

A refused, replayed or failing call changes no row and is a stuttering step.
`LedgerSpec` lets arbitrary callers make any request with any time stamp already
past and any sequence number, so late, repeated and reordered requests are all
included.  It is at once the abstract specification the worker protocol must
implement and the object of the proofs.

Abstractions: reservation and lease ids are digests of (attempt, worker, key),
so one `Id` names both; `PostgresWorkerStateAdapter.release`, which would free a
slot without its lease, has no caller and is left out; hashes and payloads of
rows are not modelled.

### WorkerProtocol

`search` and `candidates` are the search rows, `calls` the dispatch calls being
served by the API, `dispatches`, `settlements`, `completions`, `recoveries` and
`retries` the immutable rows written along the way, `stream` the state of each
attempt's entry, `consumers` the program counter and locals of each worker's
handler.  A handler step is one transaction of the code, or several whose reads
can be taken together because what they read never changes back.

| Handler position (`pc`) | Actions | Code |
|---|---|---|
| `replay`, `close` | `CloseSucceeded`, `CloseReplayed`, `CloseRefused`, `CloseWithoutResult`, `NothingToReplay` | `worker_recovery_application.py`, terminal replay reader and `_complete_committed_terminal` |
| `preflight` | `PreflightStale`, `PreflightAdvanced`, `PreflightCancelled`, `PreflightRun` | `worker_service.py:handle` and its lease and cancellation preflight |
| `run` | `HeartbeatSample/Apply/Refused`, `SeeCancellation`, `MonitorFails`, `ProcessFails`, `ProcessCompletes` | the loops and the child process |
| `settle`, `settlement`, `complete`, `settle_release` | `Settle*`, `RecordSettlement`, `SettlementConflicts`, `RecordCompletion`, `Release*` | `worker_terminal_adapter.py:write`, in its order |
| `recover`, `receipt`, `recover_release` | `Recover`, `ResumeRecovery`, `RecoverRefused`, `RecordReceipt`, `ReceiptConflicts`, `Release*` | `postgres_worker_recovery.py:recover` |
| `persist_retry`, `close_prior`, `close_terminal`, `redispatch`, `await` | `PersistRetry`, `ClosePrior`, `PriorReplayed`, `PriorRefused`, `Redispatch`, `Redispatched` | `worker_recovery_application.py:__call__`, `_record_prior_terminal` |
| `ack` | `Ack` | `worker_consumer.py`: COMPLETE only |

`Submit`, `AssignWorker`, `Dispatch` and `EndCall` are the API's side;
`RequestCancellation` is the owner; `Crash` is a crash of the process or any
exception the handler turns into RETRY.  The wiring is that of
`worker_callbacks.py:create_search_dispatch`.

Abstractions, and why they are sound for the properties:

- `Claim` has no owner check and no idle time: a pending entry may go to any idle
  consumer at once.  This allows every interleaving that 30 s of idling allows.
- A dispatch tries the back-test workers in any order, which covers every ranking.
- Concurrent calls for one attempt share an idempotency key and are one call.
- The lease of a first attempt starts at the call's time.
- Publications, manifests, metrics and summaries written between settlement and
  release are idempotent and no step reads them back; a failure while writing
  them is `Crash`, as is a failed walk-forward progress notice.
- Recovery reads its receipt and the ledger together; a receipt that appears in
  between makes `RecordReceipt` impossible and the entry is delivered again
  (`ReceiptConflicts`), as in the code.
- The outbox relay is folded into `Dispatch`: the entry is on the stream when the
  dispatch commits.  `EntryLifecycle` shows that the resulting states of an entry
  are those `EntryDelivery` allows, and `OutboxDelivery` that relay and consumer
  group provide exactly them.

### EntryDelivery and OutboxDelivery

`EntryDelivery` has one variable: a message is `none`, `ready`, `pending` or
`acked`.  `DeliverySafety` says it moves forward one place at a time,
`DeliverySpec` that it does not stay at `ready` or `pending` for ever.

`OutboxDelivery` is one topic served by worker processes, each with two asyncio
tasks.  The relay (`relays[p]`) reads the whole outbox once a cycle
(`LoadOutbox`), and for each due row runs the Lua script (`Enqueue`,
`EnqueueFails`) and marks the row published by a compare-and-set against the
outbox it read (`AcknowledgeOutbox`), so that a row staged meanwhile makes the
rest of its cycle fail.  The consumer (`consumers[p]`) reclaims idle entries
(`Reclaim`), reads new ones for what is left of its batch (`Read`), and handles
them in order (`Complete`, `Retry`, `Xack`).  Faults, bounded by `MaxFaults`: an
enqueue, a poll or an XACK whose call or reply is lost, a relay task ended by a
database error (`RelayDies`; nothing restarts it before the process does), and
the death of the process.  The refinement maps a message to `none` while it is
not on the stream, `ready` beyond the group's cursor, `pending` in its pending
list and `acked` otherwise.

Abstractions: messages are numbered in the order of `available_at`, and become
due in that order, so what is left of a relay's or a consumer's batch is a set
whose least member is handled next; a message id determines its payload, so the script's CONFLICT
cannot happen; undecodable entries are not modelled.

### ForwardFleet

`instances` are the instance rows, `accepted` the lifecycle request rows, `calls`
the calls of `transition_forward_instance` with their position and locals,
`beats` the heartbeat each worker has sampled and not yet written.

| Position (`pc`) | Action | Code |
|---|---|---|
| `load` | `LoadInstance` | `application.py`: load, and try the transition without effect |
| `find` | `FindWorker` | fleet `acquire`: existing authorization, else ranking |
| `reserve`, `lease` | `ReserveWorker`, `PersistForwardLease` | coordinator `acquire` |
| `transition` | `Transition` | `postgres_forward_state.py:transition` |
| `release`, `free` | `FindRelease`, `FreeWorker` | fleet and coordinator `release` |
| `crashed` | `Resend` | the client repeats the request, with its original `now` |

`Serialised` are the instances whose client makes one call at a time and repeats
a call that got no answer before making another; other instances make any calls
at any time.  Reads of several worker profiles in one call are taken together.
`FindWorker` keeps the ranking it computed (`Order`): the pool used longest ago
first, ties by a digest of instance and worker, the same for every key.  The
digest is the constant `TieBreak`, any injective numbering of the workers per
instance.

### RefreshQueue

`row` is what is committed, `txn[w]` what task `w` has written and not committed
(its domain is the row locks it holds), `advisory[w]` the transaction-scoped
refresh locks, `held[w]` the lease tokens of its job objects, `bars` the jobs with
stored bars of the selected series in their range.  The point of the module is
*where the transaction ends*: `Claim` only flushes; the commit inside
`fetch_ohlcv` (`FetchAndSave`) commits the claims and every completion so far;
the rollback after a failed save (`SaveFails`) undoes them all and leaves expired
ORM objects on which the task then fails; otherwise `CommitBatch` commits at the
end.  PostgreSQL's deadlock detector is `DeadlockVictim`.  Time is abstracted to
the two comparisons the code makes, `due` and `expired`.

A completed row carries the `data_status` of its result: `observed` if the query
after the fetch returned bars, else `empty`.  Which path a job takes depends on
the sets it is in.  `ZeroWidth`: every slice to repair may have zero width; then
nothing is fetched, and the job completes with what is stored, possibly nothing.
(Without an `end_at` the range grows, and a later fetch may find a slice.)
`Synthetic`: the bars are computed from those of constituents, without refresh
lock; missing constituents are fetched and committed on the way
(`BootstrapConstituent`), and with no common bar nothing is saved.  `Locked`: the
job has a `start_at`, so its lock key is the same in every call; a job without
one gets a fresh key each time and its lock excludes nobody.  Bars that are saved
may belong to another series than the selected one, so `Save` need not make the
job `observed`.  An empty answer of a provider raises (`treat_empty_as_failure`),
so it is a `FetchRaises`.  `priority` only orders a batch and is left out.

### ProviderQuota

One account scope with a fixed-window dimension (`requests`), a rolling dimension
of distinct symbols (`symbols`) and the concurrency leases (`inflight`).  `row`
are the reservation rows, `reserved` the counters of the windows, `claim` the
identity rows, `baselines` the usage baselines, `phase` the position of each
`execute_provider_call`.  A reservation takes its time first (`Ask`), gets the
scope lock, expires leases and reads the reserved units (`BeginReserve`), then
reads the settled units and decides (`Reserve`): a settlement of another window
can fall between the two reads, because settlements lock rows and not the scope.
`Settle` is one transaction with the outcome a call reports; `SettledAgain` is
the second settlement after an empty result; `Unsettled` a settlement that
failed.  `Reconcile` is `reconcile_provider_quota_baseline` with any figure up to
the limit, any `observed_at` and any `now` at which the call can have begun, and
all four ways the stored figure is chosen; it is refused only for what the code
checks, reservations of the window that are pending or uncertain and a snapshot
older than the last.  `LocalZero` are the dimensions whose contract lets a scope
start from a local zero.  Every call costs one unit of each dimension; byte
costs, changes of plan and the report-only column `consumed_units` are left out.

## 3. Runs

All runs but `outbox`, whose consumers poll for ever, say `CHECK_DEADLOCK FALSE`:
a finished search, or a clock at its bound, really does stop.

| Run | Instance | Checks | States |
|---|---|---|---|
| `ledger` | 2 attempts, 1 worker, clock to 3, 3 observations a lease | `LedgerTypeOK`, `SerialCapacity`, `ReleasedTogether`, `HistoryLoadable`, `ReleaseIsFinal` under arbitrary callers | 33 thousand |
| `worker_safety` | 1 candidate, 2 attempts, 2 workers, 2 consumers, 1 crash, cancellation | `TypeOK`, `AckedIsReleased`, `RetryFollowsRelease`, `TerminalHasEvidence`, `ReceiptResumable`, `ActiveRunCanSettle`, `OneSlotPerCandidate`, `CandidateHistory`, `EntryLifecycle` (refinement of `DeliverySafety`) | 456 thousand |
| `worker_heartbeat` | 1 attempt, 2 consumers, heartbeats, failed results | `AckedIsReleased`, `ReleaseHasReceipt`, refinement of `LedgerSpec` | 102 thousand |
| `worker_live` | 2 attempts, 2 consumers, successful and failed results, cancellation, backoff of 1 tick, `FairSpec` | `EntryAcked`, `SlotFreed`, `CandidateCloses` | 141 thousand |
| `outbox` | 2 processes (batches of 2 and 1), 2 messages, 1 fault, 1 RETRY | `TypeOK`, `EnqueuedOnce`, `PublishedIsOnStream`, `GoneIsCompleted`, `ImplementsDelivery` (refinement of `DeliverySpec`, liveness included), `EventuallyPublished` | 237 thousand |
| `forward_fleet` | 2 instances (1 with a serial client), 2 workers, 3 calls, 1 crash, heartbeats, expiry | `FleetTypeOK`, `OneWorkerPerInstance`, `RunningHasWorker`, `AnsweredStopFrees` | 700 thousand |
| `refresh_queue` | a locked key that may have nothing to fetch and a recurring synthetic one, 2 tasks, batches of 2, 2 enqueues, 2 faults | `TypeOK`, `ObservedHasBars`, `NoDuplicateWork`, `OwnerKept`, `EventuallyCompleted` | 243 thousand |
| `provider_quota` | 3 calls, 2 symbols, limits 2/1/2, local zeros, 1 snapshot, clock to 2 | `TypeOK`, `LedgerBalanced`, `SentIsClaimed`, `RequestsWithinLimit`, `AdmissionWithinLimit` | 648 thousand |
| `settlement_crash`, `two_candidates`, `outbox_blocks`, `quota_concurrency` | smallest instance of each | disagreements of code and documentation, section 5 | - |

Why the bounds are enough for the cases of interest: two consumers give every
race of settlement with recovery and every duplicate delivery; two attempts give
a retry and the late replay of the attempt before it; `MaxTime` 2 with leases of
one tick lets a lease be fresh, expired, and re-granted to a retry; one crash
can fall between any two transactions, and a second handler then resumes;
`MaxObservations` 3 gives two heartbeats and a release.  What the bounds leave
out: three consumers, more than one crash in a run, retry chains of three.
Consumers, and the workers of `worker_safety`, are interchangeable and are symmetry
sets in the safety runs; the
liveness runs use none.

For the other modules: two processes give every race of relays over a row and of
consumers over an entry, unequal batches give a poll that reclaims and reads, and
one that only reclaims; one fault falls at every position, and the RETRY makes an
entry come back without one.  Three calls on two workers give start, stop and a
competitor for the freed worker, or a start, a pause and a resume; two faults in
the refresh queue give a lease that runs out under a task and a second task that
fails too, two keys the deadlock of two batches.  Three calls with a limit of two
requests and one symbol give a refused call, a shared claim and its hand-over;
a period of two and a clock to two give one roll-over of every window.  Left out:
three processes, more faults, more than one roll-over, and quota contracts
without a local zero, which the proofs cover.

The liveness run of the worker protocol has one candidate, leases that outlast
the time bound, a backoff of one tick (`RetryPolicy` refuses zero) and
`block_ms > 0`; it has no crash of the worker and no heartbeat writer.  Where the
code is known not to make progress, the case is either named in the property or
has a run of its own.  Named, as `LeftBehind`: a cancellation that arrives after a
result or after a receipt with another reason (`CancelledLate`), a result whose
slot a recovery of another consumer released (`ResultLostSlot`), and, in
`CandidateCloses`, a run that settles as failed.  `RetryBeyondBound` belongs to the
model: the clock stops at `MaxTime`, so a retry due later is not followed.  With a
run: the crash of `settlement_crash`, the second candidate of `two_candidates`,
the blocking read of `outbox_blocks`.  Left out is the retry prepared after its
lease would have ended (section 5).  `SlotFreed` needs no exception.

Fairness: `WF(ClockTick)`, time passes, which a retry needs to get past its
backoff; `WF(Dispatcher)`, the API finishes a call it has accepted;
`WF(Handler(p))`, a worker process takes its next step; `SF(Polled(a))`, an entry
that free consumers keep finding is taken in the end.  The last is what a pump
does that reclaims before it reads: each cycle takes the idle entry that comes
first, and reads new entries in order.  It is assumed of pending entries only with
`block_ms > 0`; with `block_ms = 0` (`BlockForever`) it is assumed of new entries
only.  It also takes the entries that are answered RETRY for ever to be few enough
that the consumers get past them before the first is idle again, as in the runs,
where there is at most one; many of them at the front of the pending list would
keep a pump with `batch_size` 1 busy.  Nothing is assumed of the owner, of
heartbeats or of crashes.

`OutboxDelivery`: weak fairness of each of the two asyncio loops of a process,
which sleep a fixed interval between cycles, and of Redis's idle clock.  No fault
and no answer of a handler is fair; retries and faults are finite.
`EventuallyPublished` excepts the case that the relay task of every process is
dead.  `RefreshQueue`: weak fairness of a task (ARQ starts one every fifteen
minutes and a started one goes on), of the producer's commit, of the deadlock
detector and of time; strong fairness of `Finish`, because PostgreSQL queues the
waiting update and grants it the row lock before a later claim (which skips
locked rows) can get it.  The property needs a bounded number of faults, which
`MaxFaults` provides.

## 4. Proofs

TLAPS checks the theorems below for every value of the constants: any sets of
candidates, attempts, workers, consumers, instances, keys and processes, any
number of messages, faults and retries, any finite sets of refresh tasks and of
provider calls, any positive durations, any bounds.

| Module | Theorem | Statement |
|---|---|---|
| `LeaseCapacityProofs` | `LedgerType`, `LedgerInvariant` | `LedgerSpec => []LedgerTypeOK`, `[]LedgerInv` |
| | `LedgerCapacity`, `LedgerRelease`, `LedgerHistory` | `LedgerSpec => []SerialCapacity`, `[]ReleasedTogether`, `[]HistoryLoadable` |
| | `LedgerReleaseFinal` | `LedgerSpec => ReleaseIsFinal` |
| `WorkerProtocolProofs` | `ProtocolInvariant`, `ProtocolType` | `Spec => []ProtocolInv`, `[]TypeOK` |
| | `ProtocolUsesLedger` | `Spec => LedgerSpec` |
| | `ProtocolAcked`, `ProtocolRetry`, `ProtocolReceipts` | `Spec => []AckedIsReleased`, `[]RetryFollowsRelease`, `[]ReleaseHasReceipt` |
| | `ProtocolEvidence`, `ProtocolOneSlot` | `Spec => []TerminalHasEvidence`, `[]OneSlotPerCandidate` |
| | `ProtocolHistory`, `ProtocolEntries` | `Spec => CandidateHistory`, `Spec => EntryLifecycle` |
| | `QuietInvariant`, `ReceiptResumes`, `ActiveRunSettles` | `~Heartbeats => (Spec => []QuietInv)`, and likewise `[]ReceiptResumable`, `[]ActiveRunCanSettle` |
| `OutboxDeliveryProofs` | `OutboxInvariant`, `OutboxType` | `Spec => []OutboxInv`, `[]TypeOK` |
| | `OutboxOnce`, `OutboxPublished`, `OutboxCompleted` | `Spec => []EnqueuedOnce`, `[]PublishedIsOnStream`, `[]GoneIsCompleted` |
| | `OutboxDelivers` | `Spec => Delivery!DeliverySafety` |
| `ForwardFleetProofs` | `FleetInvariant`, `FleetType` | `Spec => []FleetInv`, `[]FleetTypeOK` |
| | `FleetUsesLedger` | `Spec => LedgerSpec` |
| | `FleetOneWorker`, `FleetRunning`, `FleetStopFrees` | `Spec => []OneWorkerPerInstance`, `[]RunningHasWorker`, `Spec => AnsweredStopFrees` |
| `RefreshQueueProofs` | `RefreshInvariant`, `RefreshType` | `Spec => []RefreshInv`, `[]TypeOK` |
| | `RefreshObserved`, `RefreshNoDuplicate`, `RefreshOwnerKept` | `Spec => []ObservedHasBars`, `[]NoDuplicateWork`, `Spec => OwnerKept` |
| `ProviderQuotaProofs` | `QuotaInvariant`, `QuotaType` | `Spec => []QuotaInv`, `[]TypeOK` |
| | `QuotaBalanced`, `QuotaClaimed` | `Spec => []LedgerBalanced`, `[]SentIsClaimed` |
| | `QuotaLimit`, `QuotaAdmission` | `Spec => []RequestsWithinLimit`, `Spec => [][WithinLimit("requests")]_vars` |

Because `WorkerProtocol` and `ForwardFleet` implement `LedgerSpec`, the ledger's
theorems hold of the ledger each of them uses.

### Assumptions

All are named `ASSUME`s of the modelled component, evaluated by TLC on every run.
`DurationAssumption`: durations are positive, a history has room for one
observation.  `NoneAssumption`, `RowAssumption` and the last part of
`FleetAssumption`: `None` is not a row, so that an absent row can be told from a
present one.  `ProtocolAssumption`: attempts are numbered from one for each
candidate, outcomes are "succeeded" and "failed", the origins of observations the
code uses exist.  `FleetAssumption`: the extension of a heartbeat is the lease
duration, as in `forward_worker_lifecycle.py`.  `DeliveryAssumption`: a batch has
at least one place.  `RefreshAssumption`: the tasks are finitely many, which the
existence of a fresh token needs.  `QuietInvariant` and its two corollaries have
the hypothesis `~Heartbeats`, that no heartbeat writer is supplied, which is what
the shipped factories do; with one, both corollaries are false (section 5).
`QuotaAssumption`: the calls are finitely many, because a counter is the number of
rows with a unit; windows and leases last at least a second.  `FleetAssumption`
also says that no two workers have the same digest for an instance.

### The arguments

*Ledger.*  `LedgerInv` joins typing with `SerialCapacity`, `ReleasedTogether` and
`HistoryLoadable`; neither of the last two is inductive alone.
`release_capacity` has a branch that frees a held slot without touching the lease
when the release is already in the history.  That it never leaves a lease and its
slot disagreeing follows only because a recorded release means a released lease
(`HistoryMatchesLease`) and a released lease means a free slot
(`ReleasedTogether`), so the branch is dead (`ReleaseEffect`).  Conversely, that a
heartbeat does not follow a release in a history needs the status of the lease,
which the history determines (`HeartbeatEffect`).  `HistoryLoadable` is kept by
one lemma per write over facts about `Append`; `RecordedAppend` and
`LedgerStable` say what a ledger step leaves alone, for the modules above it.

*Worker protocol.*  No property of the run is inductive: each is about what a
handler may rely on after other handlers acted.  `HandlerOK` therefore says, per
position, which rows the handler has already written and that they are still
there (a receipt is immutable; a recorded observation stays recorded), and
`ReceiptOK`, `DispatchOK`, `CallOK`, `StreamOK` say the same of the rows.  Three
facts carry the argument.  A slot belongs to the one dispatch of its attempt
(`SlotOfDispatch`), so settlement and recovery that race for an attempt race for
one slot.  Attempts of a candidate are dispatched in order, each after the slot of
the one before was freed (`CandidateOK`), which gives `OneSlotPerCandidate` and
`RetryFollowsRelease`.  And a receipt is stored before its observation is applied
(`ReleaseHasReceipt`), so whoever finds the slot released finds out by whom, and
the candidate is closed on the right evidence.  `RoomForRelease` (heartbeats leave
the last place of a history to the release) keeps the bound `MaxObservations` from
blocking a step that the code would take.  The step lemma has one case per action;
actions that change only the handler's position share one lemma.
`QuietInv` adds what holds without heartbeats: a held slot has an empty history
and a lease as dispatch left it, so the first release computed for it stays
applicable.

*Outbox.*  `EnqueuedOnce` needs that the idempotency hash binds exactly the
messages on the stream (`MarkersMatch`); `PublishedIsOnStream` that a relay about
to acknowledge a row has its entry on the stream (`RelayOK`), although the outbox
it compares with is one it read earlier; `GoneIsCompleted` that a consumer about
to XACK an entry has had it completed (`ConsumerOK`), although the entry may have
been reclaimed, completed or removed by another consumer since.  `OutboxDelivers`
takes each step to a step of `EntryDelivery` or to a stutter; a read moves the
cursor over several entries at once, and each becomes pending.  Facts about `Min`
rest on the existence of a least element, obtained from the library's
minimal-element theorem (`LeastExists`) rather than by induction.

*Forward fleet.*  Stated of `Serialised` instances, whose client makes one call at
a time (`OneCall`).  `SerialCall` says what the only call of an instance knows at
each position; `UnleasedOK` says that a slot without a lease belongs to a call
that will lease it, before or after it crashes and is repeated, which is what
makes the repeated call find its own slot and not a second worker (`OnePlace`);
`Powered` says a running instance has its authorization.  `ReservationOK` and
`AcceptedOK` hold of all instances.  Since a call changes only its own instance,
the proof first says what the step of a call leaves alone and what it has to
establish (`OwnStep`, `OwnOK`), proves once that such a step keeps the invariant
(`OwnStepKeeps`), and then shows each action to be one.  `TimesOK` and
`RoomToRelease` are needed for the release to be possible at its stored time.

*Refresh queue.*  A row has one writer (`OneLocker`); a lease token is never used
twice (`UniqueTokens`, from a counting argument: one more token than tasks);
what is completed as observed, committed or not, or about to be, has its bars
(`BarsOK`), while a job completed as empty need not;
and the holder of a running lease sees that lease in the row, with nobody else
holding the row lock (`LiveOK`), which is where the keys enqueued once come in: a
later enqueue would overwrite the row (`EnqueueOK`, section 5).

*Provider quota.*  A row has one unit or none, so a counter is a cardinality and
each action adds or takes known rows.  `LedgerBalanced` needs that a lease keeps
its unit until it ends (`RowOK`), so that expiry takes from a window exactly what
its expired leases hold.  The decision of a reservation rests on what it read in an
earlier statement: `ReadingOK` says this still holds, because a settlement of a
row in one of its windows has to wait for the window's lock (`RowsFree`).
`SentIsClaimed` is kept by settlement because a claim is given up only if no other
call shares it.

`RequestsWithinLimit` is about the windows whose calls this ledger alone counts
(`CountedHere`): those whose baselines are local zeros, or snapshots taken as the
window began, or zeros derived at a roll-over.  In the others the provider's
figure replaces part of the ledger's, by design, and how many calls were made is
the provider's word; for these `AdmissionWithinLimit` says what the ledger itself
can promise, that what the latest baseline has used and what the rows hold or have
spent since never exceed the limit when an admission commits.  `RequestInv` adds
`RequestsWithinLimit` and `UniqueBaselines` (one baseline per moment and window, so
that the latest is determined) to the ledger's invariant; `AdmissionFits` shows
that the two sums the admission reads, although in different statements, cover
every charged row (`ReadingOK`), and in a window counted here every row of the
window.  `QuotaAdmission` follows from the same lemma, since no other action
admits a call.

### What is only model-checked

- Liveness, which is out of the proof system's reach: `EntryAcked`, `SlotFreed`,
  `CandidateCloses`, `EventuallyPublished`, `EventuallyCompleted` and the fairness
  part of `ImplementsDelivery`.
- `AdmissionWithinLimit` of the rolling dimension, whose reserved units are a sum
  over several windows, about which nothing can be proved without induction.
- The two properties of a worker with a heartbeat writer: they are false there
  (section 5).

Every other invariant and action property of the passing runs has a theorem.

## 5. Where code and documentation disagree

Each has a run that ends in TLC's counterexample.

- `settlement_crash`: a worker that stops after the result completion and before
  the release leaves the slot held for ever.  On redelivery the terminal replay
  reader comes first, sees a completion without a release and answers RETRY, so
  neither settlement nor recovery is reached again.
- `two_candidates`: a successful candidate is closed at its dispatch time; if
  another candidate of the search was started later, the transition time would
  move backwards and is refused on every delivery.
- `outbox_blocks`: with `block_ms = 0`, the default of `worker_entrypoint.py:135`
  and `forward_worker_entrypoint.py:98`, a read waits without limit for a *new*
  entry.  After a RETRY the next cycle finds the entry not yet idle and waits;
  when it becomes idle nobody reclaims it until other work arrives.  With
  `block_ms > 0` the property holds, and `ImplementsDelivery` with it.
- `quota_concurrency`: a concurrency lease is counted in the window of the second
  in which it was taken and admission reads the window of the current second, so
  calls that last longer than a second are not limited.

Observations that have no run of their own:

- An entry redelivered while its run goes on is run by two consumers.  One stores
  the settlement and the completion; the process of the other fails, and its
  recovery releases the slot first and orders a retry, which is refused until the
  backoff is over.  From then on every delivery meets the terminal replay reader,
  which finds the completion and a release that is not the settlement's
  (`worker_recovery_application.py:359`) and answers RETRY: the retry, which
  `worker_recovery_application.py:40` calls durable, is never dispatched.  This is
  the case `ResultLostSlot` excepts; without the exception `worker_live` fails.
- A heartbeat sampled before a lease expired and written afterwards is accepted
  and makes the lease active again: `status_at` uses the heartbeat's own time,
  where docs/strategy-lab-v2.md:830 says expired leases reject heartbeats.
- Likewise a result is settled as of its dispatch time, so a run that ends after
  its lease expired is still settled if nobody recovered it first.
- With a heartbeat writer, `ReceiptResumable` and `ActiveRunCanSettle` fail: a
  heartbeat takes the sequence number of a receipt's release, and moves
  `heartbeat_at` past the settlement's release time.  No shipped factory has one.
- A run that reports a failed result is settled and acknowledged without a
  receipt for its candidate, which stays running.
- A retry prepared after its lease would have ended can never be dispatched.
- A lease left by a failed dispatch expires but is never released; the next call
  may persist a second active lease of the attempt on another worker, because the
  index of migration `slv2_0008` is on (worker, attempt).
- A cancellation between a result and the receipt that closes its candidate makes
  `record_search_candidate_terminal` refuse "succeeded"; the candidate stays
  running and its entry is redelivered for ever.  Likewise a cancellation later
  than the observation of a recovery receipt.  These are the cases `CancelledLate`
  excepts; without the exception `worker_live` fails.
- An entry becomes claimable after 30 s while its run may take 300 s, and the
  second consumer's preflight sees an unchanged active lease: the attempt runs
  twice.  The safety runs show that receipts, slot and candidate stay consistent.
- Overlapping forward calls can put an instance on two workers, which
  `workers.py:354` says cannot be and after which every ranking for the instance
  raises.  The ranking is deterministic, so two start calls alone choose the same
  worker and one is refused; it takes four calls (`Serialised = {}`, four keys, and
  `OneWorkerPerInstance` stated of every instance).  Start call 1 has reserved
  worker 1; start call 2 finds the instance there and ranks worker 1 alone; call 1
  gets its lease; a stop releases worker 1; start call 3, which checked its
  transition before the stop, ranks both idle workers, worker 2 first because
  worker 1 was used last.  Calls 2 and 3 reserve a worker each.
- Forward calls that overlap otherwise: a pause racing a resume may leave an active instance
  without a slot, a stop racing a start a slot without a running instance.  A
  crash between reservation and lease followed by a stop with a *new* key answers
  with the slot still held.  A heartbeat later than a stop's `now` makes the
  release of the stop fail, also when it is repeated.  A refused heartbeat
  (`ForwardWorkerCapacityUnavailable` is not a `ValueError`) ends the worker
  process, and so does an expired lease, at every heartbeat.
- An enqueue of a deferred key that read the job before a task claimed it writes
  "queued" over "leased", and a second task may claim it; the lease token then
  makes the first task's completion fail.  `NoDuplicateWork` and `OwnerKept` are
  therefore stated for keys that are enqueued once.  A re-enqueue also brings a
  deferred job forward past its `retry_at`, and never revives a completed key.
- A job whose range has only gaps of zero width completes as `empty` without a
  fetch, and a completed key is never enqueued again, although
  `market_data.py:321` says the gap stays "eligible for a later session-specific
  repair".  Bars saved for another series than the selected one also end in
  `empty`.
- A call fixes the time of its reservation before it waits for the scope lock.  A
  snapshot observed after that moment and reconciled before the reservation
  (nothing is pending) hides the call from later admissions although it settles
  after the snapshot: settled units are filtered by `created_at >= observed_at`
  (`provider_quota_coordinator.py:981`), where line 1082 says that "local
  reservations settled after that snapshot remain additive".  `CountedHere` leaves
  such windows out of `RequestsWithinLimit`.
- A snapshot with the very time of a local-zero baseline is stored as the larger
  of the two figures, without the debits settled meanwhile, which the branch for a
  newer snapshot adds so as "never [to] erase settled usage in that bucket"
  (`provider_quota_coordinator.py:1300`).  The local zero counted every settled
  call of the window; the snapshot that replaces it counts only calls created
  since, so a lagging one hides a call that asked before the zero was written.
- A settlement debits a symbol unit for each repeat call of a symbol although the
  reservation charged none (`config.py:2031` says repeated pages do not count),
  and a claim handed over by a call that was not sent passes to a call that was
  charged nothing, so that the symbol limit can be over-admitted.

## 6. Plan

Done: the ledger, the worker protocol, the outbox and the transport with the
abstract delivery specification, the forward fleet, the refresh queue, the quota
ledger; proofs of their safety properties (section 4).  Next, in this order:

1. Event dispatch and event cursors of forward instances over `ForwardFleet`, with
   the proof that an event is applied once whatever call is repeated.
2. Walk-forward appends in the search queue, then alerts and research jobs.
3. A proof of `AdmissionWithinLimit` for the rolling symbol window, with the sum
   over its windows restated as a cardinality.

## 7. Not modelled, and why

Vendor HTTP clients, parsing and ingestion are I/O; the analytics compute over
data series with no protocol; the Nautilus adapters and the strategy runtime
drive external engines whose only effect on the protocol is a process outcome;
the frontend and the developer scripts are outside the program's core.  These
parts are also most of the repository's lines (the ETF holdings adapters, the
analysis router, the provider contracts and the user interface are the largest of
them), so the modules cover a small share of its text and most of its protocols.

Of the modelled components: forward event dispatch, cursors and settlement of
forward events; candidates appended by walk-forward phases; the quota entry
points for live probes, which repeat reserve and settle with a receipt table;
retention of old quota rows.

Row locks, transactions, unique indexes and deadlock detection are taken to work
as PostgreSQL documents them, and Redis scripts, streams and consumer groups as
Redis does; a Redis that loses its data is not modelled.
