--------------------------- MODULE WorkerProtocol ---------------------------
(***************************************************************************)
(* How a dispatched search candidate is executed, settled, recovered and   *)
(* closed: the API's dispatch transaction (postgres_search_dispatch.py),   *)
(* the handler of the dedicated workers (worker_service.py wired by        *)
(* worker_callbacks.py:create_search_dispatch), the terminal writer        *)
(* (worker_terminal_adapter.py), recovery (worker_recovery_application.py, *)
(* postgres_worker_recovery.py) and the search queue (search_state.py),    *)
(* over the ledger of LeaseCapacity.                                       *)
(*                                                                         *)
(* Each step of a consumer is one database transaction of the handler, or  *)
(* several whose reads can be taken together because what they read never  *)
(* changes back (receipts, completions and releases are immutable).  The   *)
(* handler answers RETRY or REJECT by returning to "idle" with its stream  *)
(* entry still pending, so the entry is delivered again; only COMPLETE     *)
(* acknowledges it.  Redis hands a pending entry to any idle consumer once *)
(* it has been idle for reclaim_idle_ms (30 s), even while the first       *)
(* consumer is still working on it, so Claim has no owner check.           *)
(***************************************************************************)
EXTENDS LeaseCapacity

CONSTANTS
    Candidates,   \* the candidates of one search experiment
    MaxAttempts,  \* RetryPolicy.max_attempts
    Consumers,    \* worker service processes sharing the consumer group
    Backoff,      \* RetryPolicy.backoff_for, in ticks: never zero
    BlockForever, \* whether block_ms is 0, its default
    Outcomes,     \* runtime results a completed process may report
    Heartbeats,   \* whether the callback factory supplies a heartbeat writer
    Cancellable,  \* whether the owner may cancel the search
    MaxCrashes    \* bound on consumer crashes

\* An attempt is a candidate's trial with its ordinal in the retry chain.
ASSUME ProtocolAssumption ==
    /\ Attempts = [candidate : Candidates, ordinal : 1..MaxAttempts]
    /\ MaxAttempts \in Nat \ {0}
    /\ Backoff \in Nat \ {0}
    /\ BlockForever \in BOOLEAN
    /\ Outcomes \subseteq {"succeeded", "failed"}
    /\ {"worker", "settlement", "cancelled", "worker_crash", "lease_expired"}
           \subseteq Origins
    /\ Heartbeats \in BOOLEAN /\ Cancellable \in BOOLEAN
    /\ MaxCrashes \in Nat

VARIABLES
    search,       \* [updated_at, cancelled]: the search row
    candidates,   \* Candidate -> [phase, ordinal, count]: its candidate rows
    calls,        \* Attempt -> [now, id, pool] or None: dispatch call in the API
    dispatches,   \* Attempt -> [id, at] or None: dispatch and admission rows
    settlements,  \* Attempt -> [obs, outcome] or None: settlement receipts
    completions,  \* attempts with a result completion row
    recoveries,   \* Attempt -> [reason, obs, retry] or None: recovery receipts
    retries,      \* retry attempts persisted as resources
    stream,       \* Attempt -> state of its entry in the Redis stream
    consumers,    \* Consumer -> where its handler is, and its local values
    crashes       \* crashes so far

\* The rows of the tables, and the call record of the API process.
Terminal == {"succeeded", "failed", "cancelled"}
Phases == {"pending", "running"} \cup Terminal
Reasons == {"cancelled", "worker_crash", "lease_expired"}

Pools == [Ids -> Reservation \cup {None}]

Call == [now : Nat, id : Ids \cup {None}, pool : Pools \cup {None}]

DispatchRow == [id : Ids, at : Nat]

SettlementRow == [obs : Observation, outcome : Outcomes]

RecoveryRow == [reason : Reasons, obs : Observation, retry : BOOLEAN]

\* NULL is no row of these tables and no identifier.
ASSUME RowAssumption ==
    /\ None \notin Attempts /\ None \notin Ids /\ None \notin Observation
    /\ None \notin Call /\ None \notin DispatchRow
    /\ None \notin SettlementRow /\ None \notin RecoveryRow

searchVars == <<search, candidates>>
receipts == <<settlements, completions, recoveries, retries>>
vars == <<ledgerVars, searchVars, calls, dispatches, receipts, stream,
          consumers, crashes>>

Idle == [pc |-> "idle", attempt |-> None, at |-> None, reason |-> None,
         obs |-> None, outcome |-> None, retry |-> FALSE,
         beating |-> FALSE, seq |-> 0, beat |-> None]

Init ==
    /\ LedgerInit
    /\ search = [updated_at |-> 0, cancelled |-> FALSE]
    /\ candidates =
         [c \in Candidates |-> [phase |-> "pending", ordinal |-> 0, count |-> 0]]
    /\ calls = [a \in Attempts |-> None]
    /\ dispatches = [a \in Attempts |-> None]
    /\ settlements = [a \in Attempts |-> None]
    /\ completions = {}
    /\ recoveries = [a \in Attempts |-> None]
    /\ retries = {}
    /\ stream = [a \in Attempts |-> "none"]
    /\ consumers = [p \in Consumers |-> Idle]
    /\ crashes = 0

----------------------------------------------------------------------------
(* The search queue (search_state.py), one row lock per transition.        *)

Running(a) ==
    /\ candidates[a.candidate].phase = "running"
    /\ candidates[a.candidate].ordinal = a.ordinal

CanStart(a, t) ==
    /\ ~search.cancelled
    /\ candidates[a.candidate].phase \in {"pending", "failed"}
    /\ t >= search.updated_at

StartCandidate(a, t) ==
    /\ CanStart(a, t)
    /\ candidates' = [candidates EXCEPT ![a.candidate] =
           [phase |-> "running", ordinal |-> a.ordinal, count |-> @.count + 1]]
    /\ search' = [search EXCEPT !.updated_at = t]

\* Mutant: a transition must be later than the last one, not just no earlier.
CanRecordLater(a, phase, t) ==
    /\ Running(a)
    /\ search.cancelled => phase = "cancelled"
    /\ t > search.updated_at

\* record_search_candidate_terminal answers APPLY.  _replace_candidate raises
\* when the receipt is older than the last transition of the whole search.
CanRecord(a, phase, t) ==
    /\ Running(a)
    /\ search.cancelled => phase = "cancelled"
    /\ t >= search.updated_at

RecordTerminal(a, phase, t) ==
    /\ CanRecord(a, phase, t)
    /\ candidates' = [candidates EXCEPT ![a.candidate].phase = phase]
    /\ search' = [search EXCEPT !.updated_at = t]

RequestCancellation ==
    /\ Cancellable
    /\ ~search.cancelled
    /\ \E c \in Candidates : candidates[c].phase \notin Terminal
    /\ search' = [updated_at |-> clock, cancelled |-> TRUE]
    /\ UNCHANGED <<ledgerVars, candidates, calls, dispatches, receipts, stream,
                   consumers, crashes>>

----------------------------------------------------------------------------
(* Dispatch, in the API process: a call samples the time once, preparation *)
(* chooses a worker with a free slot and persists the lease in its own     *)
(* transaction, then one transaction starts the candidate, reserves the    *)
(* slot, admits the attempt and writes the outbox message.  Concurrent     *)
(* calls for one attempt share an idempotency key and are one call here.   *)

Previous(a) == [a EXCEPT !.ordinal = @ - 1]
NextAttempt(a) == [a EXCEPT !.ordinal = @ + 1]

InCall(a) == calls[a] # None
Now(a) == calls[a].now
BeginCall(a) ==
    calls' = IF InCall(a) THEN calls
             ELSE [calls EXCEPT ![a] = [now |-> clock, id |-> None, pool |-> None]]
FinishCall(a) == calls' = [calls EXCEPT ![a] = None]

\* The reservations of a worker: what the prepared handoff is bound to.
Pool(w) == [i \in Ids |-> IF i.worker = w THEN reservations[i] ELSE None]

\* The lease starts when the dispatch intent was made; for a retry that is
\* the retry time fixed by the recovery receipt of the previous attempt.
LeaseStart(a) ==
    IF a.ordinal = 1 THEN Now(a)
    ELSE recoveries[Previous(a)].obs.observed_at + Backoff

CanAssign(i) ==
    /\ dispatches[i.attempt] = None
    /\ SlotFree(i)
    /\ LeaseStart(i.attempt) <= Now(i.attempt)
    /\ IF leases[i] # None THEN ActiveAt(i, Now(i.attempt))
       ELSE /\ Now(i.attempt) < LeaseStart(i.attempt) + LeaseDuration
            /\ \A j \in Ids : SameBinding(i, j) => ~Live(j)

CanDispatch(i) ==
    /\ dispatches[i.attempt] = None
    /\ Pool(i.worker) = calls[i.attempt].pool
    /\ ActiveAt(i, Now(i.attempt))
    /\ CanStart(i.attempt, Now(i.attempt))

\* The owner asks for the first attempt of a candidate.
Submit(a) ==
    /\ a.ordinal = 1
    /\ ~InCall(a)
    /\ candidates[a.candidate].phase = "pending"
    /\ BeginCall(a)
    /\ UNCHANGED <<ledgerVars, searchVars, dispatches, receipts, stream,
                   consumers, crashes>>

\* _select_worker_assignment: a new lease, or the one an earlier call left.
AssignWorker(i) ==
    /\ InCall(i.attempt)
    /\ calls[i.attempt].id = None
    /\ CanAssign(i)
    /\ IF leases[i] # None THEN UNCHANGED leases
       ELSE PersistLease(i, LeaseStart(i.attempt))
    /\ calls' = [calls EXCEPT ![i.attempt].id = i,
                              ![i.attempt].pool = Pool(i.worker)]
    /\ UNCHANGED <<clock, reservations, applied, searchVars, dispatches,
                   receipts, stream, consumers, crashes>>

Dispatch(a) ==
    /\ InCall(a)
    /\ calls[a].id # None
    /\ CanDispatch(calls[a].id)
    /\ StartCandidate(a, Now(a))
    /\ Reserve(calls[a].id, Now(a))
    /\ dispatches' =
         [dispatches EXCEPT ![a] = [id |-> calls[a].id, at |-> Now(a)]]
    /\ stream' = [stream EXCEPT ![a] = "ready"]
    /\ FinishCall(a)
    /\ UNCHANGED <<clock, leases, applied, receipts, consumers, crashes>>

\* Mutant: a replayed dispatch publishes its message again.
EndCallPublishes(a) ==
    /\ InCall(a)
    /\ IF calls[a].id = None THEN \A i \in Ids : i.attempt = a => ~CanAssign(i)
       ELSE ~CanDispatch(calls[a].id)
    /\ FinishCall(a)
    /\ stream' = [stream EXCEPT ![a] = IF dispatches[a] = None THEN @ ELSE "ready"]
    /\ UNCHANGED <<ledgerVars, searchVars, dispatches, receipts, consumers, crashes>>

\* The call replays an existing dispatch, no worker can take the attempt, or
\* the prepared handoff no longer matches the rows.
EndCall(a) ==
    /\ InCall(a)
    /\ IF calls[a].id = None THEN \A i \in Ids : i.attempt = a => ~CanAssign(i)
       ELSE ~CanDispatch(calls[a].id)
    /\ FinishCall(a)
    /\ UNCHANGED <<ledgerVars, searchVars, dispatches, receipts, stream,
                   consumers, crashes>>

----------------------------------------------------------------------------
(* The handler of one consumer.                                            *)

Attempt(p) == consumers[p].attempt
Id(p) == dispatches[Attempt(p)].id
DispatchedAt(p) == dispatches[Attempt(p)].at
At(p, pc) == consumers[p].pc = pc
Goto(p, pc) == consumers' = [consumers EXCEPT ![p].pc = pc]
GiveUp(p) == consumers' = [consumers EXCEPT ![p] = Idle]

Claim(p, a) ==
    /\ At(p, "idle")
    /\ stream[a] \in {"ready", "pending"}
    /\ stream' = [stream EXCEPT ![a] = "pending"]
    /\ consumers' = [consumers EXCEPT ![p] =
                        [Idle EXCEPT !.pc = "replay", !.attempt = a]]
    /\ UNCHANGED <<ledgerVars, searchVars, calls, dispatches, receipts, crashes>>

Ack(p) ==
    /\ At(p, "ack")
    /\ stream' = [stream EXCEPT ![Attempt(p)] = "acked"]
    /\ GiveUp(p)
    /\ UNCHANGED <<ledgerVars, searchVars, calls, dispatches, receipts, crashes>>

\* A step that only moves the handler.
Local == UNCHANGED <<ledgerVars, searchVars, calls, dispatches, receipts,
                     stream, crashes>>

(* _complete_committed_terminal: an attempt with a result completion is    *)
(* closed as succeeded once its settlement and release are all durable.    *)

Closing(p) ==
    /\ consumers[p].pc \in {"replay", "recover", "close"}
    /\ Attempt(p) \in completions

\* Mutant: a settlement receipt alone counts as a committed terminal.
CommittedTerminalUnreleased(p) == settlements[Attempt(p)] # None

CommittedTerminal(p) ==
    /\ settlements[Attempt(p)] # None
    /\ ~Held(Id(p))
    /\ Recorded(Id(p), settlements[Attempt(p)].obs)

AlreadySucceeded(p) ==
    /\ candidates[Attempt(p).candidate].phase = "succeeded"
    /\ candidates[Attempt(p).candidate].ordinal = Attempt(p).ordinal

CloseSucceeded(p) ==
    /\ Closing(p)
    /\ CommittedTerminal(p)
    /\ RecordTerminal(Attempt(p), "succeeded", DispatchedAt(p))
    /\ Goto(p, "ack")
    /\ UNCHANGED <<ledgerVars, calls, dispatches, receipts, stream, crashes>>

CloseReplayed(p) ==
    /\ Closing(p)
    /\ CommittedTerminal(p)
    /\ AlreadySucceeded(p)
    /\ Goto(p, "ack")
    /\ Local

CloseRefused(p) ==
    /\ Closing(p)
    /\ ~(CommittedTerminal(p) /\ AlreadySucceeded(p))
    /\ ~(CommittedTerminal(p)
           /\ CanRecord(Attempt(p), "succeeded", DispatchedAt(p)))
    /\ GiveUp(p)
    /\ Local

\* A settled run that did not succeed has no completion to close.
CloseWithoutResult(p) ==
    /\ At(p, "close")
    /\ Attempt(p) \notin completions
    /\ Goto(p, "ack")
    /\ Local

NothingToReplay(p) ==
    /\ At(p, "replay")
    /\ Attempt(p) \notin completions
    /\ Goto(p, "preflight")
    /\ Local

(* Preflight: the lease, then the cancellation flag.                       *)

BeginRecovery(p, reason) ==
    consumers' = [consumers EXCEPT ![p].pc = "recover", ![p].reason = reason,
                                   ![p].at = clock]

PreflightStale(p) ==
    /\ At(p, "preflight")
    /\ ~ActiveAt(Id(p), clock)
    /\ BeginRecovery(p, IF StatusAt(leases[Id(p)], clock) = "expired"
                        THEN "lease_expired" ELSE "worker_crash")
    /\ Local

PreflightAdvanced(p) ==
    /\ At(p, "preflight")
    /\ ActiveAt(Id(p), clock)
    /\ applied[Id(p)] # <<>>
    /\ GiveUp(p)
    /\ Local

PreflightCancelled(p) ==
    /\ At(p, "preflight")
    /\ ActiveAt(Id(p), clock)
    /\ applied[Id(p)] = <<>>
    /\ search.cancelled
    /\ BeginRecovery(p, "cancelled")
    /\ Local

\* Mutant: start the heartbeat loop without a heartbeat writer.
PreflightRunBeating(p) ==
    /\ At(p, "preflight")
    /\ ActiveAt(Id(p), clock)
    /\ applied[Id(p)] = <<>>
    /\ ~search.cancelled
    /\ consumers' = [consumers EXCEPT ![p].pc = "run", ![p].beating = TRUE]
    /\ Local

PreflightRun(p) ==
    /\ At(p, "preflight")
    /\ ActiveAt(Id(p), clock)
    /\ applied[Id(p)] = <<>>
    /\ ~search.cancelled
    /\ consumers' = [consumers EXCEPT ![p].pc = "run", ![p].beating = Heartbeats]
    /\ Local

(* While the process runs: the heartbeat and cancellation loops.  Recovery *)
(* from a cancellation runs inside the try block whose finally stops the   *)
(* heartbeat loop, so the loop goes on beside that recovery.               *)

HeartbeatSample(p) ==
    /\ consumers[p].beating
    /\ consumers[p].beat = None
    /\ consumers[p].seq < MaxObservations - 1
    /\ consumers' = [consumers EXCEPT ![p].beat =
           HeartbeatObservation(consumers[p].seq + 1, clock, "worker")]
    /\ Local

HeartbeatApply(p) ==
    /\ consumers[p].beat # None
    /\ Observe(Id(p), consumers[p].beat)
    /\ consumers' = [consumers EXCEPT ![p].beat = None, ![p].seq = @ + 1]
    /\ UNCHANGED <<clock, reservations, searchVars, calls, dispatches, receipts,
                   stream, crashes>>

\* The loop stops at a refused heartbeat; a running process is then killed.
HeartbeatRefused(p) ==
    /\ consumers[p].beat # None
    /\ ~Applies(Id(p), consumers[p].beat)
    /\ IF At(p, "run")
       THEN consumers' = [consumers EXCEPT ![p] =
                [Idle EXCEPT !.pc = "recover", !.attempt = Attempt(p),
                             !.reason = "worker_crash", !.at = clock]]
       ELSE consumers' = [consumers EXCEPT ![p].beat = None,
                                           ![p].beating = FALSE]
    /\ Local

SeeCancellation(p) ==
    /\ At(p, "run")
    /\ search.cancelled
    /\ BeginRecovery(p, "cancelled")
    /\ Local

\* The cancellation flag could not be read, or the executor itself raised:
\* like a cancellation, handled inside the try block.
MonitorFails(p) ==
    /\ At(p, "run")
    /\ BeginRecovery(p, "worker_crash")
    /\ Local

\* The process timed out, could not start or died.
ProcessFails(p) ==
    /\ At(p, "run")
    /\ consumers' = [consumers EXCEPT ![p] =
           [Idle EXCEPT !.pc = "recover", !.attempt = Attempt(p),
                        !.reason = "worker_crash", !.at = clock]]
    /\ Local

ProcessCompletes(p, outcome) ==
    /\ At(p, "run")
    /\ consumers' = [consumers EXCEPT ![p] =
           [Idle EXCEPT !.pc = "settle", !.attempt = Attempt(p),
                        !.outcome = outcome]]
    /\ Local

(* The terminal writer.  Its timestamps are those of the dispatch: the     *)
(* child reports the request's observed_at, which is the dispatch time.    *)

\* Mutant: reuse the last sequence number instead of the next one.
SettlementObservationSameSequence(p) ==
    ReleaseObservation(LastSequence(Id(p)), DispatchedAt(p), "settlement")

SettlementObservation(p) ==
    ReleaseObservation(LastSequence(Id(p)) + 1, DispatchedAt(p), "settlement")

\* settle_worker_execution answers RELEASED, or an existing receipt is
\* recomputed because its release is missing.
CanSettle(p) ==
    /\ Held(Id(p))
    /\ StatusAt(leases[Id(p)], DispatchedAt(p)) = "active"
    /\ Applies(Id(p), SettlementObservation(p))

\* settle_worker_execution answers REPLAY_EXISTING.
SettlementReplays(p) ==
    /\ settlements[Attempt(p)] # None
    /\ settlements[Attempt(p)].outcome = consumers[p].outcome
    /\ ~Held(Id(p))
    /\ Recorded(Id(p), settlements[Attempt(p)].obs)

Settle(p) ==
    /\ At(p, "settle")
    /\ CanSettle(p)
    /\ consumers' = [consumers EXCEPT ![p].pc = "settlement",
                                      ![p].obs = SettlementObservation(p)]
    /\ Local

SettleReplay(p) ==
    /\ At(p, "settle")
    /\ SettlementReplays(p)
    /\ consumers' = [consumers EXCEPT ![p].pc = "settlement",
                                      ![p].obs = settlements[Attempt(p)].obs]
    /\ Local

SettleRefused(p) ==
    /\ At(p, "settle")
    /\ ~CanSettle(p)
    /\ ~SettlementReplays(p)
    /\ GiveUp(p)
    /\ Local

SettlementReceipt(p) ==
    [obs |-> consumers[p].obs, outcome |-> consumers[p].outcome]

RecordSettlement(p) ==
    /\ At(p, "settlement")
    /\ settlements[Attempt(p)] \in {None, SettlementReceipt(p)}
    /\ settlements' = [settlements EXCEPT ![Attempt(p)] = SettlementReceipt(p)]
    /\ Goto(p, IF consumers[p].outcome = "succeeded" THEN "complete"
               ELSE "settle_release")
    /\ UNCHANGED <<ledgerVars, searchVars, calls, dispatches, completions,
                   recoveries, retries, stream, crashes>>

SettlementConflicts(p) ==
    /\ At(p, "settlement")
    /\ settlements[Attempt(p)] \notin {None, SettlementReceipt(p)}
    /\ GiveUp(p)
    /\ Local

RecordCompletion(p) ==
    /\ At(p, "complete")
    /\ completions' = completions \cup {Attempt(p)}
    /\ Goto(p, "settle_release")
    /\ UNCHANGED <<ledgerVars, searchVars, calls, dispatches, settlements,
                   recoveries, retries, stream, crashes>>

Releasing(p) == consumers[p].pc \in {"settle_release", "recover_release"}

\* After the release a settlement closes its candidate; a recovery plans a
\* retry or closes the candidate.
AfterRelease(p) ==
    IF At(p, "settle_release") THEN "close"
    ELSE IF consumers[p].retry THEN "persist_retry" ELSE "close_terminal"

\* Mutant: release the lease only, not the slot with it.
ReleaseLeaseOnly(p) ==
    /\ Releasing(p)
    /\ Held(Id(p))
    /\ Observe(Id(p), consumers[p].obs)
    /\ Goto(p, AfterRelease(p))
    /\ UNCHANGED <<clock, reservations, searchVars, calls, dispatches, receipts,
                   stream, crashes>>

Release(p) ==
    /\ Releasing(p)
    /\ ReleaseCapacity(Id(p), consumers[p].obs)
    /\ Goto(p, AfterRelease(p))
    /\ UNCHANGED <<clock, searchVars, calls, dispatches, receipts, stream,
                   crashes>>

ReleaseReplayed(p) ==
    /\ Releasing(p)
    /\ ReleaseReplays(Id(p), consumers[p].obs)
    /\ Goto(p, AfterRelease(p))
    /\ Local

\* Mutant: ignore a REJECT answer of release_capacity.
ReleaseRefusedIgnored(p) ==
    /\ Releasing(p)
    /\ ~(Held(Id(p)) /\ Applies(Id(p), consumers[p].obs))
    /\ ~ReleaseReplays(Id(p), consumers[p].obs)
    /\ Goto(p, AfterRelease(p))
    /\ Local

ReleaseRefused(p) ==
    /\ Releasing(p)
    /\ ~(Held(Id(p)) /\ Applies(Id(p), consumers[p].obs))
    /\ ~ReleaseReplays(Id(p), consumers[p].obs)
    /\ GiveUp(p)
    /\ Local

(* Recovery.  An existing receipt decides everything; otherwise the reason *)
(* is the caller's, or cancellation once the search is cancelled.          *)

\* Mutant: the cancellation flag read before the run decides.
RecoveryReasonStale(p) == consumers[p].reason

RecoveryReason(p) == IF search.cancelled THEN "cancelled" ELSE consumers[p].reason

\* Mutant: one retry too many.
RecoveryReceiptExtraRetry(p) ==
    [reason |-> RecoveryReason(p),
     obs |-> ReleaseObservation(LastSequence(Id(p)) + 1, consumers[p].at,
                                RecoveryReason(p)),
     retry |-> RecoveryReason(p) # "cancelled"
                 /\ Attempt(p).ordinal <= MaxAttempts]

RecoveryReceipt(p) ==
    [reason |-> RecoveryReason(p),
     obs |-> ReleaseObservation(LastSequence(Id(p)) + 1, consumers[p].at,
                                RecoveryReason(p)),
     retry |-> RecoveryReason(p) # "cancelled"
                 /\ Attempt(p).ordinal < MaxAttempts]

\* resolve_worker_recovery without a receipt.
CanRecover(p) ==
    /\ Held(Id(p))
    /\ RecoveryReason(p) = "lease_expired" =>
           StatusAt(leases[Id(p)], consumers[p].at) = "expired"
    /\ Applies(Id(p), RecoveryReceipt(p).obs)

\* resolve_worker_recovery with a receipt.
CanResume(p, receipt) ==
    \/ Held(Id(p)) /\ (Recorded(Id(p), receipt.obs) \/ Applies(Id(p), receipt.obs))
    \/ ~Held(Id(p)) /\ Recorded(Id(p), receipt.obs)

\* Mutant: release the capacity before the receipt is durable.
RecoverWithReleaseFirst(p, receipt) ==
    consumers' = [consumers EXCEPT ![p].pc = "recover_release",
                                   ![p].reason = receipt.reason,
                                   ![p].obs = receipt.obs,
                                   ![p].retry = receipt.retry]

RecoverWith(p, receipt) ==
    consumers' = [consumers EXCEPT ![p].pc = "receipt",
                                   ![p].reason = receipt.reason,
                                   ![p].obs = receipt.obs,
                                   ![p].retry = receipt.retry]

Recovering(p) == At(p, "recover") /\ Attempt(p) \notin completions

Recover(p) ==
    /\ Recovering(p)
    /\ recoveries[Attempt(p)] = None
    /\ CanRecover(p)
    /\ RecoverWith(p, RecoveryReceipt(p))
    /\ Local

ResumeRecovery(p) ==
    /\ Recovering(p)
    /\ recoveries[Attempt(p)] # None
    /\ CanResume(p, recoveries[Attempt(p)])
    /\ RecoverWith(p, recoveries[Attempt(p)])
    /\ Local

RecoverRefused(p) ==
    /\ Recovering(p)
    /\ IF recoveries[Attempt(p)] = None THEN ~CanRecover(p)
       ELSE ~CanResume(p, recoveries[Attempt(p)])
    /\ GiveUp(p)
    /\ Local

PlannedReceipt(p) == [reason |-> consumers[p].reason, obs |-> consumers[p].obs,
                      retry |-> consumers[p].retry]

\* Mutant: go on after the receipt without releasing the capacity.
RecordReceiptUnreleased(p) ==
    /\ At(p, "receipt")
    /\ recoveries[Attempt(p)] \in {None, PlannedReceipt(p)}
    /\ recoveries' = [recoveries EXCEPT ![Attempt(p)] = PlannedReceipt(p)]
    /\ Goto(p, IF consumers[p].retry THEN "persist_retry" ELSE "close_terminal")
    /\ UNCHANGED <<ledgerVars, searchVars, calls, dispatches, settlements,
                   completions, retries, stream, crashes>>

RecordReceipt(p) ==
    /\ At(p, "receipt")
    /\ recoveries[Attempt(p)] \in {None, PlannedReceipt(p)}
    /\ recoveries' = [recoveries EXCEPT ![Attempt(p)] = PlannedReceipt(p)]
    /\ Goto(p, "recover_release")
    /\ UNCHANGED <<ledgerVars, searchVars, calls, dispatches, settlements,
                   completions, retries, stream, crashes>>

ReceiptConflicts(p) ==
    /\ At(p, "receipt")
    /\ recoveries[Attempt(p)] \notin {None, PlannedReceipt(p)}
    /\ GiveUp(p)
    /\ Local

PersistRetry(p) ==
    /\ At(p, "persist_retry")
    /\ retries' = retries \cup {NextAttempt(Attempt(p))}
    /\ Goto(p, "close_prior")
    /\ UNCHANGED <<ledgerVars, searchVars, calls, dispatches, settlements,
                   completions, recoveries, stream, crashes>>

(* _record_prior_terminal: close the failed attempt, or see that it, or a  *)
(* later attempt of the same candidate, already is on record.              *)

ClosingPrior(p) == consumers[p].pc \in {"close_terminal", "close_prior"}

PriorPhase(p) ==
    IF At(p, "close_terminal") /\ consumers[p].reason = "cancelled"
    THEN "cancelled" ELSE "failed"

PriorClosed(p) ==
    LET c == candidates[Attempt(p).candidate]
    IN  \/ c.ordinal = Attempt(p).ordinal /\ c.phase = PriorPhase(p)
        \/ /\ At(p, "close_prior")
           /\ \/ c.ordinal = Attempt(p).ordinal + 1
              \/ c.count >= Attempt(p).ordinal + 1
           /\ c.phase # "pending"

AfterPrior(p) == IF At(p, "close_terminal") THEN "ack" ELSE "redispatch"

\* Mutant: overwrite the candidate row whatever it holds.
ClosePriorOverwrites(p) ==
    /\ ClosingPrior(p)
    /\ candidates' =
         [candidates EXCEPT ![Attempt(p).candidate].phase = PriorPhase(p)]
    /\ Goto(p, AfterPrior(p))
    /\ UNCHANGED <<ledgerVars, search, calls, dispatches, receipts, stream,
                   crashes>>

ClosePrior(p) ==
    /\ ClosingPrior(p)
    /\ ~PriorClosed(p)
    /\ RecordTerminal(Attempt(p), PriorPhase(p), consumers[p].obs.observed_at)
    /\ Goto(p, AfterPrior(p))
    /\ UNCHANGED <<ledgerVars, calls, dispatches, receipts, stream, crashes>>

PriorReplayed(p) ==
    /\ ClosingPrior(p)
    /\ PriorClosed(p)
    /\ Goto(p, AfterPrior(p))
    /\ Local

PriorRefused(p) ==
    /\ ClosingPrior(p)
    /\ ~PriorClosed(p)
    /\ ~CanRecord(Attempt(p), PriorPhase(p), consumers[p].obs.observed_at)
    /\ GiveUp(p)
    /\ Local

\* The dispatch RPC for the retry attempt.
Redispatch(p) ==
    /\ At(p, "redispatch")
    /\ BeginCall(NextAttempt(Attempt(p)))
    /\ Goto(p, "await")
    /\ UNCHANGED <<ledgerVars, searchVars, dispatches, receipts, stream, crashes>>

Redispatched(p) ==
    /\ At(p, "await")
    /\ ~InCall(NextAttempt(Attempt(p)))
    /\ IF dispatches[NextAttempt(Attempt(p))] # None THEN Goto(p, "ack")
       ELSE GiveUp(p)
    /\ Local

\* A crash, or an exception the handler turns into RETRY, at any point.
Crash(p) ==
    /\ ~At(p, "idle")
    /\ crashes < MaxCrashes
    /\ crashes' = crashes + 1
    /\ GiveUp(p)
    /\ UNCHANGED <<ledgerVars, searchVars, calls, dispatches, receipts, stream>>

ClockTick ==
    /\ Tick
    /\ UNCHANGED <<ledger, searchVars, calls, dispatches, receipts, stream,
                   consumers, crashes>>

----------------------------------------------------------------------------
Dispatcher ==
    \/ \E i \in Ids : AssignWorker(i)
    \/ \E a \in Attempts : Dispatch(a) \/ EndCall(a)

\* Every step of a handler that has taken an entry.
Handler(p) ==
    \/ CloseSucceeded(p) \/ CloseReplayed(p) \/ CloseRefused(p)
    \/ CloseWithoutResult(p) \/ NothingToReplay(p)
    \/ PreflightStale(p) \/ PreflightAdvanced(p) \/ PreflightCancelled(p)
    \/ PreflightRun(p) \/ SeeCancellation(p) \/ MonitorFails(p)
    \/ ProcessFails(p)
    \/ \E o \in Outcomes : ProcessCompletes(p, o)
    \/ Settle(p) \/ SettleReplay(p) \/ SettleRefused(p)
    \/ RecordSettlement(p) \/ SettlementConflicts(p) \/ RecordCompletion(p)
    \/ Release(p) \/ ReleaseReplayed(p) \/ ReleaseRefused(p)
    \/ Recover(p) \/ ResumeRecovery(p) \/ RecoverRefused(p)
    \/ RecordReceipt(p) \/ ReceiptConflicts(p) \/ PersistRetry(p)
    \/ ClosePrior(p) \/ PriorReplayed(p) \/ PriorRefused(p)
    \/ Redispatch(p) \/ Redispatched(p) \/ Ack(p)

HeartbeatLoop(p) ==
    HeartbeatSample(p) \/ HeartbeatApply(p) \/ HeartbeatRefused(p)

Next ==
    \/ \E a \in Attempts : Submit(a)
    \/ RequestCancellation
    \/ Dispatcher
    \/ \E p \in Consumers, a \in Attempts : Claim(p, a)
    \/ \E p \in Consumers : Handler(p) \/ HeartbeatLoop(p) \/ Crash(p)
    \/ ClockTick

Spec == Init /\ [][Next]_vars

(* The processes that make progress: time passes, the API finishes a call  *)
(* it has taken, a handler takes its next step, and the pumps read the     *)
(* stream, so no entry is passed over by all of them for ever.  A pending  *)
(* entry is reclaimed at the start of a cycle; with block_ms = 0 a cycle   *)
(* may wait for a new entry without limit, so that only reading new        *)
(* entries can be counted on.                                              *)
Polled(a) ==
    \E p \in Consumers :
        Claim(p, a) /\ (stream[a] = "ready" \/ ~BlockForever)

Fairness ==
    /\ WF_vars(ClockTick)
    /\ WF_vars(Dispatcher)
    /\ \A p \in Consumers : WF_vars(Handler(p))
    /\ \A a \in Attempts : SF_vars(Polled(a))

FairSpec == Spec /\ Fairness

----------------------------------------------------------------------------
(* What the protocol promises.                                             *)

Dispatched(a) == dispatches[a] # None
Slot(a) == dispatches[a].id
Receipts(a) == {r \in {settlements[a], recoveries[a]} : r # None}

\* Where a handler can be.
Steps == {"idle", "replay", "preflight", "run", "settle", "settlement",
          "complete", "settle_release", "close", "recover", "receipt",
          "recover_release", "persist_retry", "close_prior",
          "close_terminal", "redispatch", "await", "ack"}

HandlerState ==
    [pc : Steps, attempt : Attempts \cup {None}, at : Nat \cup {None},
     reason : Reasons \cup {None}, obs : Observation \cup {None},
     outcome : Outcomes \cup {None}, retry : BOOLEAN, beating : BOOLEAN,
     seq : Nat, beat : Observation \cup {None}]

TypeOK ==
    /\ LedgerTypeOK
    /\ search \in [updated_at : Nat, cancelled : BOOLEAN]
    /\ candidates \in [Candidates -> [phase : Phases, ordinal : 0..MaxAttempts,
                                      count : 0..MaxAttempts]]
    /\ calls \in [Attempts -> Call \cup {None}]
    /\ dispatches \in [Attempts -> DispatchRow \cup {None}]
    /\ settlements \in [Attempts -> SettlementRow \cup {None}]
    /\ completions \subseteq Attempts
    /\ recoveries \in [Attempts -> RecoveryRow \cup {None}]
    /\ retries \subseteq Attempts
    /\ stream \in [Attempts -> {"none", "ready", "pending", "acked"}]
    /\ consumers \in [Consumers -> HandlerState]
    /\ crashes \in 0..MaxCrashes

\* worker_consumer.py, worker_terminal_adapter.py and worker_recovery_-
\* application.py: an entry leaves the stream only when its slot is free, so
\* no acknowledged entry can leave a worker occupied with nobody to free it.
AckedIsReleased ==
    \A a \in Attempts : stream[a] = "acked" => ~Held(Slot(a))

\* worker_recovery_application.py:__call__: a retry is dispatched only when
\* the attempt before it has a receipt that orders the retry and that
\* receipt's own release, not a competing settlement, freed its slot.
RetryFollowsRelease ==
    \A a \in Attempts :
        Dispatched(a) /\ a.ordinal > 1 =>
            LET b == Previous(a)
            IN  /\ recoveries[b] # None
                /\ recoveries[b].retry
                /\ ~Held(Slot(b))
                /\ Recorded(Slot(b), recoveries[b].obs)

\* worker_settlement.py and postgres_worker_recovery.py: the receipt is
\* durable before the release it explains, so whatever crashes, a released
\* slot can always be traced to the one receipt that released it.
ReleaseHasReceipt ==
    \A a \in Attempts :
        Dispatched(a) =>
            \A n \in DOMAIN applied[Slot(a)] :
                applied[Slot(a)][n].kind = "release" =>
                    \E r \in Receipts(a) : r.obs = applied[Slot(a)][n]

\* search_state.py: a candidate is closed as succeeded only on a result whose
\* settlement released the slot, and as failed or cancelled only on a
\* recovery receipt that did; the two may race for one attempt.
TerminalHasEvidence ==
    \A a \in Attempts :
        candidates[a.candidate].ordinal = a.ordinal =>
            CASE candidates[a.candidate].phase = "succeeded" ->
                    /\ a \in completions
                    /\ settlements[a] # None
                    /\ Recorded(Slot(a), settlements[a].obs)
                    /\ ~Held(Slot(a))
              [] candidates[a.candidate].phase \in {"failed", "cancelled"} ->
                    /\ recoveries[a] # None
                    /\ Recorded(Slot(a), recoveries[a].obs)
                    /\ ~Held(Slot(a))
              [] OTHER -> TRUE

\* search_state.py: a late replay of an earlier attempt never reopens or
\* overwrites a closed candidate; only a failed one runs again, and only with
\* its next attempt.
CandidateHistory ==
    [][\A c \in Candidates :
          LET old == candidates[c]  new == candidates'[c]
          IN  /\ old.phase \in {"succeeded", "cancelled"} => new = old
              /\ old.phase = "failed" =>
                     \/ new = old
                     \/ /\ new.phase = "running"
                        /\ new.ordinal = old.ordinal + 1
              /\ old.phase = "running" => new.ordinal = old.ordinal]_vars

\* postgres_worker_recovery.py:recover: "If the process stops after receipt
\* insertion, a new adapter instance resumes from that receipt and applies the
\* same lease observation and capacity release."
ReceiptResumable ==
    \A a \in Attempts :
        recoveries[a] # None /\ Held(Slot(a)) =>
            \/ Recorded(Slot(a), recoveries[a].obs)
            \/ Applies(Slot(a), recoveries[a].obs)

\* worker_settlement.py "closes the serial worker lifecycle after any bounded
\* handoff" (docs/strategy-lab-v2.md): a run that ends while its lease is
\* active, its slot held and nothing yet settled can be settled.
ActiveRunCanSettle ==
    \A p \in Consumers :
        /\ At(p, "settle")
        /\ Held(Id(p))
        /\ ActiveAt(Id(p), clock)
        /\ Receipts(Attempt(p)) = {}
        => CanSettle(p)

\* workers.py and worker_recovery_application.py: an immutable trial occupies
\* at most one slot, however its attempts and the workers are interleaved.
OneSlotPerCandidate ==
    \A i, j \in Ids :
        /\ Held(i) /\ Held(j)
        /\ i.attempt.candidate = j.attempt.candidate
        => i = j

Entries == INSTANCE EntryDelivery WITH Message <- Attempts, status <- stream

\* postgres_search_dispatch.py and worker_consumer.py: through replayed calls,
\* duplicate deliveries and late acknowledgements an attempt's entry is put on
\* the stream once and never comes back after its acknowledgement, as
\* EntryDelivery specifies.
EntryLifecycle == Entries!DeliverySafety

\* The attempts the protocol leaves behind.  Once the search is cancelled a
\* result can no longer be closed as succeeded, nor a recovery that began
\* earlier as failed, as cancelled or by its retry: search_state.py refuses
\* these phases, and transition times before that of the cancellation.  A
\* result whose settlement lost the slot to the recovery of another consumer
\* is never closed, and hides that recovery from every later delivery.
OrdersRetry(a) == recoveries[a] # None /\ recoveries[a].retry

CancelledLate(a) ==
    /\ search.cancelled
    /\ \/ a \in completions
       \/ /\ recoveries[a] # None
          /\ \/ recoveries[a].obs.observed_at < search.updated_at
             \/ /\ recoveries[a].obs.observed_at = search.updated_at
                /\ recoveries[a].reason # "cancelled"

ResultLostSlot(a) ==
    /\ a \in completions
    /\ recoveries[a] # None
    /\ Recorded(Slot(a), recoveries[a].obs)

\* The time of the retry lies beyond MaxTime, where the model's clock stops.
RetryBeyondBound(a) ==
    OrdersRetry(a) /\ recoveries[a].obs.observed_at + Backoff > MaxTime

LeftBehind(a) ==
    CancelledLate(a) \/ ResultLostSlot(a) \/ RetryBeyondBound(a)

\* worker_consumer.py, with block_ms > 0: the entry of an attempt that is not
\* left behind is in the end acknowledged.  RETRY answers, those a retry gets
\* until its backoff is over included, do not redeliver it for ever.
EntryAcked ==
    \A a \in Attempts :
        Dispatched(a) ~> (stream[a] = "acked" \/ LeftBehind(a))

\* worker_settlement.py and worker_recovery.py: every slot a dispatch takes is
\* in the end free again, by a settlement or by a recovery.
SlotFreed ==
    \A a \in Attempts : Dispatched(a) ~> (Dispatched(a) /\ ~Held(Slot(a)))

\* search_state.py, with block_ms > 0: a candidate that runs an attempt gets
\* its terminal receipt by settlement, failure or cancellation, unless the
\* attempt is left behind or its run settled as failed, for which no handler
\* writes a receipt.
CandidateCloses ==
    \A a \in Attempts :
        Running(a) ~> \/ ~Running(a)
                      \/ LeftBehind(a)
                      \/ settlements[a] # None /\ settlements[a].outcome = "failed"
=============================================================================
