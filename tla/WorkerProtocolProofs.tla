------------------------ MODULE WorkerProtocolProofs ------------------------
(***************************************************************************)
(* The worker protocol, proved for any number of candidates, attempts,     *)
(* workers and consumers, any durations, and any crashes, cancellations    *)
(* and heartbeats: it uses the ledger only as LeaseCapacity allows, and    *)
(* its safety properties follow from one inductive invariant.              *)
(***************************************************************************)
EXTENDS WorkerProtocol, LeaseCapacityProofs

----------------------------------------------------------------------------
(* The inductive invariant.                                                *)

\* The release observations that can have been built by now.
Releases ==
    {ReleaseObservation(n, t, g) :
        n \in 1..MaxObservations, t \in 0..clock, g \in Origins}

\* The heartbeats that can have been built by now; they leave room for a
\* release in the history.
Beats ==
    {HeartbeatObservation(n, t, "worker") :
        n \in 1..(MaxObservations - 1), t \in 0..clock}

RoomForRelease ==
    \A i \in Ids :
        applied[i] # <<>> /\ applied[i][Len(applied[i])].kind = "heartbeat" =>
            Len(applied[i]) < MaxObservations

\* The slot of attempt a is free, and observation o is what freed it.
FreedBy(a, o) == Dispatched(a) /\ ~Held(Slot(a)) /\ Recorded(Slot(a), o)

\* The attempt before a has a receipt that orders a, and was freed by it.
RetryOrdered(a) ==
    LET b == Previous(a)
    IN  /\ recoveries[b] # None
        /\ recoveries[b].retry
        /\ FreedBy(b, recoveries[b].obs)

CallOK(a) ==
    calls[a] # None =>
        /\ calls[a].now <= clock
        /\ calls[a].id # None => calls[a].id.attempt = a /\ leases[calls[a].id] # None
        /\ a.ordinal > 1 => RetryOrdered(a)

DispatchOK(a) ==
    Dispatched(a) =>
        /\ dispatches[a].at <= clock
        /\ Slot(a).attempt = a
        /\ reservations[Slot(a)] # None
        /\ leases[Slot(a)] # None
        /\ a.ordinal > 1 => RetryOrdered(a)

ReceiptOK(a) ==
    /\ settlements[a] # None => Dispatched(a) /\ settlements[a].obs \in Releases
    /\ recoveries[a] # None =>
          /\ Dispatched(a)
          /\ recoveries[a].obs \in Releases
          /\ recoveries[a].retry => a.ordinal < MaxAttempts

StreamOK(a) ==
    /\ stream[a] = "none" <=> ~Dispatched(a)
    /\ stream[a] = "acked" => ~Held(Slot(a))

RowsOK == \A a \in Attempts : CallOK(a) /\ DispatchOK(a) /\ ReceiptOK(a) /\ StreamOK(a)

\* Slots are reserved by dispatches only, and an attempt is dispatched once.
SlotOfDispatch ==
    \A i \in Ids :
        reservations[i] # None => Dispatched(i.attempt) /\ Slot(i.attempt) = i

\* The attempts of a candidate are dispatched in order, each after the slot of
\* the one before was freed.
CandidateOK ==
    /\ search.updated_at <= clock
    /\ \A c \in Candidates :
          /\ candidates[c].count = candidates[c].ordinal
          /\ candidates[c].phase = "pending" <=> candidates[c].ordinal = 0
    /\ \A a \in Attempts :
          /\ Dispatched(a) <=> a.ordinal <= candidates[a.candidate].ordinal
          /\ a.ordinal < candidates[a.candidate].ordinal => ~Held(Slot(a))

AfterPlan == {"receipt", "recover_release", "persist_retry", "close_prior",
              "close_terminal", "redispatch", "await"}
AfterReceipt == AfterPlan \ {"receipt"}
AfterFreed == AfterReceipt \ {"recover_release"}

\* What a handler in state k can rely on.
HandlerOK(k) ==
    /\ k.pc = "idle" => ~k.beating /\ k.beat = None
    /\ k.pc # "idle" => /\ k.attempt \in Attempts
                        /\ Dispatched(k.attempt)
                        /\ stream[k.attempt] \in {"pending", "acked"}
    /\ k.beat # None => k.beat \in Beats
    /\ k.pc = "recover" => k.at \in 0..clock /\ k.reason \in Reasons
    /\ k.pc \in {"settle", "settlement", "complete", "settle_release"} =>
          k.outcome \in Outcomes
    /\ k.pc \in {"settlement", "complete", "settle_release"} => k.obs \in Releases
    /\ k.pc \in {"complete", "settle_release"} =>
          settlements[k.attempt] = [obs |-> k.obs, outcome |-> k.outcome]
    /\ k.pc \in AfterPlan =>
          /\ k.reason \in Reasons /\ k.obs \in Releases
          /\ k.retry => k.attempt.ordinal < MaxAttempts
    /\ k.pc \in AfterReceipt =>
          recoveries[k.attempt] = [reason |-> k.reason, obs |-> k.obs, retry |-> k.retry]
    /\ k.pc \in AfterFreed => FreedBy(k.attempt, k.obs)
    /\ k.pc \in {"persist_retry", "close_prior", "redispatch", "await"} => k.retry
    /\ k.pc \in {"close", "ack"} => ~Held(Slot(k.attempt))

HandlersOK == \A p \in Consumers : HandlerOK(consumers[p])

ProtocolInv ==
    /\ TypeOK /\ LedgerInv /\ RoomForRelease
    /\ RowsOK /\ SlotOfDispatch /\ CandidateOK /\ HandlersOK
    /\ TerminalHasEvidence /\ ReleaseHasReceipt

----------------------------------------------------------------------------
(* The steps by what they change.                                          *)

\* Every variable but the handlers.
Shared == <<ledgerVars, searchVars, calls, dispatches, receipts, stream, crashes>>

\* Only these steps write a table, the stream, a call or the clock; all other
\* steps of a handler change nothing but its own position.
LEMMA Kinds ==
    ASSUME [Next]_vars
    PROVE  \/ \E a \in Attempts : Submit(a) \/ Dispatch(a) \/ EndCall(a)
           \/ RequestCancellation \/ ClockTick
           \/ \E i \in Ids : AssignWorker(i)
           \/ \E p \in Consumers, a \in Attempts : Claim(p, a)
           \/ \E p \in Consumers :
                \/ Ack(p) \/ HeartbeatApply(p) \/ RecordSettlement(p)
                \/ RecordCompletion(p) \/ Release(p) \/ RecordReceipt(p)
                \/ PersistRetry(p) \/ CloseSucceeded(p) \/ ClosePrior(p)
                \/ Redispatch(p) \/ Crash(p)
           \/ UNCHANGED Shared
<1>1. ASSUME NEW p \in Consumers, Handler(p)
      PROVE  \/ Ack(p) \/ RecordSettlement(p)
             \/ RecordCompletion(p) \/ Release(p) \/ RecordReceipt(p)
             \/ PersistRetry(p) \/ CloseSucceeded(p) \/ ClosePrior(p)
             \/ Redispatch(p) \/ UNCHANGED Shared
  BY <1>1
     DEF Handler, Local, Shared, CloseReplayed, CloseRefused,
         CloseWithoutResult, NothingToReplay, PreflightStale,
         PreflightAdvanced, PreflightCancelled, PreflightRun,
         SeeCancellation, MonitorFails, ProcessFails, ProcessCompletes,
         Settle, SettleReplay, SettleRefused, SettlementConflicts,
         ReleaseReplayed, ReleaseRefused, Recover, ResumeRecovery,
         RecoverRefused, ReceiptConflicts, PriorReplayed, PriorRefused,
         Redispatched
<1>2. ASSUME NEW p \in Consumers, HeartbeatLoop(p)
      PROVE  HeartbeatApply(p) \/ UNCHANGED Shared
  BY <1>2 DEF HeartbeatLoop, HeartbeatSample, HeartbeatRefused, Local, Shared
<1>3. UNCHANGED vars => UNCHANGED Shared
  BY DEF vars, Shared
<1> QED
  BY <1>1, <1>2, <1>3 DEF Next, Dispatcher

----------------------------------------------------------------------------
(* What the invariant says of a handler, a call and an observation.        *)

\* The attempt before a retry is an attempt of the same candidate.
LEMMA PreviousFacts ==
    ASSUME NEW a \in Attempts, a.ordinal > 1
    PROVE  /\ Previous(a) \in Attempts
           /\ Previous(a).ordinal = a.ordinal - 1
           /\ Previous(a).candidate = a.candidate
  BY ProtocolAssumption DEF Previous

\* A retry that the receipt of an attempt may order is an attempt.
LEMMA NextFacts ==
    ASSUME NEW a \in Attempts, a.ordinal < MaxAttempts
    PROVE  /\ NextAttempt(a) \in Attempts
           /\ NextAttempt(a).ordinal = a.ordinal + 1
           /\ NextAttempt(a).candidate = a.candidate
           /\ NextAttempt(a).ordinal > 1
           /\ Previous(NextAttempt(a)) = a
<1>1. NextAttempt(a) = [candidate |-> a.candidate, ordinal |-> a.ordinal + 1]
  BY ProtocolAssumption DEF NextAttempt
<1>2. Previous(NextAttempt(a)) = [candidate |-> a.candidate, ordinal |-> a.ordinal]
  BY <1>1, ProtocolAssumption DEF Previous
<1> QED
  BY <1>1, <1>2, ProtocolAssumption

\* A dispatched attempt has its slot, with a reservation and a lease.
LEMMA SlotFacts ==
    ASSUME TypeOK, RowsOK, NEW a \in Attempts, Dispatched(a)
    PROVE  /\ dispatches[a] \in DispatchRow
           /\ Slot(a) \in Ids
           /\ Slot(a).attempt = a
           /\ reservations[Slot(a)] # None
           /\ leases[Slot(a)] # None
           /\ dispatches[a].at \in 0..clock
  BY DEF TypeOK, RowsOK, DispatchOK, Dispatched, Slot, DispatchRow, LedgerTypeOK

\* A handler that has taken an entry works on the slot of its attempt.
LEMMA HandlerFacts ==
    ASSUME ProtocolInv, NEW p \in Consumers, ~At(p, "idle")
    PROVE  /\ Attempt(p) \in Attempts
           /\ Dispatched(Attempt(p))
           /\ Id(p) = Slot(Attempt(p))
           /\ Id(p) \in Ids
           /\ Id(p).attempt = Attempt(p)
           /\ reservations[Id(p)] # None
           /\ leases[Id(p)] # None
           /\ DispatchedAt(p) \in 0..clock
<1>1. Attempt(p) \in Attempts /\ Dispatched(Attempt(p))
  BY DEF ProtocolInv, HandlersOK, HandlerOK, At, Attempt
<1>2. Id(p) = Slot(Attempt(p)) /\ DispatchedAt(p) = dispatches[Attempt(p)].at
  BY DEF Id, Slot, DispatchedAt
<1> QED
  BY <1>1, <1>2, SlotFacts DEF ProtocolInv

\* The observations that can have been built are rows of lease_observations.
LEMMA ReleaseTypes ==
    ASSUME clock \in Nat
    PROVE  Releases \subseteq Observation /\ Beats \subseteq Observation
  BY ObservationTypes, DurationAssumption, ProtocolAssumption DEF Releases, Beats

\* A retry's lease starts at a time.
LEMMA LeaseStartType ==
    ASSUME ProtocolInv, NEW a \in Attempts, InCall(a)
    PROVE  LeaseStart(a) \in Nat
<1>1. calls[a] \in Call /\ CallOK(a)
  BY DEF ProtocolInv, TypeOK, InCall, RowsOK
<1>2. CASE a.ordinal = 1
  BY <1>1, <1>2 DEF LeaseStart, Now, Call
<1>3. CASE a.ordinal # 1
  <2>1. a.ordinal > 1
    BY <1>3, ProtocolAssumption
  <2>2. Previous(a) \in Attempts /\ recoveries[Previous(a)] # None
    BY <1>1, <2>1, PreviousFacts DEF CallOK, InCall, RetryOrdered
  <2>3. recoveries[Previous(a)] \in RecoveryRow
    BY <2>2 DEF ProtocolInv, TypeOK
  <2>4. recoveries[Previous(a)].obs.observed_at \in Nat
    BY <2>3 DEF RecoveryRow, Observation
  <2> QED
    BY <1>3, <2>4, ProtocolAssumption DEF LeaseStart
<1> QED
  BY <1>2, <1>3

----------------------------------------------------------------------------
(* The protocol uses the ledger only as LeaseCapacity allows.              *)

\* Every step of the API, a handler or the clock is a transaction of the
\* ledger with arguments a caller may pass, or leaves the ledger alone.
LEMMA ProtocolLedgerStep ==
    ASSUME ProtocolInv, [Next]_vars
    PROVE  [LedgerNext]_ledgerVars
<1>0. clock \in Nat
  BY DEF ProtocolInv, LedgerInv, LedgerTypeOK
<1>1. ASSUME NEW i \in Ids, AssignWorker(i)
      PROVE  [LedgerNext]_ledgerVars
  <2>1. i.attempt \in Attempts /\ InCall(i.attempt)
    BY <1>1 DEF AssignWorker, Ids
  <2>2. LeaseStart(i.attempt) \in Nat
    BY <2>1, LeaseStartType
  <2>3. LeaseStart(i.attempt) <= Now(i.attempt) /\ Now(i.attempt) <= clock
    BY <1>1, <2>1 DEF AssignWorker, CanAssign, ProtocolInv, RowsOK, CallOK, InCall, Now
  <2>4. Now(i.attempt) \in Nat
    BY <2>1 DEF ProtocolInv, TypeOK, InCall, Now, Call
  <2>5. LeaseStart(i.attempt) \in 0..clock
    BY <1>0, <2>2, <2>3, <2>4
  <2>6. CASE leases[i] # None
    BY <1>1, <2>6 DEF AssignWorker, ledgerVars, ledger
  <2>7. CASE leases[i] = None
    BY <1>1, <2>5, <2>7 DEF AssignWorker, LedgerNext, AnyPersistLease
  <2> QED
    BY <2>6, <2>7
<1>2. ASSUME NEW a \in Attempts, Dispatch(a)
      PROVE  [LedgerNext]_ledgerVars
  <2>1. calls[a] \in Call /\ CallOK(a) /\ calls[a].id # None
    BY <1>2 DEF Dispatch, InCall, ProtocolInv, TypeOK, RowsOK
  <2>2. calls[a].id \in Ids /\ Now(a) \in 0..clock
    BY <1>0, <1>2, <2>1 DEF Dispatch, InCall, CallOK, Call, Now
  <2> QED
    BY <1>2, <2>2 DEF Dispatch, LedgerNext, AnyReserve
<1>3. ASSUME NEW p \in Consumers, HeartbeatApply(p)
      PROVE  [LedgerNext]_ledgerVars
  <2>1. HandlerOK(consumers[p]) /\ consumers[p].beat # None
    BY <1>3 DEF HeartbeatApply, ProtocolInv, HandlersOK
  <2>2. ~At(p, "idle") /\ consumers[p].beat \in Beats
    BY <2>1 DEF HandlerOK, At
  <2>3. Id(p) \in Ids
    BY <2>2, HandlerFacts
  <2>4. PICK n \in 1..(MaxObservations - 1), t \in 0..clock :
            consumers[p].beat = HeartbeatObservation(n, t, "worker")
    BY <2>2 DEF Beats
  <2>5. n \in 1..MaxObservations /\ "worker" \in Origins
    BY DurationAssumption, ProtocolAssumption
  <2> QED
    BY <1>3, <2>3, <2>4, <2>5 DEF HeartbeatApply, LedgerNext, AnyHeartbeat
<1>4. ASSUME NEW p \in Consumers, Release(p)
      PROVE  [LedgerNext]_ledgerVars
  <2>1. HandlerOK(consumers[p]) /\ consumers[p].pc \in {"settle_release", "recover_release"}
    BY <1>4 DEF Release, Releasing, ProtocolInv, HandlersOK
  <2>2. ~At(p, "idle") /\ consumers[p].obs \in Releases
    BY <2>1 DEF HandlerOK, At, AfterPlan
  <2>3. Id(p) \in Ids
    BY <2>2, HandlerFacts
  <2> QED
    BY <1>4, <2>2, <2>3 DEF Release, Releases, LedgerNext, AnyRelease
<1>5. CASE ClockTick
  BY <1>5 DEF ClockTick, LedgerNext, LedgerTick
<1>6. CASE RequestCancellation \/ \E a \in Attempts : Submit(a) \/ EndCall(a)
  BY <1>6 DEF RequestCancellation, Submit, EndCall
<1>7. ASSUME NEW p \in Consumers, NEW a \in Attempts, Claim(p, a)
      PROVE  UNCHANGED ledgerVars
  BY <1>7 DEF Claim
<1>8. ASSUME NEW p \in Consumers,
             \/ Ack(p) \/ RecordSettlement(p) \/ RecordCompletion(p)
             \/ RecordReceipt(p) \/ PersistRetry(p) \/ CloseSucceeded(p)
             \/ ClosePrior(p) \/ Redispatch(p) \/ Crash(p)
      PROVE  UNCHANGED ledgerVars
  BY <1>8 DEF Ack, RecordSettlement, RecordCompletion, RecordReceipt,
              PersistRetry, CloseSucceeded, ClosePrior, Redispatch, Crash
<1>9. CASE UNCHANGED Shared
  BY <1>9 DEF Shared
<1> QED
  BY <1>1, <1>2, <1>3, <1>4, <1>5, <1>6, <1>7, <1>8, <1>9, Kinds

----------------------------------------------------------------------------
(* What no step takes back.                                                *)

\* Rows are written once: a dispatch, a settlement receipt, a recovery receipt
\* and a completion never change, and an entry handed out stays so.
LEMMA RowsStable ==
    ASSUME ProtocolInv, [Next]_vars, NEW a \in Attempts
    PROVE  /\ Dispatched(a) => dispatches'[a] = dispatches[a]
           /\ settlements[a] # None => settlements'[a] = settlements[a]
           /\ recoveries[a] # None => recoveries'[a] = recoveries[a]
           /\ a \in completions => a \in completions'
           /\ stream[a] \in {"pending", "acked"} => stream'[a] \in {"pending", "acked"}
<1> USE DEF ProtocolInv, TypeOK, Dispatched
<1>1. ASSUME NEW b \in Attempts, Dispatch(b)
      PROVE  /\ Dispatched(a) => dispatches'[a] = dispatches[a]
             /\ stream[a] \in {"pending", "acked"} => stream'[a] = stream[a]
             /\ UNCHANGED receipts
  <2>1. calls[b].id.attempt = b /\ dispatches[b] = None
    BY <1>1 DEF Dispatch, CanDispatch, RowsOK, CallOK, InCall
  <2>2. stream[b] = "none"
    BY <2>1 DEF RowsOK, StreamOK
  <2> QED
    BY <1>1, <2>1, <2>2 DEF Dispatch
<1>2. ASSUME NEW p \in Consumers, RecordSettlement(p)
      PROVE  /\ settlements[a] # None => settlements'[a] = settlements[a]
             /\ UNCHANGED <<dispatches, completions, recoveries, stream>>
  BY <1>2 DEF RecordSettlement
<1>3. ASSUME NEW p \in Consumers, RecordReceipt(p)
      PROVE  /\ recoveries[a] # None => recoveries'[a] = recoveries[a]
             /\ UNCHANGED <<dispatches, completions, settlements, stream>>
  BY <1>3 DEF RecordReceipt
<1>4. ASSUME NEW p \in Consumers, RecordCompletion(p)
      PROVE  /\ a \in completions => a \in completions'
             /\ UNCHANGED <<dispatches, recoveries, settlements, stream>>
  BY <1>4 DEF RecordCompletion
<1>5. ASSUME NEW p \in Consumers, NEW b \in Attempts, Claim(p, b)
      PROVE  /\ stream[a] \in {"pending", "acked"} => stream'[a] \in {"pending", "acked"}
             /\ UNCHANGED <<dispatches, receipts>>
  BY <1>5 DEF Claim
<1>6. ASSUME NEW p \in Consumers, Ack(p)
      PROVE  /\ stream[a] \in {"pending", "acked"} => stream'[a] \in {"pending", "acked"}
             /\ UNCHANGED <<dispatches, receipts>>
  BY <1>6 DEF Ack
<1>7. ASSUME \/ RequestCancellation \/ ClockTick \/ UNCHANGED Shared
             \/ \E b \in Attempts : Submit(b) \/ EndCall(b)
             \/ \E i \in Ids : AssignWorker(i)
             \/ \E p \in Consumers :
                  \/ HeartbeatApply(p) \/ Release(p) \/ PersistRetry(p)
                  \/ CloseSucceeded(p) \/ ClosePrior(p) \/ Redispatch(p) \/ Crash(p)
      PROVE  UNCHANGED <<dispatches, settlements, completions, recoveries, stream>>
  BY <1>7 DEF RequestCancellation, ClockTick, Shared, Submit, EndCall, AssignWorker,
              HeartbeatApply, Release, PersistRetry, CloseSucceeded, ClosePrior,
              Redispatch, Crash, receipts
<1> QED
  BY <1>1, <1>2, <1>3, <1>4, <1>5, <1>6, <1>7, Kinds DEF receipts

\* The observations that can have been built only become more.
LEMMA ObservationsStable ==
    ASSUME ProtocolInv, [Next]_vars
    PROVE  /\ clock <= clock' /\ clock \in Nat /\ clock' \in Nat
           /\ Releases \subseteq Releases'
           /\ Beats \subseteq Beats'
<1>1. LedgerInv /\ LedgerInv'
  BY ProtocolLedgerStep, InvStep DEF ProtocolInv
<1>2. clock \in Nat /\ clock' \in Nat
  BY <1>1 DEF LedgerInv, LedgerTypeOK
<1>3. clock <= clock'
  BY <1>1, ProtocolLedgerStep
     DEF LedgerNext, AnyReserve, AnyPersistLease, AnyHeartbeat, AnyRelease,
         LedgerTick, Tick, ledgerVars, LedgerInv, LedgerTypeOK
<1>4. 0..clock \subseteq 0..(clock')
  BY <1>2, <1>3
<1> QED
  BY <1>2, <1>3, <1>4 DEF Releases, Beats

\* A freed slot of a dispatched attempt stays free, and what freed it stays
\* in its history.
LEMMA FreedStable ==
    ASSUME ProtocolInv, [Next]_vars, NEW a \in Attempts, Dispatched(a)
    PROVE  /\ Dispatched(a)'
           /\ Slot(a)' = Slot(a)
           /\ Slot(a) \in Ids
           /\ ~Held(Slot(a)) => ~Held(Slot(a))'
           /\ \A o : Recorded(Slot(a), o) => Recorded(Slot(a), o)'
           /\ \A o : FreedBy(a, o) => FreedBy(a, o)'
<1>1. dispatches'[a] = dispatches[a]
  BY RowsStable
<1>2. Dispatched(a)' /\ Slot(a)' = Slot(a)
  BY <1>1 DEF Dispatched, Slot
<1>3. Slot(a) \in Ids /\ reservations[Slot(a)] # None
  BY SlotFacts DEF ProtocolInv
<1> DEFINE i == Slot(a)
<1>4. \A j \in Ids :
        /\ reservations[j] # None /\ ~Held(j) => ~Held(j)'
        /\ \A o : Recorded(j, o) => Recorded(j, o)'
  BY LedgerStable, ProtocolLedgerStep DEF ProtocolInv
<1>5. PICK j \in Ids : j = Slot(a)
  BY <1>3
<1>6. (~Held(j) => ~Held(j)') /\ \A o : Recorded(j, o) => Recorded(j, o)'
  BY <1>3, <1>4, <1>5
<1>7. ~Held(Slot(a)) => ~Held(Slot(a))'
  BY <1>2, <1>5, <1>6
<1>8. \A o : Recorded(Slot(a), o) => Recorded(Slot(a), o)'
  BY <1>2, <1>5, <1>6
<1> QED
  BY <1>2, <1>3, <1>7, <1>8 DEF FreedBy

\* What a handler relied on before a step, it can rely on after the step.
LEMMA HandlerStable ==
    ASSUME ProtocolInv, [Next]_vars, NEW k \in HandlerState, HandlerOK(k)
    PROVE  HandlerOK(k)'
<1>1. Releases \subseteq Releases' /\ Beats \subseteq Beats' /\ 0..clock \subseteq 0..(clock')
  BY ObservationsStable
<1>2. CASE k.pc = "idle"
  BY <1>1, <1>2 DEF HandlerOK, AfterPlan, AfterReceipt, AfterFreed
<1>3. CASE k.pc # "idle"
  <2>1. k.attempt \in Attempts /\ Dispatched(k.attempt)
    BY <1>3 DEF HandlerOK
  <2>2. PICK a \in Attempts : a = k.attempt
    BY <2>1
  <2>3. /\ Dispatched(a)' /\ Slot(a)' = Slot(a)
        /\ ~Held(Slot(a)) => ~Held(Slot(a))'
        /\ FreedBy(a, k.obs) => FreedBy(a, k.obs)'
    BY <2>1, <2>2, FreedStable
  <2>4. /\ settlements[a] # None => settlements'[a] = settlements[a]
        /\ recoveries[a] # None => recoveries'[a] = recoveries[a]
        /\ stream[a] \in {"pending", "acked"} => stream'[a] \in {"pending", "acked"}
    BY RowsStable
  <2>5. k.pc \in {"complete", "settle_release"} => settlements[a] # None
    <3>1. k.outcome \in Outcomes /\ k.obs \in Observation =>
            [obs |-> k.obs, outcome |-> k.outcome] \in SettlementRow
      BY DEF SettlementRow
    <3>2. k.pc \in {"complete", "settle_release"} => settlements[a] \in SettlementRow
      BY <2>2, <3>1, ReleaseTypes, ObservationsStable DEF HandlerOK
    <3> QED
      BY <3>2, RowAssumption
  <2>6. k.pc \in AfterReceipt => recoveries[a] # None
    <3>1. k.reason \in Reasons /\ k.obs \in Observation =>
            [reason |-> k.reason, obs |-> k.obs, retry |-> k.retry] \in RecoveryRow
      BY DEF RecoveryRow, HandlerState
    <3>2. k.pc \in AfterReceipt => recoveries[a] \in RecoveryRow
      BY <2>2, <3>1, ReleaseTypes, ObservationsStable DEF HandlerOK, AfterReceipt
    <3> QED
      BY <3>2, RowAssumption
  <2>7. (k.pc \in {"complete", "settle_release"} =>
           settlements[a] = [obs |-> k.obs, outcome |-> k.outcome])'
    BY <2>2, <2>4, <2>5 DEF HandlerOK
  <2>8. (k.pc \in AfterReceipt =>
          recoveries[a] = [reason |-> k.reason, obs |-> k.obs, retry |-> k.retry])'
    BY <2>2, <2>4, <2>6 DEF HandlerOK
  <2>9. (k.pc \in AfterFreed => FreedBy(a, k.obs))'
    BY <2>2, <2>3 DEF HandlerOK
  <2>10. (k.pc \in {"close", "ack"} => ~Held(Slot(a)))'
    BY <2>2, <2>3 DEF HandlerOK
  <2>11. stream'[a] \in {"pending", "acked"}
    BY <1>3, <2>2, <2>4 DEF HandlerOK
  <2> QED
    BY <1>1, <1>3, <2>2, <2>3, <2>7, <2>8, <2>9, <2>10, <2>11 DEF HandlerOK
<1> QED
  BY <1>2, <1>3

\* A release that a settlement or a recovery computes from the history it has
\* loaded, and that applies to it, has the next free sequence number.
LEMMA ReleaseBuilt ==
    ASSUME ProtocolInv, NEW i \in Ids, NEW t \in 0..clock, NEW g \in Origins,
           Applies(i, ReleaseObservation(LastSequence(i) + 1, t, g))
    PROVE  ReleaseObservation(LastSequence(i) + 1, t, g) \in Releases
<1>1. applied[i] \in Seq(Observation)
  BY DEF ProtocolInv, LedgerInv, LedgerTypeOK
<1>2. applied[i] # <<>> => Len(applied[i]) < MaxObservations
  BY DEF Applies, FollowsHistory, ProtocolInv, RoomForRelease
<1>3. LastSequence(i) + 1 \in 1..MaxObservations
  BY <1>1, <1>2, DurationAssumption DEF LastSequence
<1> QED
  BY <1>3 DEF Releases

----------------------------------------------------------------------------
(* The handlers.  k is the handler's state before the step, m after it.    *)

\* GiveUp, Crash and Ack: an idle handler relies on nothing.
LEMMA IdleOK == Idle \in HandlerState /\ HandlerOK(Idle)'
  BY DEF Idle, HandlerState, Steps, HandlerOK, AfterPlan, AfterReceipt, AfterFreed

\* Claim: the entry a consumer takes is that of a dispatched attempt.
LEMMA ClaimOK ==
    ASSUME ProtocolInv, [Next]_vars, NEW p \in Consumers, NEW a \in Attempts,
           Claim(p, a)
    PROVE  LET m == [Idle EXCEPT !.pc = "replay", !.attempt = a]
           IN  m \in HandlerState /\ HandlerOK(m)'
<1>1. Dispatched(a) /\ stream'[a] = "pending"
  BY DEF Claim, ProtocolInv, RowsOK, StreamOK, TypeOK
<1>2. Dispatched(a)'
  BY <1>1, FreedStable
<1> QED
  BY <1>1, <1>2
     DEF Idle, HandlerState, Steps, HandlerOK, AfterPlan, AfterReceipt, AfterFreed

\* ProcessFails, ProcessCompletes and a heartbeat refused while the process
\* runs: the handler goes on with nothing but its attempt.
LEMMA FreshOK ==
    ASSUME ProtocolInv, [Next]_vars, NEW k \in HandlerState, HandlerOK(k)',
           k.pc # "idle", NEW t \in 0..clock
    PROVE  /\ LET m == [Idle EXCEPT !.pc = "recover", !.attempt = k.attempt,
                                    !.reason = "worker_crash", !.at = t]
              IN  m \in HandlerState /\ HandlerOK(m)'
           /\ \A o \in Outcomes :
                LET m == [Idle EXCEPT !.pc = "settle", !.attempt = k.attempt,
                                      !.outcome = o]
                IN  m \in HandlerState /\ HandlerOK(m)'
<1>1. t \in Nat /\ t \in 0..(clock')
  BY ObservationsStable
<1>2. k.attempt \in Attempts /\ Dispatched(k.attempt)'
      /\ stream'[k.attempt] \in {"pending", "acked"}
  BY DEF HandlerOK
<1>3. LET m == [Idle EXCEPT !.pc = "recover", !.attempt = k.attempt,
                            !.reason = "worker_crash", !.at = t]
      IN  m \in HandlerState /\ HandlerOK(m)'
  <2> DEFINE m == [Idle EXCEPT !.pc = "recover", !.attempt = k.attempt,
                               !.reason = "worker_crash", !.at = t]
  <2>1. m \in HandlerState
    BY <1>1, <1>2 DEF Idle, HandlerState, Steps, Reasons
  <2>2. HandlerOK(m)'
    BY <1>1, <1>2 DEF Idle, Reasons, HandlerOK, AfterPlan, AfterReceipt, AfterFreed
  <2> QED
    BY <2>1, <2>2
<1>4. ASSUME NEW o \in Outcomes
      PROVE  LET m == [Idle EXCEPT !.pc = "settle", !.attempt = k.attempt,
                                   !.outcome = o]
             IN  m \in HandlerState /\ HandlerOK(m)'
  <2> DEFINE m == [Idle EXCEPT !.pc = "settle", !.attempt = k.attempt, !.outcome = o]
  <2>1. m \in HandlerState
    BY <1>2 DEF Idle, HandlerState, Steps
  <2>2. HandlerOK(m)'
    BY <1>2 DEF Idle, HandlerOK, AfterPlan, AfterReceipt, AfterFreed
  <2> QED
    BY <2>1, <2>2
<1> QED
  BY <1>3, <1>4

\* BeginRecovery, with a reason of recovery.
LEMMA BeginRecoveryOK ==
    ASSUME ProtocolInv, [Next]_vars, NEW k \in HandlerState, HandlerOK(k)',
           k.pc \in {"preflight", "run"}, NEW r \in Reasons, NEW t \in 0..clock
    PROVE  LET m == [k EXCEPT !.pc = "recover", !.reason = r, !.at = t]
           IN  m \in HandlerState /\ HandlerOK(m)'
<1> DEFINE m == [k EXCEPT !.pc = "recover", !.reason = r, !.at = t]
<1>1. t \in Nat /\ t \in 0..(clock')
  BY ObservationsStable
<1>2. m \in HandlerState
  BY <1>1 DEF HandlerState, Steps
<1>3. /\ m.pc = "recover" /\ m.reason = r /\ m.at = t
      /\ m.attempt = k.attempt /\ m.beat = k.beat
  BY DEF HandlerState
<1>4. HandlerOK(m)'
  BY <1>1, <1>3 DEF HandlerOK, AfterPlan, AfterReceipt, AfterFreed
<1> QED
  BY <1>2, <1>4

\* RecoverWith: a receipt, computed or stored, that a recovery may follow.
LEMMA RecoverWithOK ==
    ASSUME ProtocolInv, [Next]_vars, NEW k \in HandlerState, HandlerOK(k)',
           k.pc = "recover", NEW r \in RecoveryRow, r.obs \in Releases,
           r.retry => k.attempt.ordinal < MaxAttempts
    PROVE  LET m == [k EXCEPT !.pc = "receipt", !.reason = r.reason,
                              !.obs = r.obs, !.retry = r.retry]
           IN  m \in HandlerState /\ HandlerOK(m)'
<1>1. r.obs \in Releases'
  BY ObservationsStable
<1> QED
  BY <1>1
     DEF HandlerState, RecoveryRow, Steps, HandlerOK, AfterPlan, AfterReceipt, AfterFreed

\* Goto: every step of a handler's path has established what the next one
\* relies on, and kept the rest.
LEMMA GotoOK ==
    ASSUME NEW k \in HandlerState, NEW x \in Steps \ {"idle"}, HandlerOK(k)',
           \/ x \in {"ack", "close"} /\ k.pc # "idle" /\ ~Held(Slot(k.attempt))'
           \/ x = "preflight" /\ k.pc = "replay"
           \/ /\ x \in {"complete", "settle_release"} /\ k.pc \in {"settlement", "complete"}
              /\ settlements'[k.attempt] = [obs |-> k.obs, outcome |-> k.outcome]
           \/ /\ x = "recover_release" /\ k.pc = "receipt"
              /\ recoveries'[k.attempt] =
                    [reason |-> k.reason, obs |-> k.obs, retry |-> k.retry]
           \/ /\ x = IF k.retry THEN "persist_retry" ELSE "close_terminal"
              /\ k.pc = "recover_release"
              /\ FreedBy(k.attempt, k.obs)'
           \/ x = "close_prior" /\ k.pc = "persist_retry"
           \/ x = "redispatch" /\ k.pc = "close_prior"
           \/ x = "await" /\ k.pc = "redispatch"
    PROVE  LET m == [k EXCEPT !.pc = x]
           IN  m \in HandlerState /\ HandlerOK(m)'
<1> DEFINE m == [k EXCEPT !.pc = x]
<1>1. m \in HandlerState
  BY DEF HandlerState
<1>2. /\ m.pc = x /\ m.attempt = k.attempt /\ m.at = k.at /\ m.reason = k.reason
      /\ m.obs = k.obs /\ m.outcome = k.outcome /\ m.retry = k.retry
      /\ m.beating = k.beating /\ m.beat = k.beat
  BY DEF HandlerState
<1>3. HandlerOK(m)'
  BY <1>2 DEF HandlerOK, AfterPlan, AfterReceipt, AfterFreed, Steps
<1> QED
  BY <1>1, <1>3

\* The heartbeat loop: it changes only its own part of the handler's state.
LEMMA BeatOK ==
    ASSUME NEW k \in HandlerState, HandlerOK(k)', k.pc # "idle",
           NEW b \in (Beats' \cap Observation) \cup {None}, NEW f \in BOOLEAN, NEW n \in Nat
    PROVE  LET m == [k EXCEPT !.beat = b, !.beating = f, !.seq = n]
           IN  m \in HandlerState /\ HandlerOK(m)'
<1> DEFINE m == [k EXCEPT !.beat = b, !.beating = f, !.seq = n]
<1>1. m \in HandlerState
  BY DEF HandlerState
<1>2. /\ m.pc = k.pc /\ m.attempt = k.attempt /\ m.at = k.at /\ m.reason = k.reason
      /\ m.obs = k.obs /\ m.outcome = k.outcome /\ m.retry = k.retry /\ m.beat = b
  BY DEF HandlerState
<1>3. HandlerOK(m)'
  BY <1>2 DEF HandlerOK
<1> QED
  BY <1>1, <1>3

\* Settle and SettleReplay: the handler keeps the observation it will record.
LEMMA SettleOK ==
    ASSUME NEW k \in HandlerState, HandlerOK(k)', k.pc = "settle",
           NEW o \in Observation, o \in Releases'
    PROVE  LET m == [k EXCEPT !.pc = "settlement", !.obs = o]
           IN  m \in HandlerState /\ HandlerOK(m)'
<1> DEFINE m == [k EXCEPT !.pc = "settlement", !.obs = o]
<1>1. m \in HandlerState
  BY DEF HandlerState, Steps
<1>2. /\ m.pc = "settlement" /\ m.attempt = k.attempt /\ m.outcome = k.outcome
      /\ m.obs = o /\ m.beat = k.beat
  BY DEF HandlerState
<1>3. HandlerOK(m)'
  BY <1>2 DEF HandlerOK, AfterPlan, AfterReceipt, AfterFreed
<1> QED
  BY <1>1, <1>3

\* release_capacity has released the slot, by the observation of the receipt.
LEMMA ReleaseFrees ==
    ASSUME ProtocolInv, [Next]_vars, NEW p \in Consumers, Release(p),
           NEW k \in HandlerState, k = consumers[p]
    PROVE  FreedBy(k.attempt, k.obs)'
<1>1. k.obs \in Releases /\ ~At(p, "idle")
  BY DEF Release, Releasing, ProtocolInv, HandlersOK, HandlerOK, AfterPlan, At
<1>2. PICK n \in 1..MaxObservations, t \in 0..clock, g \in Origins :
          k.obs = ReleaseObservation(n, t, g)
  BY <1>1 DEF Releases
<1>3. PICK a \in Attempts, i \in Ids : a = k.attempt /\ i = Slot(a) /\ i = Id(p) /\ Dispatched(a)
  BY <1>1, HandlerFacts DEF Attempt
<1>4. Dispatched(a)' /\ Slot(a)' = i
  BY <1>3, FreedStable
<1>5. n \in Nat /\ t \in Nat /\ LedgerInv
  BY DurationAssumption DEF ProtocolInv, LedgerInv, LedgerTypeOK
<1>6. ReleaseCapacity(i, ReleaseObservation(n, t, g))
  BY <1>2, <1>3 DEF Release
<1>7. /\ reservations[i] \in Reservation
      /\ applied' = [applied EXCEPT ![i] = Append(applied[i], k.obs)]
      /\ reservations' = [reservations EXCEPT ![i] =
                            [reservations[i] EXCEPT !.released_at = t]]
  BY <1>2, <1>5, <1>6, ReleaseEffect
<1>8. reservations'[i].released_at = t /\ ~Held(i)'
  BY <1>5, <1>7, NoneAssumption DEF Held, LedgerInv, LedgerTypeOK, Reservation
<1>9. applied[i] \in Seq(Observation) /\ k.obs \in Observation
      /\ applied'[i] = Append(applied[i], k.obs)
  BY <1>2, <1>5, <1>7, ObservationTypes DEF LedgerInv, LedgerTypeOK
<1>10. Recorded(i, k.obs)'
  BY <1>9, AppendFacts DEF Recorded
<1> QED
  BY <1>3, <1>4, <1>8, <1>10 DEF FreedBy

\* Handler p moves to a state whose facts hold after the step.
Moves(p) ==
    \E m \in HandlerState : consumers' = [consumers EXCEPT ![p] = m] /\ HandlerOK(m)'

\* A step along the handler's path moves it, when GotoOK applies.
LEMMA GotoMoves ==
    ASSUME NEW p \in Consumers, NEW k \in HandlerState, k = consumers[p],
           NEW x, Goto(p, x), [k EXCEPT !.pc = x] \in HandlerState,
           HandlerOK([k EXCEPT !.pc = x])'
    PROVE  Moves(p)
  BY DEF Goto, Moves

\* The steps after which the handler is idle again.
LEMMA GiveUpMoves ==
    ASSUME NEW p \in Consumers,
           \/ CloseRefused(p) \/ PreflightAdvanced(p) \/ SettleRefused(p)
           \/ SettlementConflicts(p) \/ ReleaseRefused(p) \/ RecoverRefused(p)
           \/ ReceiptConflicts(p) \/ PriorRefused(p) \/ Ack(p) \/ Crash(p)
    PROVE  Moves(p)
<1>1. GiveUp(p)
  BY DEF CloseRefused, PreflightAdvanced, SettleRefused, SettlementConflicts,
         ReleaseRefused, RecoverRefused, ReceiptConflicts, PriorRefused, Ack, Crash
<1> QED
  BY <1>1, IdleOK DEF GiveUp, Moves

\* The terminal writer: settle, record, complete, release and close.
LEMMA SettlementMoves ==
    ASSUME ProtocolInv, [Next]_vars, NEW p \in Consumers,
           NEW k \in HandlerState, k = consumers[p],
           \/ Settle(p) \/ SettleReplay(p) \/ RecordSettlement(p)
           \/ RecordCompletion(p) \/ CloseSucceeded(p) \/ CloseReplayed(p)
           \/ CloseWithoutResult(p) \/ NothingToReplay(p)
    PROVE  Moves(p)
<1>1. HandlerOK(k) /\ HandlerOK(k)'
  BY HandlerStable DEF ProtocolInv, HandlersOK
<1>2. k.pc # "idle"
  BY DEF Settle, SettleReplay, RecordSettlement, RecordCompletion, CloseSucceeded,
         CloseReplayed, CloseWithoutResult, NothingToReplay, At, Closing
<1>3. PICK a \in Attempts, i \in Ids :
          /\ a = k.attempt /\ a = Attempt(p)
          /\ i = Slot(a) /\ i = Id(p) /\ Dispatched(a)
          /\ DispatchedAt(p) \in 0..clock
  BY <1>2, HandlerFacts DEF Attempt, At
<1>4. ~Held(Slot(a)) => ~Held(Slot(a))'
  BY <1>3, FreedStable
<1>5. Releases \subseteq Releases' /\ Releases \subseteq Observation
  BY ObservationsStable, ReleaseTypes
<1>6. CASE Settle(p)
  <2>1. PICK t \in 0..clock : t = DispatchedAt(p)
    BY <1>3
  <2>2. "settlement" \in Origins
    BY ProtocolAssumption
  <2>3. PICK o \in Releases : o = SettlementObservation(p)
    BY <1>3, <1>6, <2>1, <2>2, ReleaseBuilt DEF Settle, CanSettle, SettlementObservation
  <2> DEFINE m == [k EXCEPT !.pc = "settlement", !.obs = o]
  <2>4. m \in HandlerState /\ HandlerOK(m)'
    BY <1>1, <1>5, <1>6, SettleOK DEF Settle, At
  <2>5. consumers' = [consumers EXCEPT ![p] = m]
    BY <1>6, <2>3 DEF Settle
  <2> QED
    BY <2>4, <2>5 DEF Moves
<1>7. CASE SettleReplay(p)
  <2>1. settlements[a].obs \in Releases
    BY <1>3, <1>7 DEF SettleReplay, SettlementReplays, ProtocolInv, RowsOK, ReceiptOK
  <2>2. PICK o \in Releases : o = settlements[a].obs
    BY <2>1
  <2> DEFINE m == [k EXCEPT !.pc = "settlement", !.obs = o]
  <2>3. m \in HandlerState /\ HandlerOK(m)'
    BY <1>1, <1>5, <1>7, SettleOK DEF SettleReplay, At
  <2>4. consumers' = [consumers EXCEPT ![p] = m]
    BY <1>3, <1>7, <2>2 DEF SettleReplay
  <2> QED
    BY <2>3, <2>4 DEF Moves
<1>8. CASE RecordSettlement(p)
  <2>1. settlements'[a] = [obs |-> k.obs, outcome |-> k.outcome] /\ k.pc = "settlement"
    BY <1>3, <1>8 DEF RecordSettlement, SettlementReceipt, At, ProtocolInv, TypeOK
  <2>2. PICK x \in {"complete", "settle_release"} : Goto(p, x)
    BY <1>8 DEF RecordSettlement
  <2> QED
    BY <1>1, <1>3, <2>1, <2>2, GotoOK, GotoMoves DEF Steps
<1>9. CASE RecordCompletion(p)
  <2>1. k.pc = "complete" /\ settlements'[a] = [obs |-> k.obs, outcome |-> k.outcome]
    BY <1>1, <1>3, <1>9 DEF RecordCompletion, At, HandlerOK
  <2> QED
    BY <1>1, <1>3, <1>9, <2>1, GotoOK, GotoMoves DEF RecordCompletion, Steps
<1>10. CASE CloseSucceeded(p) \/ CloseReplayed(p) \/ CloseWithoutResult(p)
  <2>1. ~Held(Slot(a)) /\ Goto(p, "ack")
    BY <1>1, <1>3, <1>10 DEF CloseSucceeded, CloseReplayed, CloseWithoutResult,
                             CommittedTerminal, HandlerOK, At
  <2>2. ~Held(Slot(k.attempt))'
    BY <1>3, <1>4, <2>1
  <2> QED
    BY <1>1, <1>2, <2>1, <2>2, GotoOK, GotoMoves DEF Steps
<1>11. CASE NothingToReplay(p)
  BY <1>1, <1>11, GotoOK, GotoMoves DEF NothingToReplay, At, Steps
<1> QED
  BY <1>6, <1>7, <1>8, <1>9, <1>10, <1>11

\* Preflight, the running process and its heartbeat loop.
LEMMA RunMoves ==
    ASSUME ProtocolInv, [Next]_vars, NEW p \in Consumers,
           NEW k \in HandlerState, k = consumers[p],
           \/ PreflightStale(p) \/ PreflightCancelled(p) \/ PreflightRun(p)
           \/ SeeCancellation(p) \/ MonitorFails(p) \/ ProcessFails(p)
           \/ \E o \in Outcomes : ProcessCompletes(p, o)
           \/ HeartbeatSample(p) \/ HeartbeatApply(p) \/ HeartbeatRefused(p)
    PROVE  Moves(p)
<1>1. HandlerOK(k) /\ HandlerOK(k)'
  BY HandlerStable DEF ProtocolInv, HandlersOK
<1>2. k.pc # "idle"
  BY <1>1 DEF PreflightStale, PreflightCancelled, PreflightRun, SeeCancellation,
         MonitorFails, ProcessFails, ProcessCompletes, HeartbeatSample,
         HeartbeatApply, HeartbeatRefused, At, HandlerOK
<1>3. PICK t \in 0..clock : t = clock
  BY DEF ProtocolInv, LedgerInv, LedgerTypeOK
<1>4. Beats \subseteq Beats' /\ Beats \subseteq Observation
  BY ObservationsStable, ReleaseTypes
<1>5. CASE \/ PreflightStale(p) \/ PreflightCancelled(p)
           \/ SeeCancellation(p) \/ MonitorFails(p)
  <2>1. k.pc \in {"preflight", "run"}
    BY <1>5 DEF PreflightStale, PreflightCancelled, SeeCancellation, MonitorFails, At
  <2>2. PICK r \in Reasons : BeginRecovery(p, r)
    BY <1>5 DEF PreflightStale, PreflightCancelled, SeeCancellation, MonitorFails, Reasons
  <2> DEFINE m == [k EXCEPT !.pc = "recover", !.reason = r, !.at = t]
  <2>3. m \in HandlerState /\ HandlerOK(m)'
    BY <1>1, <2>1, BeginRecoveryOK
  <2>4. consumers' = [consumers EXCEPT ![p] = m]
    BY <1>3, <2>2 DEF BeginRecovery
  <2> QED
    BY <2>3, <2>4 DEF Moves
<1>6. CASE PreflightRun(p)
  <2>0. PICK f \in BOOLEAN : f = Heartbeats
    BY ProtocolAssumption
  <2> DEFINE m == [k EXCEPT !.pc = "run", !.beating = f]
  <2>1. m \in HandlerState
    BY DEF HandlerState, Steps
  <2>2. m.pc = "run" /\ m.attempt = k.attempt /\ m.beat = k.beat
    BY DEF HandlerState
  <2>3. HandlerOK(m)'
    BY <1>1, <1>2, <2>2 DEF HandlerOK, AfterPlan, AfterReceipt, AfterFreed
  <2>4. consumers' = [consumers EXCEPT ![p] = m]
    BY <1>6, <2>0 DEF PreflightRun
  <2> QED
    BY <2>1, <2>3, <2>4 DEF Moves
<1>7. CASE ProcessFails(p) \/ (HeartbeatRefused(p) /\ At(p, "run"))
  <2> DEFINE m == [Idle EXCEPT !.pc = "recover", !.attempt = k.attempt,
                               !.reason = "worker_crash", !.at = t]
  <2>1. m \in HandlerState /\ HandlerOK(m)'
    BY <1>1, <1>2, FreshOK
  <2>2. consumers' = [consumers EXCEPT ![p] = m]
    BY <1>3, <1>7 DEF ProcessFails, HeartbeatRefused, Attempt
  <2> QED
    BY <2>1, <2>2 DEF Moves
<1>8. ASSUME NEW o \in Outcomes, ProcessCompletes(p, o)
      PROVE  Moves(p)
  <2> DEFINE m == [Idle EXCEPT !.pc = "settle", !.attempt = k.attempt, !.outcome = o]
  <2>1. m \in HandlerState /\ HandlerOK(m)'
    BY <1>1, <1>2, FreshOK
  <2>2. consumers' = [consumers EXCEPT ![p] = m]
    BY <1>8 DEF ProcessCompletes, Attempt
  <2> QED
    BY <2>1, <2>2 DEF Moves
<1>12. k.beating \in BOOLEAN /\ FALSE \in BOOLEAN /\ k.seq \in Nat /\ k.seq + 1 \in Nat
  BY DEF HandlerState
<1>9. CASE HeartbeatSample(p)
  <2>1. k.seq \in Nat /\ k.seq + 1 \in 1..(MaxObservations - 1)
    BY <1>9, DurationAssumption DEF HeartbeatSample, HandlerState
  <2>2. PICK b \in Beats : b = HeartbeatObservation(k.seq + 1, t, "worker")
    BY <2>1 DEF Beats
  <2> DEFINE m == [k EXCEPT !.beat = b, !.beating = k.beating, !.seq = k.seq]
  <2>3. m \in HandlerState /\ HandlerOK(m)'
    BY <1>1, <1>2, <1>4, <2>1, <2>2, <1>12, BeatOK
  <2>4. consumers' = [consumers EXCEPT ![p] = m]
    <3>1. m = [k EXCEPT !.beat = b]
      BY DEF HandlerState
    <3> QED
      BY <1>3, <1>9, <2>2, <3>1 DEF HeartbeatSample
  <2> QED
    BY <2>3, <2>4 DEF Moves
<1>10. CASE HeartbeatApply(p)
  <2> DEFINE m == [k EXCEPT !.beat = None, !.beating = k.beating, !.seq = k.seq + 1]
  <2>1. m \in HandlerState /\ HandlerOK(m)'
    BY <1>1, <1>2, <1>12, BeatOK
  <2>2. consumers' = [consumers EXCEPT ![p] = m]
    <3>1. m = [k EXCEPT !.beat = None, !.seq = @ + 1]
      BY DEF HandlerState
    <3> QED
      BY <1>10, <3>1 DEF HeartbeatApply
  <2> QED
    BY <2>1, <2>2 DEF Moves
<1>11. CASE HeartbeatRefused(p) /\ ~At(p, "run")
  <2> DEFINE m == [k EXCEPT !.beat = None, !.beating = FALSE, !.seq = k.seq]
  <2>1. m \in HandlerState /\ HandlerOK(m)'
    BY <1>1, <1>2, <1>12, BeatOK
  <2>2. consumers' = [consumers EXCEPT ![p] = m]
    <3>1. m = [k EXCEPT !.beat = None, !.beating = FALSE]
      BY DEF HandlerState
    <3> QED
      BY <1>11, <3>1 DEF HeartbeatRefused
  <2> QED
    BY <2>1, <2>2 DEF Moves
<1> QED
  <2>1. CASE \E o \in Outcomes : ProcessCompletes(p, o)
    BY <1>8, <2>1
  <2> QED
    BY <1>5, <1>6, <1>7, <1>9, <1>10, <1>11, <2>1

\* Recovery: the receipt, the release, the retry and the closing of the
\* attempt before it.
LEMMA RecoveryMoves ==
    ASSUME ProtocolInv, [Next]_vars, NEW p \in Consumers,
           NEW k \in HandlerState, k = consumers[p],
           \/ Recover(p) \/ ResumeRecovery(p) \/ RecordReceipt(p)
           \/ Release(p) \/ ReleaseReplayed(p) \/ PersistRetry(p)
           \/ ClosePrior(p) \/ PriorReplayed(p) \/ Redispatch(p) \/ Redispatched(p)
    PROVE  Moves(p)
<1>1. HandlerOK(k) /\ HandlerOK(k)'
  BY HandlerStable DEF ProtocolInv, HandlersOK
<1>2. k.pc # "idle"
  BY DEF Recover, ResumeRecovery, RecordReceipt, Release, ReleaseReplayed,
         PersistRetry, ClosePrior, PriorReplayed, Redispatch, Redispatched, At,
         Recovering, Releasing, ClosingPrior
<1>3. PICK a \in Attempts, i \in Ids :
          /\ a = k.attempt /\ a = Attempt(p)
          /\ i = Slot(a) /\ i = Id(p) /\ Dispatched(a)
  BY <1>2, HandlerFacts DEF Attempt, At
<1>4. /\ ~Held(Slot(a)) => ~Held(Slot(a))'
      /\ \A o : FreedBy(a, o) => FreedBy(a, o)'
  BY <1>3, FreedStable
<1>5. Releases \subseteq Releases' /\ Releases \subseteq Observation
  BY ObservationsStable, ReleaseTypes
<1>6. ASSUME NEW r \in RecoveryRow, r.obs \in Releases,
             r.retry => a.ordinal < MaxAttempts, k.pc = "recover", RecoverWith(p, r)
      PROVE  Moves(p)
  <2> DEFINE m == [k EXCEPT !.pc = "receipt", !.reason = r.reason,
                            !.obs = r.obs, !.retry = r.retry]
  <2>1. m \in HandlerState /\ HandlerOK(m)'
    BY <1>1, <1>3, <1>6, RecoverWithOK
  <2>2. consumers' = [consumers EXCEPT ![p] = m]
    BY <1>6 DEF RecoverWith
  <2> QED
    BY <2>1, <2>2 DEF Moves
<1>7. CASE Recover(p)
  <2>1. k.pc = "recover" /\ k.at \in 0..clock /\ k.reason \in Reasons
    BY <1>1, <1>7 DEF Recover, Recovering, At, HandlerOK
  <2>2. PICK g \in Reasons : g = RecoveryReason(p)
    BY <2>1 DEF RecoveryReason, Reasons
  <2>3. g \in Origins
    BY ProtocolAssumption DEF Reasons
  <2>4. ReleaseObservation(LastSequence(i) + 1, k.at, g) \in Releases
    BY <1>3, <1>7, <2>1, <2>2, <2>3, ReleaseBuilt DEF Recover, CanRecover, RecoveryReceipt
  <2>0. PICK f \in BOOLEAN : f = (g # "cancelled" /\ a.ordinal < MaxAttempts)
    OBVIOUS
  <2>5. PICK r \in RecoveryRow : r = RecoveryReceipt(p)
    <3> DEFINE row == [reason |-> g, retry |-> f,
                       obs |-> ReleaseObservation(LastSequence(i) + 1, k.at, g)]
    <3>1. row \in RecoveryRow
      BY <1>5, <2>4 DEF RecoveryRow
    <3>2. row = RecoveryReceipt(p)
      BY <1>3, <2>0, <2>2 DEF RecoveryReceipt
    <3> QED
      BY <3>1, <3>2
  <2>6. r.obs \in Releases /\ (r.retry => a.ordinal < MaxAttempts)
    BY <1>3, <2>2, <2>4, <2>5 DEF RecoveryReceipt
  <2> QED
    BY <1>6, <1>7, <2>1, <2>5, <2>6 DEF Recover
<1>8. CASE ResumeRecovery(p)
  <2>1. PICK r \in RecoveryRow : r = recoveries[a]
    BY <1>3, <1>8 DEF ResumeRecovery, ProtocolInv, TypeOK
  <2>2. r.obs \in Releases /\ (r.retry => a.ordinal < MaxAttempts)
    BY <1>3, <1>8, <2>1 DEF ResumeRecovery, ProtocolInv, RowsOK, ReceiptOK
  <2> QED
    BY <1>3, <1>6, <1>8, <2>1, <2>2 DEF ResumeRecovery, Recovering, At
<1>9. CASE RecordReceipt(p)
  <2>1. k.pc = "receipt"
        /\ recoveries'[a] = [reason |-> k.reason, obs |-> k.obs, retry |-> k.retry]
    BY <1>3, <1>9 DEF RecordReceipt, PlannedReceipt, At, ProtocolInv, TypeOK
  <2> QED
    BY <1>1, <1>3, <1>9, <2>1, GotoOK, GotoMoves DEF RecordReceipt, Steps
<1>10. CASE Release(p) \/ ReleaseReplayed(p)
  <2>1. FreedBy(a, k.obs)'
    <3>1. CASE Release(p)
      BY <1>3, <3>1, ReleaseFrees
    <3>2. CASE ReleaseReplayed(p)
      BY <1>3, <1>4, <3>2 DEF ReleaseReplayed, ReleaseReplays, FreedBy
    <3> QED
      BY <1>10, <3>1, <3>2
  <2>2. PICK x \in Steps \ {"idle"} : x = AfterRelease(p)
    BY DEF AfterRelease, Steps
  <2>3. Goto(p, x)
    BY <1>10, <2>2 DEF Release, ReleaseReplayed
  <2>4. ~Held(Slot(k.attempt))' /\ FreedBy(k.attempt, k.obs)'
    BY <1>3, <2>1 DEF FreedBy
  <2>5. \/ x = "close"
        \/ /\ k.pc = "recover_release"
           /\ x = IF k.retry THEN "persist_retry" ELSE "close_terminal"
    BY <1>10, <2>2 DEF AfterRelease, Release, ReleaseReplayed, Releasing, At
  <2> QED
    BY <1>1, <1>2, <2>3, <2>4, <2>5, GotoOK, GotoMoves
<1>11. CASE PersistRetry(p)
  BY <1>1, <1>11, GotoOK, GotoMoves DEF PersistRetry, At, Steps
<1>12. CASE ClosePrior(p) \/ PriorReplayed(p)
  <2>1. k.pc \in {"close_terminal", "close_prior"} /\ Goto(p, AfterPrior(p))
    BY <1>12 DEF ClosePrior, PriorReplayed, ClosingPrior
  <2>2. ~Held(Slot(k.attempt))'
    BY <1>1, <1>3, <1>4, <2>1 DEF HandlerOK, AfterFreed, AfterReceipt, AfterPlan, FreedBy
  <2>3. CASE k.pc = "close_terminal"
    BY <1>1, <2>1, <2>2, <2>3, GotoOK, GotoMoves DEF AfterPrior, At, Steps
  <2>4. CASE k.pc = "close_prior"
    BY <1>1, <2>1, <2>4, GotoOK, GotoMoves DEF AfterPrior, At, Steps
  <2> QED
    BY <2>1, <2>3, <2>4
<1>13. CASE Redispatch(p)
  BY <1>1, <1>13, GotoOK, GotoMoves DEF Redispatch, At, Steps
<1>14. CASE Redispatched(p)
  <2>1. ~Held(Slot(k.attempt))'
    BY <1>1, <1>3, <1>4, <1>14
       DEF Redispatched, At, HandlerOK, AfterFreed, AfterReceipt, AfterPlan, FreedBy
  <2>2. CASE Goto(p, "ack")
    BY <1>1, <1>2, <2>1, <2>2, GotoOK, GotoMoves DEF Steps
  <2>3. CASE GiveUp(p)
    BY <2>3, IdleOK DEF GiveUp, Moves
  <2> QED
    BY <1>14, <2>2, <2>3 DEF Redispatched
<1> QED
  BY <1>7, <1>8, <1>9, <1>10, <1>11, <1>12, <1>13, <1>14

\* Every step of a handler, its heartbeat loop and its claim moves it.
LEMMA HandlerMoves ==
    ASSUME ProtocolInv, [Next]_vars, NEW p \in Consumers,
           Handler(p) \/ HeartbeatLoop(p) \/ Crash(p) \/ \E a \in Attempts : Claim(p, a)
    PROVE  Moves(p)
<1>1. PICK k \in HandlerState : k = consumers[p]
  BY DEF ProtocolInv, TypeOK
<1>2. CASE \/ CloseRefused(p) \/ PreflightAdvanced(p) \/ SettleRefused(p)
           \/ SettlementConflicts(p) \/ ReleaseRefused(p) \/ RecoverRefused(p)
           \/ ReceiptConflicts(p) \/ PriorRefused(p) \/ Ack(p) \/ Crash(p)
  BY <1>2, GiveUpMoves
<1>3. CASE \/ Settle(p) \/ SettleReplay(p) \/ RecordSettlement(p)
           \/ RecordCompletion(p) \/ CloseSucceeded(p) \/ CloseReplayed(p)
           \/ CloseWithoutResult(p) \/ NothingToReplay(p)
  BY <1>1, <1>3, SettlementMoves
<1>4. CASE \/ PreflightStale(p) \/ PreflightCancelled(p) \/ PreflightRun(p)
           \/ SeeCancellation(p) \/ MonitorFails(p) \/ ProcessFails(p)
           \/ \E o \in Outcomes : ProcessCompletes(p, o)
           \/ HeartbeatSample(p) \/ HeartbeatApply(p) \/ HeartbeatRefused(p)
  BY <1>1, <1>4, RunMoves
<1>5. CASE \/ Recover(p) \/ ResumeRecovery(p) \/ RecordReceipt(p)
           \/ Release(p) \/ ReleaseReplayed(p) \/ PersistRetry(p)
           \/ ClosePrior(p) \/ PriorReplayed(p) \/ Redispatch(p) \/ Redispatched(p)
  BY <1>1, <1>5, RecoveryMoves
<1>6. ASSUME NEW a \in Attempts, Claim(p, a)
      PROVE  Moves(p)
  <2> DEFINE m == [Idle EXCEPT !.pc = "replay", !.attempt = a]
  <2>1. m \in HandlerState /\ HandlerOK(m)'
    BY <1>6, ClaimOK
  <2> QED
    BY <1>6, <2>1 DEF Claim, Moves
<1> QED
  BY <1>2, <1>3, <1>4, <1>5, <1>6 DEF Handler, HeartbeatLoop

\* Every step leaves the handlers alone or is one of these.
LEMMA ConsumerStep ==
    ASSUME [Next]_vars
    PROVE  \/ UNCHANGED consumers
           \/ \E p \in Consumers : \/ Handler(p) \/ HeartbeatLoop(p) \/ Crash(p)
                                   \/ \E a \in Attempts : Claim(p, a)
<1>1. CASE \/ RequestCancellation \/ Dispatcher \/ ClockTick \/ UNCHANGED vars
           \/ \E a \in Attempts : Submit(a)
  BY <1>1 DEF RequestCancellation, Dispatcher, AssignWorker, Dispatch, EndCall,
              ClockTick, vars, Submit
<1> QED
  BY <1>1 DEF Next

\* worker_service.py: at every point of its path a handler can rely on what
\* the steps before it made durable, whatever the other processes did since.
LEMMA HandlersStep ==
    ASSUME ProtocolInv, [Next]_vars
    PROVE  HandlersOK' /\ consumers' \in [Consumers -> HandlerState]
<1>1. ASSUME NEW q \in Consumers, consumers'[q] = consumers[q]
      PROVE  HandlerOK(consumers[q])'
  <2>1. PICK k \in HandlerState : k = consumers[q]
    BY DEF ProtocolInv, TypeOK
  <2>2. HandlerOK(k)
    BY <2>1 DEF ProtocolInv, HandlersOK
  <2>3. HandlerOK(k)'
    BY <2>2, HandlerStable
  <2> QED
    BY <1>1, <2>1, <2>3 DEF HandlerOK
<1>2. CASE UNCHANGED consumers
  BY <1>1, <1>2 DEF HandlersOK, ProtocolInv, TypeOK
<1>3. ASSUME NEW p \in Consumers, Moves(p)
      PROVE  HandlersOK' /\ consumers' \in [Consumers -> HandlerState]
  <2>1. PICK m \in HandlerState : consumers' = [consumers EXCEPT ![p] = m] /\ HandlerOK(m)'
    BY <1>3 DEF Moves
  <2>2. consumers \in [Consumers -> HandlerState]
    BY DEF ProtocolInv, TypeOK
  <2>3. m = consumers'[p]
    BY <2>1, <2>2
  <2>4. HandlerOK(consumers[p])'
    BY <2>1, <2>3 DEF HandlerOK
  <2>5. \A q \in Consumers : q # p => consumers'[q] = consumers[q]
    BY <2>1, <2>2
  <2>6. HandlersOK'
    BY <1>1, <2>4, <2>5 DEF HandlersOK
  <2> QED
    BY <2>1, <2>2, <2>6
<1> QED
  BY <1>2, <1>3, ConsumerStep, HandlerMoves

----------------------------------------------------------------------------
(* The rows.                                                               *)

\* postgres_search_dispatch.py: the attempts of a candidate are dispatched one
\* by one, each once and in its call's slot.
LEMMA DispatchOrdinal ==
    ASSUME ProtocolInv, NEW a \in Attempts, Dispatch(a)
    PROVE  /\ candidates[a.candidate].ordinal = a.ordinal - 1
           /\ calls[a].id \in Ids /\ calls[a].id.attempt = a
           /\ Now(a) \in 0..clock
           /\ leases[calls[a].id] # None
           /\ ~Dispatched(a)
           /\ a.ordinal > 1 => RetryOrdered(a)
<1>1. calls[a] \in Call /\ CallOK(a) /\ calls[a].id # None /\ calls[a] # None
  BY DEF Dispatch, InCall, ProtocolInv, TypeOK, RowsOK
<1>2. /\ calls[a].id \in Ids /\ calls[a].id.attempt = a
      /\ leases[calls[a].id] # None
      /\ a.ordinal > 1 => RetryOrdered(a)
  BY <1>1 DEF CallOK, Call
<1>3. clock \in Nat /\ Now(a) \in 0..clock
  BY <1>1 DEF CallOK, Call, Now, ProtocolInv, LedgerInv, LedgerTypeOK
<1>4. ~Dispatched(a)
  BY <1>2 DEF Dispatch, CanDispatch, Dispatched
<1>5. a.candidate \in Candidates /\ a.ordinal \in 1..MaxAttempts
  BY ProtocolAssumption
<1>6. candidates[a.candidate].ordinal \in Nat /\ ~(a.ordinal <= candidates[a.candidate].ordinal)
  BY <1>4, <1>5 DEF ProtocolInv, TypeOK, CandidateOK
<1>7. CASE a.ordinal = 1
  BY <1>2, <1>3, <1>4, <1>6, <1>7
<1>8. CASE a.ordinal > 1
  <2>1. Previous(a) \in Attempts /\ Dispatched(Previous(a))
    BY <1>2, <1>8, PreviousFacts DEF RetryOrdered, FreedBy
  <2>2. a.ordinal - 1 <= candidates[a.candidate].ordinal
    BY <1>8, <2>1, PreviousFacts DEF ProtocolInv, CandidateOK
  <2> QED
    BY <1>2, <1>3, <1>4, <1>5, <1>6, <2>2
<1> QED
  BY <1>5, <1>7, <1>8

\* The dispatch row that a dispatch inserts.
LEMMA DispatchWrites ==
    ASSUME ProtocolInv, NEW a \in Attempts, Dispatch(a)
    PROVE  /\ dispatches'[a] = [id |-> calls[a].id, at |-> Now(a)]
           /\ Dispatched(a)'
           /\ Slot(a)' = calls[a].id
<1>1. dispatches'[a] = [id |-> calls[a].id, at |-> Now(a)]
  BY DEF Dispatch, ProtocolInv, TypeOK
<1>2. Now(a) \in Nat /\ calls[a].id \in Ids
  BY DispatchOrdinal DEF ProtocolInv, LedgerInv, LedgerTypeOK
<1>3. dispatches'[a] \in DispatchRow
  BY <1>1, <1>2 DEF DispatchRow
<1> QED
  BY <1>1, <1>3, RowAssumption DEF Dispatched, Slot

\* The facts a closing transaction has about the time it records.
LEMMA ClosingTimes ==
    ASSUME ProtocolInv, NEW p \in Consumers
    PROVE  /\ CloseSucceeded(p) => DispatchedAt(p) \in 0..clock
           /\ ClosePrior(p) => consumers[p].obs.observed_at \in 0..clock
<1>1. CASE CloseSucceeded(p)
  <2>1. ~At(p, "idle") /\ ~ClosePrior(p)
    BY <1>1 DEF CloseSucceeded, Closing, At, ClosePrior, ClosingPrior
  <2> QED
    BY <2>1, HandlerFacts
<1>2. CASE ClosePrior(p)
  <2>1. consumers[p].pc \in AfterPlan /\ ~CloseSucceeded(p)
    BY <1>2 DEF ClosePrior, ClosingPrior, AfterPlan, CloseSucceeded, Closing
  <2>2. consumers[p].obs \in Releases
    BY <2>1 DEF ProtocolInv, HandlersOK, HandlerOK
  <2> QED
    BY <2>1, <2>2 DEF Releases, ReleaseObservation
<1> QED
  BY <1>1, <1>2

\* The tables keep their types.
LEMMA TablesStep ==
    ASSUME ProtocolInv, [Next]_vars
    PROVE  /\ search' \in [updated_at : Nat, cancelled : BOOLEAN]
           /\ candidates' \in [Candidates -> [phase : Phases, ordinal : 0..MaxAttempts,
                                              count : 0..MaxAttempts]]
           /\ calls' \in [Attempts -> Call \cup {None}]
           /\ dispatches' \in [Attempts -> DispatchRow \cup {None}]
           /\ settlements' \in [Attempts -> SettlementRow \cup {None}]
           /\ completions' \subseteq Attempts
           /\ recoveries' \in [Attempts -> RecoveryRow \cup {None}]
           /\ retries' \subseteq Attempts
           /\ stream' \in [Attempts -> {"none", "ready", "pending", "acked"}]
           /\ crashes' \in 0..MaxCrashes
<1> DEFINE Tables ==
           /\ search \in [updated_at : Nat, cancelled : BOOLEAN]
           /\ candidates \in [Candidates -> [phase : Phases, ordinal : 0..MaxAttempts,
                                             count : 0..MaxAttempts]]
           /\ calls \in [Attempts -> Call \cup {None}]
           /\ dispatches \in [Attempts -> DispatchRow \cup {None}]
           /\ settlements \in [Attempts -> SettlementRow \cup {None}]
           /\ completions \subseteq Attempts
           /\ recoveries \in [Attempts -> RecoveryRow \cup {None}]
           /\ retries \subseteq Attempts
           /\ stream \in [Attempts -> {"none", "ready", "pending", "acked"}]
           /\ crashes \in 0..MaxCrashes
<1>0. Tables /\ clock \in Nat /\ \A p \in Consumers : consumers[p] \in HandlerState
  BY DEF ProtocolInv, TypeOK, LedgerTypeOK
<1>1. ASSUME NEW a \in Attempts, calls' = [calls EXCEPT ![a] =
                [now |-> clock, id |-> None, pool |-> None]]
      PROVE  calls' \in [Attempts -> Call \cup {None}]
  BY <1>0, <1>1 DEF Call
<1>2. ASSUME NEW a \in Attempts, Submit(a) \/ EndCall(a)
      PROVE  Tables'
  BY <1>0, <1>1, <1>2 DEF Submit, BeginCall, EndCall, FinishCall, searchVars, receipts
<1>3. ASSUME NEW a \in Attempts, Dispatch(a)
      PROVE  Tables'
  <2>1. /\ a.candidate \in Candidates /\ a.ordinal \in 1..MaxAttempts
        /\ candidates[a.candidate].ordinal = a.ordinal - 1
        /\ candidates[a.candidate].count = a.ordinal - 1
        /\ calls[a].id \in Ids /\ Now(a) \in Nat
    BY <1>0, <1>3, DispatchOrdinal, ProtocolAssumption DEF ProtocolInv, CandidateOK
  <2>2. [phase |-> "running", ordinal |-> a.ordinal, count |-> candidates[a.candidate].count + 1]
          \in [phase : Phases, ordinal : 0..MaxAttempts, count : 0..MaxAttempts]
    BY <2>1, ProtocolAssumption DEF Phases
  <2>3. search' \in [updated_at : Nat, cancelled : BOOLEAN]
    BY <1>0, <1>3, <2>1 DEF Dispatch, StartCandidate
  <2>4. candidates' \in [Candidates -> [phase : Phases, ordinal : 0..MaxAttempts,
                                        count : 0..MaxAttempts]]
    BY <1>0, <1>3, <2>1, <2>2 DEF Dispatch, StartCandidate
  <2>5. dispatches' \in [Attempts -> DispatchRow \cup {None}]
    BY <1>0, <1>3, <2>1 DEF Dispatch, DispatchRow
  <2> QED
    BY <1>0, <1>3, <2>3, <2>4, <2>5 DEF Dispatch, FinishCall, receipts
<1>4. ASSUME NEW i \in Ids, AssignWorker(i)
      PROVE  Tables'
  <2>1. i.attempt \in Attempts /\ i.worker \in Workers /\ calls[i.attempt] \in Call
    BY <1>0, <1>4 DEF AssignWorker, InCall, Ids
  <2>2. Pool(i.worker) \in Pools
    BY DEF Pool, Pools, ProtocolInv, TypeOK, LedgerTypeOK
  <2>3. calls' \in [Attempts -> Call \cup {None}]
    <3>1. [calls[i.attempt] EXCEPT !.id = i, !.pool = Pool(i.worker)] \in Call
      BY <2>1, <2>2 DEF Call
    <3>2. calls' = [calls EXCEPT ![i.attempt] =
                      [calls[i.attempt] EXCEPT !.id = i, !.pool = Pool(i.worker)]]
      BY <1>0, <1>4, <2>1 DEF AssignWorker
    <3> QED
      BY <1>0, <3>1, <3>2
  <2> QED
    BY <1>0, <1>4, <2>3 DEF AssignWorker, searchVars, receipts
<1>5. CASE RequestCancellation \/ ClockTick \/ UNCHANGED Shared
  <2>1. CASE RequestCancellation
    BY <1>0, <2>1 DEF RequestCancellation, receipts
  <2>2. CASE ClockTick \/ UNCHANGED Shared
    BY <1>0, <2>2 DEF ClockTick, Shared, searchVars, receipts
  <2> QED
    BY <1>5, <2>1, <2>2
<1>6. ASSUME NEW p \in Consumers, NEW a \in Attempts, Claim(p, a)
      PROVE  Tables'
  BY <1>0, <1>6 DEF Claim, searchVars, receipts
<1>7. ASSUME NEW p \in Consumers, Ack(p)
      PROVE  Tables'
  BY <1>0, <1>7 DEF Ack, searchVars, receipts
<1>8. ASSUME NEW p \in Consumers, HeartbeatApply(p) \/ Release(p)
      PROVE  Tables'
  BY <1>0, <1>8 DEF HeartbeatApply, Release, searchVars, receipts
<1>9. ASSUME NEW p \in Consumers, RecordSettlement(p)
      PROVE  Tables'
  <2>1. consumers[p].obs \in Observation /\ consumers[p].outcome \in Outcomes
    BY <1>0, <1>9, ReleaseTypes
       DEF RecordSettlement, ProtocolInv, HandlersOK, HandlerOK, At
  <2>2. SettlementReceipt(p) \in SettlementRow
    BY <2>1 DEF SettlementReceipt, SettlementRow
  <2> QED
    BY <1>0, <1>9, <2>2 DEF RecordSettlement, searchVars
<1>10. ASSUME NEW p \in Consumers, RecordCompletion(p)
       PROVE  Tables'
  <2>1. Attempt(p) \in Attempts
    BY <1>10, HandlerFacts DEF RecordCompletion, At
  <2> QED
    BY <1>0, <1>10, <2>1 DEF RecordCompletion, searchVars
<1>11. ASSUME NEW p \in Consumers, RecordReceipt(p)
       PROVE  Tables'
  <2>1. consumers[p].obs \in Observation /\ consumers[p].reason \in Reasons
    BY <1>0, <1>11, ReleaseTypes
       DEF RecordReceipt, ProtocolInv, HandlersOK, HandlerOK, At, AfterPlan
  <2>2. PlannedReceipt(p) \in RecoveryRow
    BY <1>0, <2>1 DEF PlannedReceipt, RecoveryRow, HandlerState
  <2> QED
    BY <1>0, <1>11, <2>2 DEF RecordReceipt, searchVars
<1>12. ASSUME NEW p \in Consumers, PersistRetry(p)
       PROVE  Tables'
  <2>1. Attempt(p) \in Attempts /\ Attempt(p).ordinal < MaxAttempts
    BY <1>12, HandlerFacts
       DEF PersistRetry, At, Attempt, ProtocolInv, HandlersOK, HandlerOK, AfterPlan
  <2>2. NextAttempt(Attempt(p)) \in Attempts
    BY <2>1, NextFacts
  <2> QED
    BY <1>0, <1>12, <2>2 DEF PersistRetry, searchVars
<1>13. ASSUME NEW p \in Consumers, NEW ph \in Phases, NEW t \in Nat,
              ~At(p, "idle"), RecordTerminal(Attempt(p), ph, t),
              UNCHANGED <<calls, dispatches, receipts, stream, crashes>>
       PROVE  Tables'
  <2>1. Attempt(p) \in Attempts /\ Attempt(p).candidate \in Candidates
    BY <1>13, HandlerFacts, ProtocolAssumption
  <2> QED
    BY <1>0, <1>13, <2>1 DEF RecordTerminal, receipts
<1>14. ASSUME NEW p \in Consumers, CloseSucceeded(p)
       PROVE  Tables'
  BY <1>0, <1>13, <1>14, ClosingTimes DEF CloseSucceeded, Closing, At, Phases, Terminal
<1>15. ASSUME NEW p \in Consumers, ClosePrior(p)
       PROVE  Tables'
  BY <1>0, <1>13, <1>15, ClosingTimes
     DEF ClosePrior, ClosingPrior, At, Phases, Terminal, PriorPhase
<1>16. ASSUME NEW p \in Consumers, Redispatch(p)
       PROVE  Tables'
  <2>1. Attempt(p) \in Attempts /\ Attempt(p).ordinal < MaxAttempts
    BY <1>16, HandlerFacts
       DEF Redispatch, At, Attempt, ProtocolInv, HandlersOK, HandlerOK, AfterPlan
  <2>2. NextAttempt(Attempt(p)) \in Attempts
    BY <2>1, NextFacts
  <2>3. calls' \in [Attempts -> Call \cup {None}]
    BY <1>0, <1>1, <1>16, <2>2 DEF Redispatch, BeginCall
  <2> QED
    BY <1>0, <1>16, <2>3 DEF Redispatch, searchVars, receipts
<1>17. ASSUME NEW p \in Consumers, Crash(p)
       PROVE  Tables'
  BY <1>0, <1>17, ProtocolAssumption DEF Crash, searchVars, receipts
<1>18. Tables'
  BY <1>2, <1>3, <1>4, <1>5, <1>6, <1>7, <1>8, <1>9, <1>10, <1>11, <1>12, <1>14,
     <1>15, <1>16, <1>17, Kinds
<1> QED
  BY <1>18

\* Which steps write which table.
LEMMA Writers ==
    ASSUME [Next]_vars
    PROVE  /\ \/ UNCHANGED reservations
              \/ \E a \in Attempts : Dispatch(a)
              \/ \E p \in Consumers : Release(p)
           /\ UNCHANGED applied \/ \E p \in Consumers : HeartbeatApply(p) \/ Release(p)
           /\ \/ UNCHANGED calls
              \/ \E a \in Attempts : Submit(a) \/ Dispatch(a) \/ EndCall(a)
              \/ \E i \in Ids : AssignWorker(i)
              \/ \E p \in Consumers : Redispatch(p)
           /\ UNCHANGED dispatches \/ \E a \in Attempts : Dispatch(a)
           /\ UNCHANGED settlements \/ \E p \in Consumers : RecordSettlement(p)
           /\ UNCHANGED recoveries \/ \E p \in Consumers : RecordReceipt(p)
           /\ UNCHANGED completions \/ \E p \in Consumers : RecordCompletion(p)
           /\ \/ UNCHANGED stream
              \/ \E a \in Attempts : Dispatch(a)
              \/ \E p \in Consumers : Ack(p) \/ \E a \in Attempts : Claim(p, a)
           /\ \/ UNCHANGED candidates
              \/ \E a \in Attempts : Dispatch(a)
              \/ \E p \in Consumers : CloseSucceeded(p) \/ ClosePrior(p)
           /\ \/ UNCHANGED search \/ RequestCancellation
              \/ \E a \in Attempts : Dispatch(a)
              \/ \E p \in Consumers : CloseSucceeded(p) \/ ClosePrior(p)
<1>1. ASSUME NEW a \in Attempts, Submit(a) \/ EndCall(a)
      PROVE  UNCHANGED <<ledgerVars, searchVars, dispatches, receipts, stream>>
  BY <1>1 DEF Submit, EndCall
<1>2. ASSUME NEW a \in Attempts, Dispatch(a)
      PROVE  UNCHANGED <<applied, receipts>>
  BY <1>2 DEF Dispatch
<1>3. RequestCancellation =>
        UNCHANGED <<ledgerVars, candidates, calls, dispatches, receipts, stream>>
  BY DEF RequestCancellation
<1>4. ClockTick => UNCHANGED <<ledger, searchVars, calls, dispatches, receipts, stream>>
  BY DEF ClockTick
<1>5. ASSUME NEW i \in Ids, AssignWorker(i)
      PROVE  UNCHANGED <<reservations, applied, searchVars, dispatches, receipts, stream>>
  BY <1>5 DEF AssignWorker
<1>6. ASSUME NEW p \in Consumers, NEW a \in Attempts, Claim(p, a)
      PROVE  UNCHANGED <<ledgerVars, searchVars, calls, dispatches, receipts>>
  BY <1>6 DEF Claim
<1>7. ASSUME NEW p \in Consumers, Ack(p) \/ Crash(p)
      PROVE  UNCHANGED <<ledgerVars, searchVars, calls, dispatches, receipts>>
             /\ (Crash(p) => UNCHANGED stream)
  BY <1>7 DEF Ack, Crash
<1>8. ASSUME NEW p \in Consumers, HeartbeatApply(p) \/ Release(p)
      PROVE  UNCHANGED <<searchVars, calls, dispatches, receipts, stream>>
             /\ (HeartbeatApply(p) => UNCHANGED reservations)
  BY <1>8 DEF HeartbeatApply, Release
<1>9. ASSUME NEW p \in Consumers,
             RecordSettlement(p) \/ RecordCompletion(p) \/ RecordReceipt(p) \/ PersistRetry(p)
      PROVE  /\ UNCHANGED <<ledgerVars, searchVars, calls, dispatches, stream>>
             /\ UNCHANGED settlements \/ RecordSettlement(p)
             /\ UNCHANGED completions \/ RecordCompletion(p)
             /\ UNCHANGED recoveries \/ RecordReceipt(p)
  BY <1>9 DEF RecordSettlement, RecordCompletion, RecordReceipt, PersistRetry
<1>10. ASSUME NEW p \in Consumers, CloseSucceeded(p) \/ ClosePrior(p) \/ Redispatch(p)
       PROVE  /\ UNCHANGED <<ledgerVars, dispatches, receipts, stream>>
              /\ UNCHANGED searchVars \/ CloseSucceeded(p) \/ ClosePrior(p)
              /\ UNCHANGED calls \/ Redispatch(p)
  BY <1>10 DEF CloseSucceeded, ClosePrior, Redispatch
<1> USE DEF ledgerVars, ledger, searchVars, receipts
<1>11. CASE \E a \in Attempts : Submit(a) \/ Dispatch(a) \/ EndCall(a)
  BY <1>1, <1>2, <1>11
<1>12. CASE RequestCancellation \/ ClockTick \/ UNCHANGED Shared
  BY <1>3, <1>4, <1>12 DEF Shared
<1>13. CASE \E i \in Ids : AssignWorker(i)
  BY <1>5, <1>13
<1>14. CASE \E p \in Consumers, a \in Attempts : Claim(p, a)
  BY <1>6, <1>14
<1>15. CASE \E p \in Consumers :
                \/ Ack(p) \/ HeartbeatApply(p) \/ Release(p) \/ Crash(p)
  BY <1>7, <1>8, <1>15
<1>16. CASE \E p \in Consumers :
                \/ RecordSettlement(p) \/ RecordCompletion(p) \/ RecordReceipt(p)
                \/ PersistRetry(p)
  BY <1>9, <1>16
<1>17. CASE \E p \in Consumers : CloseSucceeded(p) \/ ClosePrior(p) \/ Redispatch(p)
  BY <1>10, <1>17
<1> QED
  BY <1>11, <1>12, <1>13, <1>14, <1>15, <1>16, <1>17, Kinds

\* A retry that was ordered stays ordered.
LEMMA RetryStable ==
    ASSUME ProtocolInv, [Next]_vars, NEW a \in Attempts, a.ordinal > 1, RetryOrdered(a)
    PROVE  RetryOrdered(a)'
<1>1. PICK b \in Attempts : b = Previous(a)
  BY PreviousFacts
<1>2. recoveries[b] # None /\ recoveries[b].retry /\ FreedBy(b, recoveries[b].obs)
  BY <1>1 DEF RetryOrdered
<1>3. recoveries'[b] = recoveries[b]
  BY <1>2, RowsStable
<1>4. PICK o : o = recoveries[b].obs
  OBVIOUS
<1>5. FreedBy(b, o)'
  BY <1>2, <1>4, FreedStable DEF FreedBy
<1>6. FreedBy(b, recoveries[b].obs)'
  BY <1>3, <1>4, <1>5 DEF FreedBy
<1> QED
  BY <1>1, <1>2, <1>3, <1>6 DEF RetryOrdered

\* Leases and reservations are never deleted.
LEMMA LedgerRowsStable ==
    ASSUME ProtocolInv, [Next]_vars, NEW i \in Ids
    PROVE  /\ leases[i] # None => leases'[i] # None
           /\ reservations[i] # None => reservations'[i] # None
  BY LedgerStable, ProtocolLedgerStep DEF ProtocolInv

\* Once a recovery has a plan, the plan is a receipt row.
LEMMA PlannedType ==
    ASSUME ProtocolInv, NEW p \in Consumers, consumers[p].pc \in AfterPlan
    PROVE  /\ consumers[p].obs \in Releases
           /\ PlannedReceipt(p) \in RecoveryRow
           /\ PlannedReceipt(p) # None
<1>1. consumers[p].obs \in Releases /\ consumers[p].reason \in Reasons
  BY DEF ProtocolInv, HandlersOK, HandlerOK
<1>2. clock \in Nat /\ consumers[p] \in HandlerState
  BY DEF ProtocolInv, TypeOK, LedgerTypeOK
<1>3. PlannedReceipt(p) \in RecoveryRow
  BY <1>1, <1>2, ReleaseTypes DEF PlannedReceipt, RecoveryRow, HandlerState
<1> QED
  BY <1>1, <1>3, RowAssumption

\* postgres_search_dispatch.py: a call knows its attempt's slot and, for a
\* retry, that the attempt before it was released to be retried.
LEMMA CallStep ==
    ASSUME ProtocolInv, [Next]_vars, NEW a \in Attempts
    PROVE  CallOK(a)'
<1>0. CallOK(a) /\ calls \in [Attempts -> Call \cup {None}] /\ clock <= clock' /\ clock \in Nat
      /\ clock' \in Nat
  BY ObservationsStable DEF ProtocolInv, RowsOK, TypeOK
<1>1. CASE calls'[a] = calls[a]
  <2>1. calls[a] # None => calls[a] \in Call /\ calls[a].now \in Nat
    BY <1>0 DEF Call
  <2>2. calls[a] # None /\ calls[a].id # None => leases'[calls[a].id] # None
    BY <1>0, <2>1, LedgerRowsStable DEF CallOK, Call
  <2> QED
    BY <1>0, <1>1, <2>1, <2>2, RetryStable DEF CallOK
<1>2. ASSUME calls'[a] = [now |-> clock, id |-> None, pool |-> None],
             a.ordinal > 1 => RetryOrdered(a)
      PROVE  CallOK(a)'
  BY <1>0, <1>2, RetryStable DEF CallOK
<1>3. ASSUME NEW b \in Attempts, Submit(b)
      PROVE  CallOK(a)'
  <2>1. CASE a = b
    BY <1>0, <1>2, <1>3, <2>1 DEF Submit, BeginCall
  <2>2. CASE a # b
    BY <1>0, <1>1, <1>3, <2>2 DEF Submit, BeginCall
  <2> QED
    BY <2>1, <2>2
<1>4. ASSUME NEW b \in Attempts, Dispatch(b) \/ EndCall(b)
      PROVE  CallOK(a)'
  <2>1. calls'[a] \in {None, calls[a]}
    BY <1>0, <1>4 DEF Dispatch, EndCall, FinishCall
  <2> QED
    BY <1>1, <2>1 DEF CallOK
<1>5. ASSUME NEW i \in Ids, AssignWorker(i)
      PROVE  CallOK(a)'
  <2>1. CASE a # i.attempt
    BY <1>0, <1>1, <1>5, <2>1 DEF AssignWorker
  <2>2. CASE a = i.attempt
    <3>1. calls[a] \in Call /\ calls[a] # None
      BY <1>0, <1>5, <2>2 DEF AssignWorker, InCall
    <3>2. calls'[a].id = i /\ calls'[a].now = calls[a].now
      BY <1>0, <1>5, <2>2, <3>1 DEF AssignWorker, Call
    <3>3. leases'[i] # None
      <4>1. CASE leases[i] # None
        BY <4>1, LedgerRowsStable
      <4>2. CASE leases[i] = None
        <5>1. PersistLease(i, LeaseStart(i.attempt)) /\ LeaseStart(i.attempt) \in Nat
          BY <1>5, <2>2, <3>1, <4>2, LeaseStartType DEF AssignWorker, InCall
        <5> QED
          BY <5>1, NewLeaseType, NoneAssumption
             DEF PersistLease, ProtocolInv, LedgerInv, LedgerTypeOK
      <4> QED
        BY <4>1, <4>2
    <3>4. a.ordinal > 1 => RetryOrdered(a)'
      BY <1>0, <3>1, RetryStable DEF CallOK
    <3> QED
      BY <1>0, <2>2, <3>1, <3>2, <3>3, <3>4 DEF CallOK, Call
  <2> QED
    BY <2>1, <2>2
<1>6. ASSUME NEW p \in Consumers, Redispatch(p)
      PROVE  CallOK(a)'
  <2>1. PICK b \in Attempts : /\ b = Attempt(p) /\ b.ordinal < MaxAttempts
                              /\ recoveries[b] = PlannedReceipt(p) /\ PlannedReceipt(p).retry
                              /\ FreedBy(b, PlannedReceipt(p).obs)
    BY <1>6, HandlerFacts
       DEF Redispatch, At, Attempt, PlannedReceipt, ProtocolInv, HandlersOK, HandlerOK,
           AfterPlan, AfterReceipt, AfterFreed
  <2>2. recoveries[b] # None
    BY <1>6, <2>1, PlannedType DEF Redispatch, At, AfterPlan
  <2>3. NextAttempt(b) \in Attempts /\ RetryOrdered(NextAttempt(b))
    BY <2>1, <2>2, NextFacts DEF RetryOrdered
  <2>4. CASE a # NextAttempt(b)
    BY <1>0, <1>1, <1>6, <2>1, <2>4 DEF Redispatch, BeginCall
  <2>5. CASE a = NextAttempt(b)
    BY <1>0, <1>1, <1>2, <1>6, <2>1, <2>3, <2>5 DEF Redispatch, BeginCall
  <2> QED
    BY <2>4, <2>5
<1> QED
  BY <1>1, <1>3, <1>4, <1>5, <1>6, Writers

\* postgres_search_dispatch.py: the dispatch, its slot and its lease go
\* together, and a retry follows the release of the attempt before it.
LEMMA DispatchStep ==
    ASSUME ProtocolInv, [Next]_vars, NEW a \in Attempts
    PROVE  DispatchOK(a)'
<1>0. clock <= clock' /\ clock \in Nat /\ clock' \in Nat
  BY ObservationsStable
<1>1. CASE Dispatched(a)
  <2>1. Slot(a) \in Ids /\ dispatches[a].at \in 0..clock /\ DispatchOK(a)
    BY <1>1, SlotFacts DEF ProtocolInv, RowsOK
  <2>2. Slot(a)' = Slot(a) /\ dispatches'[a] = dispatches[a]
    BY <1>1, FreedStable, RowsStable
  <2>3. reservations'[Slot(a)] # None /\ leases'[Slot(a)] # None
    BY <1>1, <2>1, LedgerRowsStable DEF DispatchOK
  <2>4. a.ordinal > 1 => RetryOrdered(a)'
    BY <1>1, <2>1, RetryStable DEF DispatchOK
  <2> QED
    BY <1>0, <1>1, <2>1, <2>2, <2>3, <2>4 DEF DispatchOK
<1>2. CASE ~Dispatched(a) /\ UNCHANGED dispatches
  BY <1>2 DEF Dispatched, DispatchOK
<1>3. ASSUME ~Dispatched(a), NEW b \in Attempts, Dispatch(b)
      PROVE  DispatchOK(a)'
  <2>1. dispatches \in [Attempts -> DispatchRow \cup {None}]
    BY DEF ProtocolInv, TypeOK
  <2>2. CASE a # b
    BY <1>3, <2>1, <2>2 DEF Dispatch, Dispatched, DispatchOK
  <2>3. CASE a = b
    <3>1. /\ calls[a].id \in Ids /\ calls[a].id.attempt = a
          /\ Now(a) \in 0..clock /\ leases[calls[a].id] # None
          /\ a.ordinal > 1 => RetryOrdered(a)
      BY <1>3, <2>3, DispatchOrdinal
    <3>2. dispatches'[a] = [id |-> calls[a].id, at |-> Now(a)]
      BY <1>3, <2>1, <2>3 DEF Dispatch
    <3>3. PICK i \in Ids : i = calls[a].id
      BY <3>1
    <3>4. reservations'[i] = [acquired_at |-> Now(a), released_at |-> None]
      BY <1>3, <2>3, <3>3 DEF Dispatch, Reserve, ProtocolInv, LedgerInv, LedgerTypeOK
    <3>5. reservations'[i] \in Reservation /\ reservations'[i] # None
      BY <1>0, <3>1, <3>4, NoneAssumption DEF Reservation
    <3>6. leases'[i] # None
      BY <3>1, <3>3, LedgerRowsStable
    <3>7. a.ordinal > 1 => RetryOrdered(a)'
      BY <3>1, RetryStable
    <3> QED
      BY <1>0, <3>1, <3>2, <3>3, <3>5, <3>6, <3>7 DEF DispatchOK, Slot
  <2> QED
    BY <2>2, <2>3
<1> QED
  BY <1>1, <1>2, <1>3, Writers

\* worker_settlement.py and postgres_worker_recovery.py: receipts are written
\* for dispatched attempts, with a release the ledger can take.
LEMMA ReceiptStep ==
    ASSUME ProtocolInv, [Next]_vars, NEW a \in Attempts
    PROVE  ReceiptOK(a)'
<1>0. /\ ReceiptOK(a)
      /\ Releases \subseteq Releases'
      /\ Dispatched(a) => Dispatched(a)'
      /\ settlements \in [Attempts -> SettlementRow \cup {None}]
      /\ recoveries \in [Attempts -> RecoveryRow \cup {None}]
  BY ObservationsStable, FreedStable DEF ProtocolInv, RowsOK, TypeOK
<1>1. (settlements[a] # None => Dispatched(a) /\ settlements[a].obs \in Releases)'
  <2>1. CASE UNCHANGED settlements
    BY <1>0, <2>1 DEF ReceiptOK
  <2>2. ASSUME NEW p \in Consumers, RecordSettlement(p)
        PROVE  (settlements[a] # None => Dispatched(a) /\ settlements[a].obs \in Releases)'
    <3>1. Attempt(p) \in Attempts /\ Dispatched(Attempt(p)) /\ consumers[p].obs \in Releases
      BY <2>2, HandlerFacts DEF RecordSettlement, At, ProtocolInv, HandlersOK, HandlerOK
    <3>2. CASE a # Attempt(p)
      BY <1>0, <2>2, <3>2 DEF RecordSettlement, ReceiptOK
    <3>3. CASE a = Attempt(p)
      BY <1>0, <2>2, <3>1, <3>3 DEF RecordSettlement, SettlementReceipt
    <3> QED
      BY <3>2, <3>3
  <2> QED
    BY <2>1, <2>2, Writers
<1>2. (recoveries[a] # None =>
          /\ Dispatched(a)
          /\ recoveries[a].obs \in Releases
          /\ recoveries[a].retry => a.ordinal < MaxAttempts)'
  <2>1. CASE UNCHANGED recoveries
    BY <1>0, <2>1 DEF ReceiptOK
  <2>2. ASSUME NEW p \in Consumers, RecordReceipt(p)
        PROVE  (recoveries[a] # None =>
                  /\ Dispatched(a)
                  /\ recoveries[a].obs \in Releases
                  /\ recoveries[a].retry => a.ordinal < MaxAttempts)'
    <3>1. /\ Attempt(p) \in Attempts /\ Dispatched(Attempt(p))
          /\ consumers[p].obs \in Releases
          /\ consumers[p].retry => Attempt(p).ordinal < MaxAttempts
      BY <2>2, HandlerFacts
         DEF RecordReceipt, At, Attempt, ProtocolInv, HandlersOK, HandlerOK, AfterPlan
    <3>2. CASE a # Attempt(p)
      BY <1>0, <2>2, <3>2 DEF RecordReceipt, ReceiptOK
    <3>3. CASE a = Attempt(p)
      BY <1>0, <2>2, <3>1, <3>3 DEF RecordReceipt, PlannedReceipt
    <3> QED
      BY <3>2, <3>3
  <2> QED
    BY <2>1, <2>2, Writers
<1> QED
  BY <1>1, <1>2 DEF ReceiptOK

\* worker_consumer.py: an entry is on the stream from its dispatch, and it is
\* acknowledged only when its slot is free.
LEMMA StreamStep ==
    ASSUME ProtocolInv, [Next]_vars, NEW a \in Attempts
    PROVE  StreamOK(a)'
<1>0. /\ StreamOK(a)
      /\ stream \in [Attempts -> {"none", "ready", "pending", "acked"}]
      /\ Dispatched(a) => Dispatched(a)' /\ (~Held(Slot(a)) => ~Held(Slot(a))')
  BY FreedStable DEF ProtocolInv, RowsOK, TypeOK
<1>1. CASE UNCHANGED <<stream, dispatches>>
  BY <1>0, <1>1 DEF StreamOK, Dispatched
<1>2. ASSUME NEW b \in Attempts, Dispatch(b)
      PROVE  StreamOK(a)'
  <2>1. dispatches' = [dispatches EXCEPT ![b] = [id |-> calls[b].id, at |-> Now(b)]]
        /\ stream' = [stream EXCEPT ![b] = "ready"]
        /\ dispatches \in [Attempts -> DispatchRow \cup {None}]
    BY <1>2 DEF Dispatch, ProtocolInv, TypeOK
  <2>2. CASE a = b
    <3>1. Dispatched(b)'
      BY <1>2, DispatchWrites
    <3> QED
      BY <1>0, <2>1, <2>2, <3>1 DEF StreamOK
  <2>3. CASE a # b
    BY <1>0, <2>1, <2>3 DEF StreamOK, Dispatched
  <2> QED
    BY <2>2, <2>3
<1>3. ASSUME NEW p \in Consumers, NEW b \in Attempts, Claim(p, b)
      PROVE  StreamOK(a)'
  <2>1. stream' = [stream EXCEPT ![b] = "pending"] /\ stream[b] \in {"ready", "pending"}
        /\ UNCHANGED dispatches
    BY <1>3 DEF Claim
  <2> QED
    BY <1>0, <2>1 DEF StreamOK, Dispatched
<1>4. ASSUME NEW p \in Consumers, Ack(p)
      PROVE  StreamOK(a)'
  <2>1. PICK b \in Attempts : /\ b = Attempt(p) /\ Dispatched(b) /\ ~Held(Slot(b))
    BY <1>4, HandlerFacts DEF Ack, At, Attempt, ProtocolInv, HandlersOK, HandlerOK
  <2>2. stream' = [stream EXCEPT ![b] = "acked"] /\ UNCHANGED dispatches
    BY <1>4, <2>1 DEF Ack
  <2>3. CASE a = b
    BY <1>0, <2>1, <2>2, <2>3 DEF StreamOK
  <2>4. CASE a # b
    BY <1>0, <2>2, <2>4 DEF StreamOK, Dispatched
  <2> QED
    BY <2>3, <2>4
<1> QED
  BY <1>1, <1>2, <1>3, <1>4, Writers

----------------------------------------------------------------------------
(* The slots and their histories.                                          *)

\* How a handler's release changes the ledger: one release is appended to the
\* history of its own slot, and that slot was held.
LEMMA ReleaseWrites ==
    ASSUME ProtocolInv, NEW p \in Consumers, Release(p)
    PROVE  /\ Id(p) \in Ids /\ Id(p) = Slot(Attempt(p)) /\ Attempt(p) \in Attempts
           /\ Held(Id(p))
           /\ consumers[p].obs \in Observation /\ consumers[p].obs.kind = "release"
           /\ applied' = [applied EXCEPT ![Id(p)] = Append(applied[Id(p)], consumers[p].obs)]
           /\ \A i \in Ids : reservations'[i] # None => reservations[i] # None
<1>1. consumers[p].obs \in Releases /\ ~At(p, "idle")
  BY DEF Release, Releasing, ProtocolInv, HandlersOK, HandlerOK, AfterPlan, At
<1>2. PICK n \in 1..MaxObservations, t \in 0..clock, g \in Origins :
          consumers[p].obs = ReleaseObservation(n, t, g)
  BY <1>1 DEF Releases
<1>3. n \in Nat /\ t \in Nat /\ LedgerInv
  BY DurationAssumption DEF ProtocolInv, LedgerInv, LedgerTypeOK
<1>4. PICK i \in Ids : i = Id(p)
  BY <1>1, HandlerFacts
<1>5. ReleaseCapacity(i, ReleaseObservation(n, t, g))
  BY <1>2, <1>4 DEF Release
<1>6. /\ applied' = [applied EXCEPT ![i] = Append(applied[i], ReleaseObservation(n, t, g))]
      /\ reservations' = [reservations EXCEPT ![i] =
                            [reservations[i] EXCEPT !.released_at = t]]
  BY <1>3, <1>5, ReleaseEffect
<1>9. Held(i)
  BY <1>5 DEF ReleaseCapacity
<1>7. \A j \in Ids : reservations'[j] # None => reservations[j] # None
  BY <1>3, <1>6, <1>9 DEF Held, LedgerInv, LedgerTypeOK
<1>8. consumers[p].obs \in Observation /\ consumers[p].obs.kind = "release"
  BY <1>2, <1>3, ObservationTypes DEF ReleaseObservation
<1> QED
  BY <1>1, <1>2, <1>4, <1>6, <1>7, <1>8, <1>9, HandlerFacts

\* How a heartbeat changes the ledger: it is appended to the history of its
\* own slot, and leaves room for a release.
LEMMA BeatWrites ==
    ASSUME ProtocolInv, NEW p \in Consumers, HeartbeatApply(p)
    PROVE  /\ Id(p) \in Ids
           /\ consumers[p].beat \in Observation /\ consumers[p].beat.kind = "heartbeat"
           /\ applied' = [applied EXCEPT ![Id(p)] = Append(applied[Id(p)], consumers[p].beat)]
           /\ Len(applied[Id(p)]) + 1 < MaxObservations
<1>1. consumers[p].beat \in Beats /\ ~At(p, "idle")
  BY DEF HeartbeatApply, ProtocolInv, HandlersOK, HandlerOK, At
<1>2. PICK n \in 1..(MaxObservations - 1), t \in 0..clock :
          consumers[p].beat = HeartbeatObservation(n, t, "worker")
  BY <1>1 DEF Beats
<1>3. n = Len(applied[Id(p)]) + 1
  BY <1>2 DEF HeartbeatApply, Observe, Applies, LastSequence, HeartbeatObservation
<1>4. n < MaxObservations
  BY DurationAssumption
<1>5. consumers[p].beat \in Observation
  BY <1>1, ReleaseTypes DEF ProtocolInv, TypeOK, LedgerTypeOK
<1>6. applied' = [applied EXCEPT ![Id(p)] = Append(applied[Id(p)], consumers[p].beat)]
  BY DEF HeartbeatApply, Observe
<1>7. consumers[p].beat.kind = "heartbeat"
  BY <1>2 DEF HeartbeatObservation
<1>8. Len(applied[Id(p)]) + 1 < MaxObservations
  BY <1>3, <1>4
<1> QED
  BY <1>1, <1>5, <1>6, <1>7, <1>8, HandlerFacts

\* lease_observations.py: heartbeats never fill the history.
LEMMA RoomStep ==
    ASSUME ProtocolInv, [Next]_vars
    PROVE  RoomForRelease'
<1> SUFFICES ASSUME NEW i \in Ids,
                    applied'[i] # <<>>, applied'[i][Len(applied'[i])].kind = "heartbeat"
             PROVE  Len(applied'[i]) < MaxObservations
  BY DEF RoomForRelease
<1>0. applied \in [Ids -> Seq(Observation)] /\ applied[i] \in Seq(Observation)
  BY DEF ProtocolInv, TypeOK, LedgerTypeOK
<1>1. CASE applied'[i] = applied[i]
  BY <1>1 DEF ProtocolInv, RoomForRelease
<1>2. ASSUME NEW p \in Consumers, HeartbeatApply(p)
      PROVE  Len(applied'[i]) < MaxObservations
  <2>1. CASE i = Id(p)
    BY <1>0, <1>2, <2>1, BeatWrites, AppendFacts
  <2>2. CASE i # Id(p)
    BY <1>0, <1>1, <1>2, <2>2, BeatWrites
  <2> QED
    BY <2>1, <2>2
<1>3. ASSUME NEW p \in Consumers, Release(p)
      PROVE  Len(applied'[i]) < MaxObservations
  <2>1. CASE i = Id(p)
    <3>1. applied'[i] = Append(applied[i], consumers[p].obs)
      BY <1>0, <1>3, <2>1, ReleaseWrites
    <3>2. applied'[i][Len(applied'[i])] = consumers[p].obs
      BY <1>0, <1>3, <3>1, AppendFacts, ReleaseWrites
    <3> QED
      BY <1>3, <3>2, ReleaseWrites
  <2>2. CASE i # Id(p)
    BY <1>0, <1>1, <1>3, <2>2, ReleaseWrites
  <2> QED
    BY <2>1, <2>2
<1> QED
  BY <1>1, <1>2, <1>3, Writers

\* postgres_search_dispatch.py: slots are taken by dispatches only.
LEMMA SlotStep ==
    ASSUME ProtocolInv, [Next]_vars
    PROVE  SlotOfDispatch'
<1> SUFFICES ASSUME NEW i \in Ids, reservations'[i] # None
             PROVE  (Dispatched(i.attempt) /\ Slot(i.attempt) = i)'
  BY DEF SlotOfDispatch
<1>0. PICK a \in Attempts : a = i.attempt
  BY DEF Ids
<1>1. CASE reservations[i] # None
  <2>1. Dispatched(a) /\ Slot(a) = i
    BY <1>0, <1>1 DEF ProtocolInv, SlotOfDispatch
  <2>2. Dispatched(a)' /\ Slot(a)' = i
    BY <2>1, FreedStable
  <2> QED
    BY <1>0, <2>2
<1>2. ASSUME reservations[i] = None, NEW b \in Attempts, Dispatch(b)
      PROVE  (Dispatched(i.attempt) /\ Slot(i.attempt) = i)'
  <2>1. calls[b].id \in Ids /\ calls[b].id.attempt = b /\ Now(b) \in Nat
    BY <1>2, DispatchOrdinal, ObservationsStable
  <2>2. i = calls[b].id /\ a = b
    BY <1>0, <1>2, <2>1 DEF Dispatch, Reserve, ProtocolInv, LedgerInv, LedgerTypeOK
  <2> QED
    BY <1>0, <1>2, <2>2, DispatchWrites
<1>3. ASSUME reservations[i] = None, NEW p \in Consumers, Release(p)
      PROVE  FALSE
  BY <1>3, ReleaseWrites
<1> QED
  BY <1>1, <1>2, <1>3, Writers

----------------------------------------------------------------------------
(* The candidates.                                                         *)

\* A dispatch starts the next attempt of a candidate that is not running.
Starts(b) ==
    /\ Dispatch(b)
    /\ b.candidate \in Candidates
    /\ candidates[b.candidate].phase \in {"pending", "failed"}
    /\ candidates[b.candidate].ordinal + 1 = b.ordinal
    /\ candidates[b.candidate].count + 1 = b.ordinal
    /\ candidates' = [candidates EXCEPT ![b.candidate] =
           [phase |-> "running", ordinal |-> b.ordinal, count |-> b.ordinal]]

\* Handler p closes the running attempt b of a candidate.
Closes(p, b, phase) ==
    /\ b = Attempt(p)
    /\ phase = "succeeded" => CloseSucceeded(p)
    /\ phase # "succeeded" => ClosePrior(p)
    /\ b.candidate \in Candidates /\ Dispatched(b)
    /\ candidates[b.candidate].phase = "running"
    /\ candidates[b.candidate].ordinal = b.ordinal
    /\ candidates' = [candidates EXCEPT ![b.candidate].phase = phase]

\* Only a dispatch and a closing transaction change the candidate rows.
LEMMA CandidateWrites ==
    ASSUME ProtocolInv, [Next]_vars
    PROVE  \/ UNCHANGED candidates
           \/ \E b \in Attempts : Starts(b)
           \/ \E p \in Consumers, b \in Attempts, ph \in Terminal : Closes(p, b, ph)
<1>1. ASSUME NEW b \in Attempts, Dispatch(b)
      PROVE  Starts(b)
  <2>1. b.candidate \in Candidates /\ b.ordinal \in 1..MaxAttempts
    BY ProtocolAssumption
  <2>2. candidates[b.candidate].ordinal = b.ordinal - 1
        /\ candidates[b.candidate].count = b.ordinal - 1
    BY <1>1, <2>1, DispatchOrdinal DEF ProtocolInv, CandidateOK
  <2>3. candidates' = [candidates EXCEPT ![b.candidate] =
           [phase |-> "running", ordinal |-> b.ordinal,
            count |-> candidates[b.candidate].count + 1]]
    BY <1>1 DEF Dispatch, StartCandidate
  <2>4. candidates[b.candidate].count + 1 = b.ordinal
    BY <2>1, <2>2
  <2> QED
    BY <1>1, <2>1, <2>2, <2>3, <2>4 DEF Dispatch, StartCandidate, CanStart, Starts
<1>2. ASSUME NEW p \in Consumers, CloseSucceeded(p) \/ ClosePrior(p)
      PROVE  \E b \in Attempts, ph \in Terminal : Closes(p, b, ph)
  <2>1. ~At(p, "idle")
    BY <1>2 DEF CloseSucceeded, Closing, ClosePrior, ClosingPrior, At
  <2>2. PICK b \in Attempts : b = Attempt(p) /\ Dispatched(b) /\ b.candidate \in Candidates
    BY <2>1, HandlerFacts, ProtocolAssumption
  <2>3. PICK ph \in Terminal :
          /\ ph = "succeeded" => CloseSucceeded(p)
          /\ ph # "succeeded" => ClosePrior(p)
          /\ \E t : RecordTerminal(Attempt(p), ph, t)
    <3>1. CASE CloseSucceeded(p)
      BY <3>1 DEF CloseSucceeded, Terminal
    <3>2. CASE ClosePrior(p)
      <4>1. PriorPhase(p) \in Terminal /\ PriorPhase(p) # "succeeded"
        BY DEF PriorPhase, Terminal
      <4>2. RecordTerminal(Attempt(p), PriorPhase(p), consumers[p].obs.observed_at)
        BY <3>2 DEF ClosePrior
      <4> QED
        BY <3>2, <4>1, <4>2
    <3> QED
      BY <1>2, <3>1, <3>2
  <2> QED
    BY <2>2, <2>3 DEF RecordTerminal, CanRecord, Running, Closes
<1> QED
  BY <1>1, <1>2, Writers

\* The last transition of the search is not in the future.
LEMMA SearchTimeStep ==
    ASSUME ProtocolInv, [Next]_vars
    PROVE  search'.updated_at <= clock'
<1>0. clock <= clock' /\ clock \in Nat /\ clock' \in Nat
  BY ObservationsStable
<1>1. search \in [updated_at : Nat, cancelled : BOOLEAN] /\ search.updated_at <= clock
  BY DEF ProtocolInv, TypeOK, CandidateOK
<1>2. CASE UNCHANGED search
  BY <1>0, <1>1, <1>2
<1>3. CASE RequestCancellation
  BY <1>0, <1>3 DEF RequestCancellation
<1>4. ASSUME NEW t \in 0..clock, search' = [search EXCEPT !.updated_at = t]
      PROVE  search'.updated_at <= clock'
  BY <1>0, <1>1, <1>4
<1>5. ASSUME NEW a \in Attempts, Dispatch(a)
      PROVE  search'.updated_at <= clock'
  BY <1>4, <1>5, DispatchOrdinal DEF Dispatch, StartCandidate
<1>6. ASSUME NEW p \in Consumers, CloseSucceeded(p) \/ ClosePrior(p)
      PROVE  search'.updated_at <= clock'
  BY <1>4, <1>6, ClosingTimes DEF CloseSucceeded, ClosePrior, RecordTerminal
<1> QED
  BY <1>2, <1>3, <1>5, <1>6, Writers

\* search_state.py: the candidate row counts its dispatched attempts, and all
\* of them but the last have freed their slots.
LEMMA CandidateStep ==
    ASSUME ProtocolInv, [Next]_vars
    PROVE  CandidateOK'
<1>0. candidates \in [Candidates -> [phase : Phases, ordinal : 0..MaxAttempts,
                                     count : 0..MaxAttempts]]
  BY DEF ProtocolInv, TypeOK
<1>1. ASSUME NEW c \in Candidates
      PROVE  (/\ candidates[c].count = candidates[c].ordinal
              /\ candidates[c].phase = "pending" <=> candidates[c].ordinal = 0)'
  <2>1. /\ candidates[c].count = candidates[c].ordinal
        /\ candidates[c].phase = "pending" <=> candidates[c].ordinal = 0
    BY DEF ProtocolInv, CandidateOK
  <2>2. ASSUME NEW b \in Attempts, Starts(b)
        PROVE  (/\ candidates[c].count = candidates[c].ordinal
                /\ candidates[c].phase = "pending" <=> candidates[c].ordinal = 0)'
    <3>1. b.ordinal \in 1..MaxAttempts
      BY ProtocolAssumption
    <3> QED
      BY <1>0, <2>1, <2>2, <3>1 DEF Starts
  <2>3. ASSUME NEW p \in Consumers, NEW b \in Attempts, NEW ph \in Terminal, Closes(p, b, ph)
        PROVE  (/\ candidates[c].count = candidates[c].ordinal
                /\ candidates[c].phase = "pending" <=> candidates[c].ordinal = 0)'
    BY <1>0, <2>1, <2>3 DEF Closes, Terminal
  <2> QED
    BY <2>1, <2>2, <2>3, CandidateWrites
<1>2. ASSUME NEW a \in Attempts
      PROVE  (/\ Dispatched(a) <=> a.ordinal <= candidates[a.candidate].ordinal
              /\ a.ordinal < candidates[a.candidate].ordinal => ~Held(Slot(a)))'
  <2>0. /\ Dispatched(a) <=> a.ordinal <= candidates[a.candidate].ordinal
        /\ a.ordinal < candidates[a.candidate].ordinal => ~Held(Slot(a))
        /\ a.candidate \in Candidates /\ a.ordinal \in 1..MaxAttempts
        /\ candidates[a.candidate].ordinal \in 0..MaxAttempts
    BY <1>0, ProtocolAssumption DEF ProtocolInv, CandidateOK
  <2>1. Dispatched(a) => Dispatched(a)' /\ (~Held(Slot(a)) => ~Held(Slot(a))')
    BY FreedStable
  <2>2. ASSUME NEW b \in Attempts, Dispatch(b)
        PROVE  (/\ Dispatched(a) <=> a.ordinal <= candidates[a.candidate].ordinal
                /\ a.ordinal < candidates[a.candidate].ordinal => ~Held(Slot(a)))'
    <3>1. /\ b.candidate \in Candidates /\ b.ordinal \in 1..MaxAttempts
          /\ candidates[b.candidate].ordinal = b.ordinal - 1
          /\ candidates' = [candidates EXCEPT ![b.candidate] =
               [phase |-> "running", ordinal |-> b.ordinal,
                count |-> candidates[b.candidate].count + 1]]
      BY <2>2, DispatchOrdinal, ProtocolAssumption DEF Dispatch, StartCandidate
    <3>2. a # b => (Dispatched(a)' <=> Dispatched(a))
      BY <2>2 DEF Dispatch, Dispatched, ProtocolInv, TypeOK
    <3>3. Dispatched(b)'
      BY <2>2, DispatchWrites
    <3>4. a.candidate = b.candidate /\ a.ordinal = b.ordinal => a = b
      BY ProtocolAssumption
    <3>5. CASE a.candidate # b.candidate
      BY <1>0, <2>0, <2>1, <3>1, <3>2, <3>5
    <3>6. CASE a.candidate = b.candidate
      <4>1. candidates'[a.candidate].ordinal = b.ordinal
        BY <1>0, <3>1, <3>6
      <4>2. Dispatched(a)' <=> a.ordinal <= b.ordinal
        BY <2>0, <3>1, <3>2, <3>3, <3>4, <3>6
      <4>3. ASSUME a.ordinal < b.ordinal
            PROVE  Dispatched(a) /\ ~Held(Slot(a))
        <5>1. Dispatched(a)
          BY <2>0, <3>1, <3>6, <4>3
        <5>2. CASE a.ordinal < b.ordinal - 1
          BY <2>0, <3>1, <3>6, <5>1, <5>2
        <5>3. CASE a.ordinal = b.ordinal - 1
          <6>1. b.ordinal > 1
            BY <2>0, <3>1, <5>3
          <6>2. a = Previous(b)
            BY <3>1, <3>6, <5>3, <6>1, PreviousFacts, ProtocolAssumption
          <6> QED
            BY <2>2, <5>1, <6>1, <6>2, DispatchOrdinal DEF RetryOrdered, FreedBy
        <5> QED
          BY <2>0, <3>1, <4>3, <5>2, <5>3
      <4> QED
        BY <2>1, <4>1, <4>2, <4>3
    <3> QED
      BY <3>5, <3>6
  <2>3. ASSUME UNCHANGED dispatches, candidates'[a.candidate].ordinal = candidates[a.candidate].ordinal
        PROVE  (/\ Dispatched(a) <=> a.ordinal <= candidates[a.candidate].ordinal
                /\ a.ordinal < candidates[a.candidate].ordinal => ~Held(Slot(a)))'
    <3>1. Dispatched(a)' <=> Dispatched(a)
      BY <2>3 DEF Dispatched
    <3> QED
      BY <2>0, <2>1, <2>3, <3>1
  <2>4. CASE UNCHANGED dispatches
    <3>1. ASSUME NEW b \in Attempts, Dispatch(b)
          PROVE  FALSE
      BY <2>4, <3>1, DispatchOrdinal, DispatchWrites DEF Dispatched
    <3>2. candidates'[a.candidate].ordinal = candidates[a.candidate].ordinal
      BY <1>0, <2>0, <3>1, CandidateWrites DEF Starts, Closes
    <3> QED
      BY <2>3, <2>4, <3>2
  <2> QED
    BY <2>2, <2>4, Writers
<1> QED
  BY <1>1, <1>2, SearchTimeStep DEF CandidateOK

\* search_state.py: a candidate is closed with the evidence of its receipt and
\* of the release that the receipt explains, and the evidence stays.
LEMMA EvidenceStep ==
    ASSUME ProtocolInv, [Next]_vars
    PROVE  TerminalHasEvidence'
<1> DEFINE Success(a) == /\ a \in completions
                         /\ settlements[a] # None
                         /\ Recorded(Slot(a), settlements[a].obs)
                         /\ ~Held(Slot(a))
           Failure(a) == /\ recoveries[a] # None
                         /\ Recorded(Slot(a), recoveries[a].obs)
                         /\ ~Held(Slot(a))
           Evidence(a) ==
                candidates[a.candidate].ordinal = a.ordinal =>
                    /\ candidates[a.candidate].phase = "succeeded" => Success(a)
                    /\ candidates[a.candidate].phase \in {"failed", "cancelled"} => Failure(a)
<1>0. TerminalHasEvidence <=> \A a \in Attempts : Evidence(a)
  BY DEF TerminalHasEvidence
<1>1. TerminalHasEvidence' <=> \A a \in Attempts : Evidence(a)'
  BY DEF TerminalHasEvidence
<1> SUFFICES ASSUME NEW a \in Attempts PROVE Evidence(a)'
  BY <1>1
<1>2. Evidence(a) /\ a.candidate \in Candidates
  BY <1>0, ProtocolAssumption DEF ProtocolInv
<1>3. candidates \in [Candidates -> [phase : Phases, ordinal : 0..MaxAttempts,
                                     count : 0..MaxAttempts]]
  BY DEF ProtocolInv, TypeOK
<1>4. ASSUME Dispatched(a)
      PROVE  (Success(a) => Success(a)') /\ (Failure(a) => Failure(a)')
  <2>1. PICK s, r : s = settlements[a].obs /\ r = recoveries[a].obs
    OBVIOUS
  <2>2. /\ ~Held(Slot(a)) => ~Held(Slot(a))'
        /\ Recorded(Slot(a), s) => Recorded(Slot(a), s)'
        /\ Recorded(Slot(a), r) => Recorded(Slot(a), r)'
    BY <1>4, FreedStable
  <2>3. /\ settlements[a] # None => settlements'[a] = settlements[a]
        /\ recoveries[a] # None => recoveries'[a] = recoveries[a]
        /\ a \in completions => a \in completions'
    BY RowsStable
  <2>4. Success(a) => Success(a)'
    BY <2>1, <2>2, <2>3 DEF Recorded
  <2>5. Failure(a) => Failure(a)'
    BY <2>1, <2>2, <2>3 DEF Recorded
  <2> QED
    BY <2>4, <2>5
<1>5. CASE candidates'[a.candidate] = candidates[a.candidate]
  <2>1. candidates[a.candidate].ordinal = a.ordinal => Dispatched(a)
    <3>1. a.ordinal \in Nat
      BY ProtocolAssumption
    <3> QED
      BY <3>1 DEF ProtocolInv, CandidateOK
  <2>2. CASE candidates[a.candidate].ordinal = a.ordinal
    <3>1. Dispatched(a)
      BY <2>1, <2>2
    <3>2. (Success(a) => Success(a)') /\ (Failure(a) => Failure(a)')
      BY <1>4, <3>1
    <3> HIDE DEF Success, Failure
    <3> QED
      BY <1>2, <1>5, <2>2, <3>2
  <2>3. CASE candidates[a.candidate].ordinal # a.ordinal
    BY <1>5, <2>3
  <2> QED
    BY <2>2, <2>3
<1>6. ASSUME NEW b \in Attempts, Starts(b)
      PROVE  Evidence(a)'
  <2>1. CASE a.candidate = b.candidate
    BY <1>2, <1>3, <1>6, <2>1 DEF Starts
  <2>2. CASE a.candidate # b.candidate
    BY <1>2, <1>3, <1>5, <1>6, <2>2 DEF Starts
  <2> QED
    BY <2>1, <2>2
<1>7. ASSUME NEW p \in Consumers, NEW b \in Attempts, NEW ph \in Terminal, Closes(p, b, ph)
      PROVE  Evidence(a)'
  <2>1. CASE a.candidate # b.candidate
    BY <1>2, <1>3, <1>5, <1>7, <2>1 DEF Closes
  <2>2. CASE a.candidate = b.candidate /\ a.ordinal # b.ordinal
    BY <1>2, <1>3, <1>7, <2>2 DEF Closes
  <2>3. CASE a.candidate = b.candidate /\ a.ordinal = b.ordinal
    <3>1. a = b /\ a = Attempt(p) /\ Dispatched(a)
      BY <1>7, <2>3, ProtocolAssumption DEF Closes
    <3>2. candidates'[a.candidate].phase = ph
      BY <1>2, <1>3, <1>7, <2>3 DEF Closes
    <3>3. CASE ph = "succeeded"
      <4>1. Success(a)
        BY <1>7, <3>1, <3>3
           DEF Closes, CloseSucceeded, Closing, CommittedTerminal, Id, Slot
      <4>2. Success(a)'
        BY <1>4, <3>1, <4>1
      <4> HIDE DEF Success, Failure
      <4> QED
        BY <3>2, <3>3, <4>2
    <3>4. CASE ph # "succeeded"
      <4>1. ClosePrior(p)
        BY <1>7, <3>4 DEF Closes
      <4>2. consumers[p].pc \in AfterFreed /\ consumers[p].pc \in AfterPlan
            /\ consumers[p].pc \in AfterReceipt
        BY <4>1 DEF ClosePrior, ClosingPrior, AfterFreed, AfterReceipt, AfterPlan
      <4>3. recoveries[a] = PlannedReceipt(p) /\ FreedBy(a, consumers[p].obs)
        BY <3>1, <4>2 DEF ProtocolInv, HandlersOK, HandlerOK, PlannedReceipt, Attempt
      <4>4. Failure(a)
        BY <4>2, <4>3, PlannedType DEF FreedBy, PlannedReceipt
      <4>5. Failure(a)'
        BY <1>4, <3>1, <4>4
      <4> HIDE DEF Success, Failure
      <4> QED
        BY <3>2, <3>4, <4>5
    <3> QED
      BY <3>3, <3>4
  <2> QED
    BY <2>1, <2>2, <2>3
<1> QED
  BY <1>5, <1>6, <1>7, CandidateWrites

\* worker_settlement.py and postgres_worker_recovery.py: the receipt is stored
\* before the release it explains.
LEMMA ReceiptFirstStep ==
    ASSUME ProtocolInv, [Next]_vars
    PROVE  ReleaseHasReceipt'
<1> SUFFICES ASSUME NEW a \in Attempts, Dispatched(a)',
                    NEW i \in Ids, i = Slot(a)',
                    NEW n \in DOMAIN applied'[i], applied'[i][n].kind = "release"
             PROVE  \E r \in Receipts(a)' : r.obs = applied'[i][n]
  <2>1. ASSUME NEW a \in Attempts, Dispatched(a)'
        PROVE  Slot(a)' \in Ids
    <3>1. CASE Dispatched(a)
      BY <3>1, FreedStable
    <3>2. CASE ~Dispatched(a)
      <4>1. PICK b \in Attempts : Dispatch(b)
        BY <2>1, <3>2, Writers DEF Dispatched
      <4>2. a = b
        BY <2>1, <3>2, <4>1 DEF Dispatch, Dispatched, ProtocolInv, TypeOK
      <4> QED
        BY <4>1, <4>2, DispatchWrites, DispatchOrdinal
    <3> QED
      BY <3>1, <3>2
  <2> QED
    BY <2>1 DEF ReleaseHasReceipt
<1>0. applied \in [Ids -> Seq(Observation)] /\ LedgerInv
  BY DEF ProtocolInv, TypeOK, LedgerTypeOK
<1>1. \A r \in Receipts(a) : r \in Receipts(a)'
  BY RowsStable DEF Receipts
<1>2. CASE Dispatched(a)
  <2>1. i = Slot(a) /\ i.attempt = a
    BY <1>2, FreedStable, SlotFacts DEF ProtocolInv
  <2>2. ASSUME n \in DOMAIN applied[i], applied'[i][n] = applied[i][n]
        PROVE  \E r \in Receipts(a)' : r.obs = applied'[i][n]
    BY <1>1, <1>2, <2>1, <2>2 DEF ProtocolInv, ReleaseHasReceipt
  <2>3. ASSUME NEW p \in Consumers, HeartbeatApply(p)
        PROVE  \E r \in Receipts(a)' : r.obs = applied'[i][n]
    <3>1. CASE Id(p) # i
      BY <1>0, <2>2, <2>3, <3>1, BeatWrites
    <3>2. CASE Id(p) = i
      <4>1. applied'[i] = Append(applied[i], consumers[p].beat)
        BY <1>0, <2>3, <3>2, BeatWrites
      <4>2. n \in 1..Len(applied[i]) \/ applied'[i][n] = consumers[p].beat
        BY <1>0, <2>3, <4>1, AppendFacts, BeatWrites
      <4>3. n \in 1..Len(applied[i])
        BY <2>3, <4>2, BeatWrites
      <4> QED
        BY <1>0, <2>2, <2>3, <4>1, <4>3, AppendFacts, BeatWrites
    <3> QED
      BY <3>1, <3>2
  <2>4. ASSUME NEW p \in Consumers, Release(p)
        PROVE  \E r \in Receipts(a)' : r.obs = applied'[i][n]
    <3>1. CASE Id(p) # i
      BY <1>0, <2>2, <2>4, <3>1, ReleaseWrites
    <3>2. CASE Id(p) = i
      <4>1. applied'[i] = Append(applied[i], consumers[p].obs)
        BY <1>0, <2>4, <3>2, ReleaseWrites
      <4>2. CASE n \in 1..Len(applied[i])
        BY <1>0, <2>2, <2>4, <4>1, <4>2, AppendFacts, ReleaseWrites
      <4>3. CASE applied'[i][n] = consumers[p].obs
        <5>1. Attempt(p) = a /\ ~At(p, "idle")
          BY <2>1, <2>4, <3>2, HandlerFacts DEF Release, Releasing, At
        <5>2. CASE At(p, "settle_release")
          <6>1. settlements[a] = SettlementReceipt(p)
            BY <5>1, <5>2 DEF ProtocolInv, HandlersOK, HandlerOK, At, Attempt, SettlementReceipt
          <6>2. SettlementReceipt(p) \in SettlementRow
            BY <5>1, <5>2, ReleaseTypes
               DEF ProtocolInv, HandlersOK, HandlerOK, At, SettlementReceipt, SettlementRow,
                   TypeOK, LedgerTypeOK
          <6>3. settlements[a] \in Receipts(a) /\ settlements[a].obs = consumers[p].obs
            BY <6>1, <6>2, RowAssumption DEF Receipts, SettlementReceipt
          <6> QED
            BY <1>1, <4>3, <6>3
        <5>3. CASE At(p, "recover_release")
          <6>1. recoveries[a] = PlannedReceipt(p) /\ consumers[p].pc \in AfterPlan
            BY <5>1, <5>3 DEF ProtocolInv, HandlersOK, HandlerOK, At, Attempt, PlannedReceipt,
                              AfterPlan, AfterReceipt
          <6>2. recoveries[a] \in Receipts(a) /\ recoveries[a].obs = consumers[p].obs
            BY <6>1, PlannedType DEF Receipts, PlannedReceipt
          <6> QED
            BY <1>1, <4>3, <6>2
        <5> QED
          BY <2>4, <5>2, <5>3 DEF Release, Releasing, At
      <4> QED
        BY <1>0, <2>4, <4>1, <4>2, <4>3, AppendFacts, ReleaseWrites
    <3> QED
      BY <3>1, <3>2
  <2> QED
    BY <2>2, <2>3, <2>4, Writers
<1>3. CASE ~Dispatched(a)
  <2>1. PICK b \in Attempts : Dispatch(b)
    BY <1>3, Writers DEF Dispatched
  <2>2. a = b
    BY <1>3, <2>1 DEF Dispatch, Dispatched, ProtocolInv, TypeOK
  <2>3. i = calls[a].id
    BY <2>1, <2>2, DispatchWrites
  <2>4. reservations[i] = None /\ applied' = applied
    BY <2>1, <2>2, <2>3 DEF Dispatch, Reserve, SlotFree
  <2>5. leases[i] # None /\ leases[i].released_at = applied[i][n].observed_at
    BY <1>0, <2>4 DEF LedgerInv, HistoryLoadable, HistoryMatchesLease
  <2>6. applied[i][n] \in Observation
    BY <1>0, <2>4
  <2>7. leases[i].released_at # None
    BY <2>5, <2>6, NoneAssumption DEF Observation
  <2>8. FALSE
    BY <1>0, <2>4, <2>5, <2>7 DEF LedgerInv, ReleasedTogether, Live
  <2> QED
    BY <2>8
<1> QED
  BY <1>2, <1>3

----------------------------------------------------------------------------
(* The invariant holds.                                                    *)

\* The empty tables, the empty stream and idle handlers satisfy it.
LEMMA ProtocolInit == Init => ProtocolInv
<1> SUFFICES ASSUME Init PROVE ProtocolInv
  OBVIOUS
<1>1. LedgerInv /\ LedgerTypeOK
  BY InvInit DEF Init, LedgerInv
<1>2. TypeOK
  <2>1. Idle \in HandlerState
    BY DEF Idle, HandlerState, Steps
  <2>2. [phase |-> "pending", ordinal |-> 0, count |-> 0]
           \in [phase : Phases, ordinal : 0..MaxAttempts, count : 0..MaxAttempts]
    BY ProtocolAssumption DEF Phases
  <2> QED
    BY <1>1, <2>1, <2>2, ProtocolAssumption DEF Init, TypeOK
<1>3. \A a \in Attempts : ~Dispatched(a) /\ calls[a] = None /\ settlements[a] = None
                          /\ recoveries[a] = None /\ stream[a] = "none"
  BY DEF Init, Dispatched
<1>4. RoomForRelease /\ SlotOfDispatch
  BY DEF Init, LedgerInit, RoomForRelease, SlotOfDispatch
<1>5. RowsOK
  BY <1>3 DEF RowsOK, CallOK, DispatchOK, ReceiptOK, StreamOK
<1>6. CandidateOK
  <2>1. \A c \in Candidates : candidates[c] = [phase |-> "pending", ordinal |-> 0, count |-> 0]
    BY DEF Init
  <2>2. \A a \in Attempts : a.candidate \in Candidates /\ a.ordinal \in 1..MaxAttempts
    BY ProtocolAssumption
  <2> QED
    BY <1>3, <2>1, <2>2, ProtocolAssumption DEF Init, LedgerInit, CandidateOK
<1>7. HandlersOK
  BY DEF Init, HandlersOK, HandlerOK, Idle, AfterPlan, AfterReceipt, AfterFreed
<1>8. TerminalHasEvidence
  BY ProtocolAssumption DEF Init, TerminalHasEvidence
<1>9. ReleaseHasReceipt
  BY <1>3 DEF ReleaseHasReceipt
<1> QED
  BY <1>1, <1>2, <1>4, <1>5, <1>6, <1>7, <1>8, <1>9 DEF ProtocolInv

\* Every step of the API, of a handler and of the clock keeps it.
LEMMA ProtocolStep == ProtocolInv /\ [Next]_vars => ProtocolInv'
<1> SUFFICES ASSUME ProtocolInv, [Next]_vars PROVE ProtocolInv'
  OBVIOUS
<1>1. LedgerInv'
  BY ProtocolLedgerStep, InvStep DEF ProtocolInv
<1>2. TypeOK'
  BY <1>1, TablesStep, HandlersStep DEF TypeOK, LedgerInv
<1>3. RowsOK'
  BY CallStep, DispatchStep, ReceiptStep, StreamStep DEF RowsOK
<1> QED
  BY <1>1, <1>2, <1>3, RoomStep, SlotStep, CandidateStep, HandlersStep,
     EvidenceStep, ReceiptFirstStep DEF ProtocolInv

\* The inductive invariant holds in every state of the protocol.
THEOREM ProtocolInvariant == Spec => []ProtocolInv
  BY ProtocolInit, ProtocolStep, PTL DEF Spec

\* postgres_worker_state.py under its real callers: the dispatch transaction,
\* the heartbeat loop and the release of a handler use the ledger only in ways
\* LeaseCapacity allows, so all that is proved of the ledger holds here.
THEOREM ProtocolUsesLedger == Spec => LedgerSpec
<1>1. Init => LedgerInit
  BY DEF Init
<1>2. ProtocolInv /\ [Next]_vars => [LedgerNext]_ledgerVars
  BY ProtocolLedgerStep
<1> QED
  BY <1>1, <1>2, ProtocolInvariant, PTL DEF Spec, LedgerSpec

\* Every row, call and handler state keeps its type: no retry beyond
\* max_attempts is persisted or dispatched.
THEOREM ProtocolType == Spec => []TypeOK
<1>1. ProtocolInv => TypeOK
  BY DEF ProtocolInv
<1> QED
  BY <1>1, ProtocolInvariant, PTL

\* worker_consumer.py: an acknowledged entry never leaves its slot occupied.
THEOREM ProtocolAcked == Spec => []AckedIsReleased
<1>1. ProtocolInv => AckedIsReleased
  BY DEF ProtocolInv, RowsOK, StreamOK, AckedIsReleased
<1> QED
  BY <1>1, ProtocolInvariant, PTL

\* worker_recovery_application.py: a retry is dispatched only after the receipt
\* that orders it has freed the slot of the attempt before.
THEOREM ProtocolRetry == Spec => []RetryFollowsRelease
<1>1. ProtocolInv => RetryFollowsRelease
  BY DEF ProtocolInv, RowsOK, DispatchOK, RetryOrdered, FreedBy, RetryFollowsRelease
<1> QED
  BY <1>1, ProtocolInvariant, PTL

\* worker_settlement.py and postgres_worker_recovery.py: every release in a
\* history is explained by a receipt, wherever a handler crashed.
THEOREM ProtocolReceipts == Spec => []ReleaseHasReceipt
<1>1. ProtocolInv => ReleaseHasReceipt
  BY DEF ProtocolInv
<1> QED
  BY <1>1, ProtocolInvariant, PTL

\* search_state.py: no candidate is closed without a receipt whose release
\* freed its slot.
THEOREM ProtocolEvidence == Spec => []TerminalHasEvidence
<1>1. ProtocolInv => TerminalHasEvidence
  BY DEF ProtocolInv
<1> QED
  BY <1>1, ProtocolInvariant, PTL

\* workers.py and worker_recovery_application.py: a candidate never holds two
\* slots, however many workers there are and however its attempts interleave.
THEOREM ProtocolOneSlot == Spec => []OneSlotPerCandidate
<1>1. ProtocolInv => OneSlotPerCandidate
  <2> SUFFICES ASSUME ProtocolInv, NEW i \in Ids, NEW j \in Ids, Held(i), Held(j),
                      i.attempt.candidate = j.attempt.candidate
               PROVE  i = j
    BY DEF OneSlotPerCandidate
  <2>1. i.attempt \in Attempts /\ j.attempt \in Attempts
    BY DEF Ids
  <2>2. /\ Dispatched(i.attempt) /\ Slot(i.attempt) = i
        /\ Dispatched(j.attempt) /\ Slot(j.attempt) = j
    BY DEF ProtocolInv, SlotOfDispatch, Held
  <2>3. ASSUME NEW a \in Attempts, Dispatched(a), Held(Slot(a))
        PROVE  a.ordinal = candidates[a.candidate].ordinal
    <3>1. a.candidate \in Candidates /\ a.ordinal \in Nat
      BY ProtocolAssumption
    <3>2. candidates[a.candidate].ordinal \in Nat
      BY <3>1 DEF ProtocolInv, TypeOK
    <3> QED
      BY <2>3, <3>1, <3>2 DEF ProtocolInv, CandidateOK
  <2>4. i.attempt.ordinal = j.attempt.ordinal
    BY <2>1, <2>2, <2>3
  <2>5. i.attempt = j.attempt
    BY <2>1, <2>4, ProtocolAssumption
  <2> QED
    BY <2>2, <2>5
<1> QED
  BY <1>1, ProtocolInvariant, PTL

\* search_state.py: no late replay of an earlier attempt reopens or overwrites
\* a closed candidate.
THEOREM ProtocolHistory == Spec => CandidateHistory
<1>1. ASSUME ProtocolInv, [Next]_vars, NEW c \in Candidates
      PROVE  LET old == candidates[c]  new == candidates'[c]
             IN  /\ old.phase \in {"succeeded", "cancelled"} => new = old
                 /\ old.phase = "failed" =>
                        \/ new = old
                        \/ /\ new.phase = "running"
                           /\ new.ordinal = old.ordinal + 1
                 /\ old.phase = "running" => new.ordinal = old.ordinal
  <2>0. candidates \in [Candidates -> [phase : Phases, ordinal : 0..MaxAttempts,
                                       count : 0..MaxAttempts]]
    BY <1>1 DEF ProtocolInv, TypeOK
  <2>1. CASE UNCHANGED candidates
    BY <2>1
  <2>2. CASE \E b \in Attempts : Starts(b)
    BY <2>0, <2>2 DEF Starts
  <2>3. CASE \E p \in Consumers, b \in Attempts, ph \in Terminal : Closes(p, b, ph)
    BY <2>0, <2>3 DEF Closes
  <2> QED
    BY <1>1, <2>1, <2>2, <2>3, CandidateWrites
<1>2. ProtocolInv /\ [Next]_vars =>
        [\A c \in Candidates :
          LET old == candidates[c]  new == candidates'[c]
          IN  /\ old.phase \in {"succeeded", "cancelled"} => new = old
              /\ old.phase = "failed" =>
                     \/ new = old
                     \/ /\ new.phase = "running"
                        /\ new.ordinal = old.ordinal + 1
              /\ old.phase = "running" => new.ordinal = old.ordinal]_vars
  BY <1>1
<1> QED
  BY <1>2, ProtocolInvariant, PTL DEF Spec, CandidateHistory

\* postgres_search_dispatch.py and worker_consumer.py: the entry of an attempt
\* is put on the stream once, handed out, and gone for good when acknowledged:
\* the protocol implements EntryDelivery.
THEOREM ProtocolEntries == Spec => EntryLifecycle
<1>1. Init => Entries!DeliveryInit
  BY DEF Init, Entries!DeliveryInit
<1>2. ProtocolInv /\ [Next]_vars => [Entries!DeliveryNext]_stream
  <2> SUFFICES ASSUME ProtocolInv, [Next]_vars
               PROVE  [Entries!DeliveryNext]_stream
    OBVIOUS
  <2>0. stream \in [Attempts -> {"none", "ready", "pending", "acked"}]
    BY DEF ProtocolInv, TypeOK
  <2>1. ASSUME NEW b \in Attempts, Dispatch(b)
        PROVE  Entries!DeliveryNext
    <3>1. stream[b] = "none"
      BY <2>1, DispatchOrdinal DEF ProtocolInv, RowsOK, StreamOK
    <3>2. Entries!Enqueue(b)
      BY <2>1, <3>1 DEF Dispatch, Entries!Enqueue
    <3> QED
      BY <3>2 DEF Entries!DeliveryNext
  <2>2. ASSUME NEW p \in Consumers, NEW b \in Attempts, Claim(p, b)
        PROVE  [Entries!DeliveryNext]_stream
    <3>1. CASE stream[b] = "ready"
      <4>1. stream' = [m \in Attempts |-> IF m \in {b} THEN "pending" ELSE stream[m]]
        BY <2>0, <2>2 DEF Claim
      <4>2. Entries!Deliver({b})
        BY <3>1, <4>1 DEF Entries!Deliver
      <4> QED
        BY <4>2 DEF Entries!DeliveryNext
    <3>2. CASE stream[b] = "pending"
      BY <2>0, <2>2, <3>2 DEF Claim
    <3> QED
      BY <2>2, <3>1, <3>2 DEF Claim
  <2>3. ASSUME NEW p \in Consumers, Ack(p)
        PROVE  [Entries!DeliveryNext]_stream
    <3>1. Attempt(p) \in Attempts /\ stream[Attempt(p)] \in {"pending", "acked"}
      BY <2>3, HandlerFacts DEF Ack, At, Attempt, ProtocolInv, HandlersOK, HandlerOK
    <3>2. stream' = [stream EXCEPT ![Attempt(p)] = "acked"]
      BY <2>3 DEF Ack
    <3>3. CASE stream[Attempt(p)] = "pending"
      <4>1. Entries!Ack(Attempt(p))
        BY <3>2, <3>3 DEF Entries!Ack
      <4> QED
        BY <3>1, <4>1 DEF Entries!DeliveryNext
    <3>4. CASE stream[Attempt(p)] = "acked"
      BY <2>0, <3>1, <3>2, <3>4
    <3> QED
      BY <3>1, <3>3, <3>4
  <2> QED
    BY <2>1, <2>2, <2>3, Writers
<1> QED
  BY <1>1, <1>2, ProtocolInvariant, PTL DEF Spec, EntryLifecycle, Entries!DeliverySafety

----------------------------------------------------------------------------
(* Without a heartbeat writer, which is how worker_callbacks.py builds the *)
(* handler: a held slot has an empty history, so a receipt computed from   *)
(* it stays applicable and a run can be settled as of its dispatch.        *)

\* A release computed for slot i before it had any history.
FirstRelease(i, o) == o.sequence = 1 /\ o.observed_at >= leases[i].leased_at

LeaseTimes ==
    \A i \in Ids :
        leases[i] # None =>
            /\ leases[i].leased_at <= clock
            /\ InCall(i.attempt) => leases[i].leased_at <= Now(i.attempt)
            /\ Dispatched(i.attempt) /\ Slot(i.attempt) = i =>
                  leases[i].leased_at <= dispatches[i.attempt].at

NoHistoryWhileHeld ==
    \A i \in Ids :
        /\ applied[i] # <<>> => reservations[i] # None /\ ~Held(i)
        /\ leases[i] # None => leases[i].heartbeat_at = leases[i].leased_at

FirstReceipts ==
    /\ \A p \in Consumers : ~consumers[p].beating /\ consumers[p].beat = None
    /\ \A p \in Consumers : At(p, "receipt") => FirstRelease(Id(p), consumers[p].obs)
    /\ \A a \in Attempts :
          recoveries[a] # None => FirstRelease(Slot(a), recoveries[a].obs)

QuietInv == LeaseTimes /\ NoHistoryWhileHeld /\ FirstReceipts

\* Without a heartbeat writer no step changes the start or the heartbeat of a
\* lease, and only a release writes a history.
LEMMA QuietLedger ==
    ASSUME ProtocolInv, FirstReceipts, [Next]_vars, NEW i \in Ids
    PROVE  /\ leases[i] # None =>
                 /\ leases'[i].leased_at = leases[i].leased_at
                 /\ leases'[i].heartbeat_at = leases[i].heartbeat_at
           /\ leases[i] = None /\ leases'[i] # None =>
                 AssignWorker(i) /\ leases'[i] = NewLease(LeaseStart(i.attempt))
           /\ applied'[i] = applied[i] \/ \E p \in Consumers : Release(p) /\ Id(p) = i
<1>0. /\ leases \in [Ids -> Lease \cup {None}]
      /\ applied \in [Ids -> Seq(Observation)]
  BY DEF ProtocolInv, TypeOK, LedgerTypeOK
<1>1. \A p \in Consumers : ~HeartbeatApply(p)
  BY DEF FirstReceipts, HeartbeatApply
<1>2. applied'[i] = applied[i] \/ \E p \in Consumers : Release(p) /\ Id(p) = i
  BY <1>0, <1>1, Writers, ReleaseWrites
<1>3. CASE UNCHANGED leases
  BY <1>2, <1>3
<1>4. ASSUME NEW j \in Ids, AssignWorker(j), ~UNCHANGED leases
      PROVE  /\ leases[i] # None => leases'[i] = leases[i]
             /\ leases[i] = None /\ leases'[i] # None =>
                   AssignWorker(i) /\ leases'[i] = NewLease(LeaseStart(i.attempt))
  BY <1>0, <1>4 DEF AssignWorker, PersistLease
<1>5. ASSUME NEW p \in Consumers, Release(p)
      PROVE  /\ leases[i] # None =>
                 /\ leases'[i].leased_at = leases[i].leased_at
                 /\ leases'[i].heartbeat_at = leases[i].heartbeat_at
             /\ leases[i] = None => leases'[i] = None
  <2>1. consumers[p].obs \in Releases /\ ~At(p, "idle")
    BY <1>5 DEF Release, Releasing, ProtocolInv, HandlersOK, HandlerOK, AfterPlan, At
  <2>2. PICK n \in 1..MaxObservations, t \in 0..clock, g \in Origins :
            consumers[p].obs = ReleaseObservation(n, t, g)
    BY <2>1 DEF Releases
  <2>3. PICK j \in Ids : j = Id(p)
    BY <2>1, HandlerFacts
  <2>4. n \in Nat /\ t \in Nat /\ LedgerInv
    BY DurationAssumption DEF ProtocolInv, LedgerInv, LedgerTypeOK
  <2>5. ReleaseCapacity(j, ReleaseObservation(n, t, g))
    BY <1>5, <2>2, <2>3 DEF Release
  <2>6. /\ leases[j] \in Lease
        /\ leases' = [leases EXCEPT ![j] = [leases[j] EXCEPT !.released_at = t]]
    BY <2>4, <2>5, ReleaseEffect
  <2>7. leases[j] # None
    BY <2>6, NoneAssumption
  <2> QED
    BY <1>0, <2>6, <2>7 DEF Lease
<1>6. \/ UNCHANGED leases
      \/ \E j \in Ids : AssignWorker(j)
      \/ \E p \in Consumers : Release(p)
  <2>1. ASSUME NEW a \in Attempts, Submit(a) \/ Dispatch(a) \/ EndCall(a)
        PROVE  UNCHANGED leases
    BY <2>1 DEF Submit, Dispatch, EndCall, ledgerVars, ledger
  <2>2. RequestCancellation \/ ClockTick \/ UNCHANGED Shared => UNCHANGED leases
    BY DEF RequestCancellation, ClockTick, Shared, ledgerVars, ledger
  <2>3. ASSUME NEW p \in Consumers, NEW a \in Attempts, Claim(p, a)
        PROVE  UNCHANGED leases
    BY <2>3 DEF Claim, ledgerVars, ledger
  <2>4. ASSUME NEW p \in Consumers,
               \/ Ack(p) \/ RecordSettlement(p) \/ RecordCompletion(p)
               \/ RecordReceipt(p) \/ PersistRetry(p) \/ CloseSucceeded(p)
               \/ ClosePrior(p) \/ Redispatch(p) \/ Crash(p)
        PROVE  UNCHANGED leases
    BY <2>4 DEF Ack, RecordSettlement, RecordCompletion, RecordReceipt, PersistRetry,
                CloseSucceeded, ClosePrior, Redispatch, Crash, ledgerVars, ledger
  <2> QED
    BY <1>1, <2>1, <2>2, <2>3, <2>4, Kinds
<1> QED
  BY <1>2, <1>3, <1>4, <1>5, <1>6

\* A call keeps the time it sampled when it began.
LEMMA CallTimes ==
    ASSUME ProtocolInv, [Next]_vars, NEW a \in Attempts, InCall(a)'
    PROVE  Now(a)' = clock \/ (InCall(a) /\ Now(a)' = Now(a))
<1>0. calls \in [Attempts -> Call \cup {None}]
  BY DEF ProtocolInv, TypeOK
<1>1. CASE UNCHANGED calls
  BY <1>1 DEF InCall, Now
<1>2. ASSUME NEW b \in Attempts, BeginCall(b)
      PROVE  Now(a)' = clock \/ (InCall(a) /\ Now(a)' = Now(a))
  BY <1>0, <1>2 DEF BeginCall, InCall, Now
<1>3. ASSUME NEW b \in Attempts, Submit(b)
      PROVE  BeginCall(b)
  BY <1>3 DEF Submit
<1>4. ASSUME NEW b \in Attempts, Dispatch(b) \/ EndCall(b)
      PROVE  InCall(a) /\ Now(a)' = Now(a)
  BY <1>0, <1>4 DEF Dispatch, EndCall, FinishCall, InCall, Now
<1>5. ASSUME NEW i \in Ids, AssignWorker(i)
      PROVE  InCall(a) /\ Now(a)' = Now(a)
  BY <1>0, <1>5 DEF AssignWorker, InCall, Now, Call
<1>6. ASSUME NEW p \in Consumers, Redispatch(p)
      PROVE  \E b \in Attempts : BeginCall(b)
  <2>1. Attempt(p) \in Attempts /\ Attempt(p).ordinal < MaxAttempts
    BY <1>6, HandlerFacts
       DEF Redispatch, At, Attempt, ProtocolInv, HandlersOK, HandlerOK, AfterPlan
  <2> QED
    BY <1>6, <2>1, NextFacts DEF Redispatch
<1> QED
  BY <1>1, <1>2, <1>3, <1>4, <1>5, <1>6, Writers

\* search_dispatch_preparation.py: a lease starts no later than the call that
\* dispatches with it.
LEMMA LeaseTimesStep ==
    ASSUME ProtocolInv, QuietInv, [Next]_vars
    PROVE  LeaseTimes'
<1> SUFFICES ASSUME NEW i \in Ids, leases'[i] # None
             PROVE  (/\ leases[i].leased_at <= clock
                     /\ InCall(i.attempt) => leases[i].leased_at <= Now(i.attempt)
                     /\ Dispatched(i.attempt) /\ Slot(i.attempt) = i =>
                           leases[i].leased_at <= dispatches[i.attempt].at)'
  BY DEF LeaseTimes
<1>0. clock <= clock' /\ clock \in Nat /\ clock' \in Nat
  BY ObservationsStable
<1>1. PICK a \in Attempts : a = i.attempt
  BY DEF Ids
<1>2. CASE leases[i] # None
  <2>1. PICK t \in Nat : t = leases[i].leased_at /\ t = leases'[i].leased_at
    BY <1>2, QuietLedger DEF QuietInv, ProtocolInv, TypeOK, LedgerTypeOK, Lease
  <2>2. /\ t <= clock
        /\ InCall(a) => t <= Now(a)
        /\ Dispatched(a) /\ Slot(a) = i => t <= dispatches[a].at
    BY <1>1, <1>2, <2>1 DEF QuietInv, LeaseTimes
  <2>3. InCall(a)' => t <= Now(a)'
    BY <2>2, CallTimes
  <2>4. ASSUME Dispatched(a)', Slot(a)' = i
        PROVE  t <= dispatches'[a].at
    <3>1. CASE Dispatched(a)
      BY <2>2, <2>4, <3>1, FreedStable, RowsStable
    <3>2. CASE ~Dispatched(a)
      <4>1. PICK b \in Attempts : Dispatch(b)
        BY <2>4, <3>2, Writers DEF Dispatched
      <4>2. a = b
        BY <2>4, <3>2, <4>1 DEF Dispatch, Dispatched, ProtocolInv, TypeOK
      <4>3. dispatches'[a] = [id |-> calls[a].id, at |-> Now(a)] /\ InCall(a)
        BY <4>1, <4>2, DispatchWrites DEF Dispatch
      <4> QED
        BY <2>2, <4>3
    <3> QED
      BY <3>1, <3>2
  <2> QED
    BY <1>0, <1>1, <2>1, <2>2, <2>3, <2>4
<1>3. CASE leases[i] = None
  <2>1. AssignWorker(i) /\ leases'[i] = NewLease(LeaseStart(i.attempt))
    BY <1>3, QuietLedger DEF QuietInv
  <2>2. InCall(a) /\ LeaseStart(a) <= Now(a) /\ dispatches'[a] = None
    BY <1>1, <2>1 DEF AssignWorker, CanAssign
  <2>3. LeaseStart(a) \in Nat /\ Now(a) \in 0..clock
    BY <1>0, <2>2, LeaseStartType
       DEF ProtocolInv, RowsOK, CallOK, TypeOK, Call, InCall, Now
  <2>4. leases'[i].leased_at = LeaseStart(a)
    BY <1>1, <2>1 DEF NewLease
  <2>5. InCall(a)' => LeaseStart(a) <= Now(a)'
    BY <1>0, <2>2, <2>3, CallTimes
  <2> QED
    BY <1>0, <1>1, <2>2, <2>3, <2>4, <2>5 DEF Dispatched
<1> QED
  BY <1>2, <1>3

\* Without a heartbeat writer a handler never beats, and only Recover and
\* ResumeRecovery bring it to the point where it stores a receipt.
LEMMA QuietHandlers ==
    ASSUME ~Heartbeats, ProtocolInv, FirstReceipts, [Next]_vars, NEW q \in Consumers
    PROVE  /\ ~consumers'[q].beating /\ consumers'[q].beat = None
           /\ consumers'[q].pc = "receipt" =>
                 \/ consumers'[q] = consumers[q]
                 \/ Recover(q) \/ ResumeRecovery(q)
<1> DEFINE Quiet(m) == ~m.beating /\ m.beat = None
<1>0. Quiet(consumers[q]) /\ consumers \in [Consumers -> HandlerState]
  BY DEF FirstReceipts, ProtocolInv, TypeOK
<1>1. CASE consumers'[q] = consumers[q]
  BY <1>0, <1>1
<1>2. ASSUME GiveUp(q)
      PROVE  Quiet(consumers'[q]) /\ consumers'[q].pc # "receipt"
  BY <1>0, <1>2 DEF GiveUp, Idle
<1>3. ASSUME NEW x \in Steps \ {"receipt"}, Goto(q, x)
      PROVE  Quiet(consumers'[q]) /\ consumers'[q].pc # "receipt"
  <2>1. consumers'[q] = [consumers[q] EXCEPT !.pc = x]
    BY <1>0, <1>3 DEF Goto
  <2> QED
    BY <1>0, <2>1 DEF HandlerState
<1>4. ASSUME NEW r, BeginRecovery(q, r)
      PROVE  Quiet(consumers'[q]) /\ consumers'[q].pc # "receipt"
  <2>1. consumers'[q] = [consumers[q] EXCEPT !.pc = "recover", !.reason = r, !.at = clock]
    BY <1>0, <1>4 DEF BeginRecovery
  <2> QED
    BY <1>0, <2>1 DEF HandlerState
<1>5. ASSUME NEW r, RecoverWith(q, r)
      PROVE  Quiet(consumers'[q])
  <2>1. consumers'[q] = [consumers[q] EXCEPT !.pc = "receipt", !.reason = r.reason,
                                             !.obs = r.obs, !.retry = r.retry]
    BY <1>0, <1>5 DEF RecoverWith
  <2> QED
    BY <1>0, <2>1 DEF HandlerState
<1>6. ASSUME NEW a, Claim(q, a)
      PROVE  Quiet(consumers'[q]) /\ consumers'[q].pc # "receipt"
  BY <1>0, <1>6 DEF Claim, Idle
<1>7. ASSUME \/ ProcessFails(q) \/ \E o \in Outcomes : ProcessCompletes(q, o)
      PROVE  Quiet(consumers'[q]) /\ consumers'[q].pc # "receipt"
  <2>1. CASE ProcessFails(q)
    BY <1>0, <2>1 DEF ProcessFails, Idle
  <2>2. ASSUME NEW o \in Outcomes, ProcessCompletes(q, o)
        PROVE  Quiet(consumers'[q]) /\ consumers'[q].pc # "receipt"
    BY <1>0, <2>2 DEF ProcessCompletes, Idle
  <2> QED
    BY <1>7, <2>1, <2>2
<1>8. ASSUME PreflightRun(q)
      PROVE  Quiet(consumers'[q]) /\ consumers'[q].pc # "receipt"
  <2>1. consumers'[q] = [consumers[q] EXCEPT !.pc = "run", !.beating = Heartbeats]
    BY <1>0, <1>8 DEF PreflightRun
  <2>2. ~consumers'[q].beating
    BY <1>0, <2>1 DEF HandlerState
  <2> QED
    BY <1>0, <2>1, <2>2 DEF HandlerState
<1>9. ASSUME Settle(q) \/ SettleReplay(q)
      PROVE  Quiet(consumers'[q]) /\ consumers'[q].pc # "receipt"
  <2>1. PICK o : consumers'[q] = [consumers[q] EXCEPT !.pc = "settlement", !.obs = o]
    BY <1>0, <1>9 DEF Settle, SettleReplay
  <2> QED
    BY <1>0, <2>1 DEF HandlerState
<1>10. ~HeartbeatLoop(q)
  BY <1>0 DEF HeartbeatLoop, HeartbeatSample, HeartbeatApply, HeartbeatRefused
<1>11. ASSUME Handler(q) \/ Crash(q)
       PROVE  /\ Quiet(consumers'[q])
              /\ consumers'[q].pc = "receipt" => Recover(q) \/ ResumeRecovery(q)
  <2>1. CASE \/ CloseRefused(q) \/ PreflightAdvanced(q) \/ SettleRefused(q)
             \/ SettlementConflicts(q) \/ ReleaseRefused(q) \/ RecoverRefused(q)
             \/ ReceiptConflicts(q) \/ PriorRefused(q) \/ Ack(q) \/ Crash(q)
    BY <1>2, <2>1
       DEF CloseRefused, PreflightAdvanced, SettleRefused, SettlementConflicts,
           ReleaseRefused, RecoverRefused, ReceiptConflicts, PriorRefused, Ack, Crash
  <2>2. CASE \/ CloseSucceeded(q) \/ CloseReplayed(q) \/ CloseWithoutResult(q)
             \/ NothingToReplay(q) \/ RecordSettlement(q) \/ RecordCompletion(q)
             \/ Release(q) \/ ReleaseReplayed(q) \/ RecordReceipt(q) \/ PersistRetry(q)
             \/ ClosePrior(q) \/ PriorReplayed(q) \/ Redispatch(q)
    <3>1. \E x \in Steps \ {"receipt"} : Goto(q, x)
      BY <2>2
         DEF CloseSucceeded, CloseReplayed, CloseWithoutResult, NothingToReplay,
             RecordSettlement, RecordCompletion, Release, ReleaseReplayed,
             RecordReceipt, PersistRetry, ClosePrior, PriorReplayed, Redispatch,
             AfterRelease, AfterPrior, Steps
    <3> QED
      BY <1>3, <3>1
  <2>3. CASE Redispatched(q)
    BY <1>2, <1>3, <2>3 DEF Redispatched, Steps
  <2>4. CASE PreflightStale(q) \/ PreflightCancelled(q) \/ SeeCancellation(q) \/ MonitorFails(q)
    BY <1>4, <2>4 DEF PreflightStale, PreflightCancelled, SeeCancellation, MonitorFails
  <2>5. CASE Recover(q) \/ ResumeRecovery(q)
    BY <1>5, <2>5 DEF Recover, ResumeRecovery
  <2> HIDE DEF Quiet
  <2> QED
    BY <1>7, <1>8, <1>9, <1>11, <2>1, <2>2, <2>3, <2>4, <2>5 DEF Handler
<1>12. ASSUME NEW p \in Consumers, Moves(p), p # q
       PROVE  consumers'[q] = consumers[q]
  BY <1>0, <1>12 DEF Moves
<1>13. CASE UNCHANGED consumers
  BY <1>1, <1>13
<1> HIDE DEF Quiet
<1>14. ASSUME NEW p \in Consumers,
              \/ Handler(p) \/ HeartbeatLoop(p) \/ Crash(p)
              \/ \E a \in Attempts : Claim(p, a)
       PROVE  /\ Quiet(consumers'[q])
              /\ consumers'[q].pc = "receipt" =>
                    \/ consumers'[q] = consumers[q]
                    \/ Recover(q) \/ ResumeRecovery(q)
  <2>1. CASE p = q
    BY <1>6, <1>10, <1>11, <1>14, <2>1
  <2>2. CASE p # q
    <3>1. consumers'[q] = consumers[q]
      BY <1>12, <1>14, <2>2, HandlerMoves
    <3> QED
      BY <1>0, <3>1
  <2> QED
    BY <2>1, <2>2
<1> QED
  BY <1>13, <1>14, ConsumerStep DEF Quiet

\* lease_observations.py: while a slot is held nothing is in its history.
LEMMA HistoryQuiet ==
    ASSUME ProtocolInv, QuietInv, [Next]_vars
    PROVE  NoHistoryWhileHeld'
<1> SUFFICES ASSUME NEW i \in Ids
             PROVE  (/\ applied[i] # <<>> => reservations[i] # None /\ ~Held(i)
                     /\ leases[i] # None => leases[i].heartbeat_at = leases[i].leased_at)'
  BY DEF NoHistoryWhileHeld
<1>0. /\ applied[i] # <<>> => reservations[i] # None /\ ~Held(i)
      /\ leases[i] # None => leases[i].heartbeat_at = leases[i].leased_at
      /\ FirstReceipts /\ LedgerInv
  BY DEF QuietInv, NoHistoryWhileHeld, ProtocolInv
<1>1. (leases[i] # None => leases[i].heartbeat_at = leases[i].leased_at)'
  <2>1. CASE leases[i] # None
    BY <1>0, <2>1, QuietLedger
  <2>2. ASSUME leases[i] = None, leases'[i] # None
        PROVE  leases'[i].heartbeat_at = leases'[i].leased_at
    <3>1. leases'[i] = NewLease(LeaseStart(i.attempt))
      BY <1>0, <2>2, QuietLedger
    <3> QED
      BY <3>1 DEF NewLease
  <2> QED
    BY <2>1, <2>2
<1>2. /\ reservations[i] # None => reservations'[i] # None
      /\ reservations[i] # None /\ ~Held(i) => ~Held(i)'
  BY <1>0, LedgerStable, ProtocolLedgerStep
<1>3. CASE applied'[i] = applied[i]
  BY <1>0, <1>1, <1>2, <1>3
<1>4. ASSUME NEW p \in Consumers, Release(p), Id(p) = i
      PROVE  reservations'[i] # None /\ ~Held(i)'
  <2>1. PICK k \in HandlerState : k = consumers[p]
    BY DEF ProtocolInv, TypeOK
  <2>2. PICK a \in Attempts : a = k.attempt /\ Dispatched(a) /\ Slot(a) = i
    BY <1>4, <2>1, HandlerFacts DEF Release, Releasing, At, Attempt
  <2>3. FreedBy(a, k.obs)'
    BY <1>4, <2>1, <2>2, ReleaseFrees
  <2>4. Slot(a)' = i
    BY <2>2, FreedStable
  <2>5. reservations[i] # None
    BY <1>4, ReleaseWrites DEF Held
  <2> QED
    BY <1>2, <2>3, <2>4, <2>5 DEF FreedBy
<1> QED
  BY <1>0, <1>1, <1>3, <1>4, QuietLedger

\* postgres_worker_recovery.py: a receipt is computed for a slot without a
\* history, and stays the first release that slot can take.
LEMMA ReceiptsQuiet ==
    ASSUME ~Heartbeats, ProtocolInv, QuietInv, [Next]_vars
    PROVE  FirstReceipts'
<1>0. FirstReceipts
  BY DEF QuietInv
<1>1. ASSUME NEW a \in Attempts, Dispatched(a), NEW o, FirstRelease(Slot(a), o)
      PROVE  FirstRelease(Slot(a), o)'
  <2>1. PICK i \in Ids : i = Slot(a) /\ i = Slot(a)' /\ leases[i] # None
    BY <1>1, FreedStable, SlotFacts DEF ProtocolInv
  <2>2. leases'[i].leased_at = leases[i].leased_at
    BY <1>0, <2>1, QuietLedger
  <2> QED
    BY <1>1, <2>1, <2>2 DEF FirstRelease
<1>2. ASSUME NEW p \in Consumers, NEW a \in Attempts, Dispatched(a), a = Attempt(p),
             Recover(p)
      PROVE  FirstRelease(Slot(a), RecoveryReceipt(p).obs)
  <2>1. PICK i \in Ids : i = Slot(a) /\ i = Id(p)
    BY <1>2, SlotFacts DEF ProtocolInv, Id, Slot
  <2>2. Held(i) /\ Applies(i, RecoveryReceipt(p).obs)
    BY <1>2, <2>1 DEF Recover, CanRecover
  <2>3. applied[i] = <<>>
    BY <2>2 DEF QuietInv, NoHistoryWhileHeld
  <2> QED
    BY <2>1, <2>2, <2>3 DEF Applies, FirstRelease, LastSequence
<1>3. ASSUME NEW q \in Consumers, consumers'[q].pc = "receipt"
      PROVE  FirstRelease(Id(q), consumers[q].obs)'
  <2>1. consumers \in [Consumers -> HandlerState] /\ HandlerOK(consumers[q])'
    BY HandlersStep DEF HandlersOK, ProtocolInv, TypeOK
  <2>2. CASE consumers'[q] = consumers[q]
    <3>1. PICK k \in HandlerState, a \in Attempts :
            k = consumers[q] /\ a = k.attempt /\ Dispatched(a) /\ k.pc = "receipt"
      BY <1>3, <2>1, <2>2, HandlerFacts DEF At, Attempt
    <3>2. FirstRelease(Slot(a), k.obs)
      BY <1>0, <3>1 DEF FirstReceipts, At, Id, Slot, Attempt
    <3>3. FirstRelease(Slot(a), k.obs)'
      BY <1>1, <3>1, <3>2
    <3> QED
      BY <2>2, <3>1, <3>3 DEF Id, Slot, Attempt
  <2>3. ASSUME Recover(q) \/ ResumeRecovery(q)
        PROVE  FirstRelease(Id(q), consumers[q].obs)'
    <3>1. PICK k \in HandlerState, a \in Attempts :
            k = consumers[q] /\ a = k.attempt /\ a = Attempt(q) /\ Dispatched(a)
      BY <2>1, <2>3, HandlerFacts DEF Recover, ResumeRecovery, Recovering, At, Attempt
    <3>2. PICK r : /\ RecoverWith(q, r)
                   /\ FirstRelease(Slot(a), r.obs)
      <4>1. CASE Recover(q)
        BY <1>2, <3>1, <4>1 DEF Recover
      <4>2. CASE ResumeRecovery(q)
        BY <1>0, <3>1, <4>2 DEF ResumeRecovery, FirstReceipts
      <4> QED
        BY <2>3, <4>1, <4>2
    <3>3. consumers'[q] = [k EXCEPT !.pc = "receipt", !.reason = r.reason,
                                    !.obs = r.obs, !.retry = r.retry]
      BY <2>1, <3>1, <3>2 DEF RecoverWith
    <3>4. consumers'[q].obs = r.obs /\ consumers'[q].attempt = a
      BY <3>1, <3>3 DEF HandlerState
    <3>5. PICK o : o = r.obs
      OBVIOUS
    <3>6. FirstRelease(Slot(a), o)'
      BY <1>1, <3>1, <3>2, <3>5
    <3> QED
      BY <3>4, <3>5, <3>6 DEF Id, Slot, Attempt
  <2> QED
    BY <1>0, <1>3, <2>2, <2>3, QuietHandlers
<1>4. ASSUME NEW a \in Attempts, recoveries'[a] # None
      PROVE  FirstRelease(Slot(a), recoveries[a].obs)'
  <2>1. CASE recoveries[a] # None
    <3>1. Dispatched(a) /\ recoveries'[a] = recoveries[a]
      BY <2>1, RowsStable DEF ProtocolInv, RowsOK, ReceiptOK
    <3>2. PICK o : o = recoveries[a].obs /\ FirstRelease(Slot(a), o)
      BY <1>0, <2>1 DEF FirstReceipts
    <3>3. FirstRelease(Slot(a), o)'
      BY <1>1, <3>1, <3>2
    <3> QED
      BY <3>1, <3>2, <3>3 DEF FirstRelease
  <2>2. CASE recoveries[a] = None
    <3>1. PICK p \in Consumers : RecordReceipt(p)
      BY <1>4, <2>2, Writers
    <3>2. recoveries'[a] = PlannedReceipt(p) /\ a = Attempt(p) /\ Dispatched(a)
      BY <1>4, <2>2, <3>1, HandlerFacts DEF RecordReceipt, At, ProtocolInv, TypeOK
    <3>3. PICK o : o = consumers[p].obs /\ FirstRelease(Slot(a), o)
      BY <1>0, <3>1, <3>2 DEF FirstReceipts, RecordReceipt, Id, Slot
    <3>4. FirstRelease(Slot(a), o)'
      BY <1>1, <3>2, <3>3
    <3>5. recoveries'[a].obs = o
      BY <3>2, <3>3 DEF PlannedReceipt
    <3> QED
      BY <3>4, <3>5 DEF FirstRelease
  <2> QED
    BY <2>1, <2>2
<1>5. \A p \in Consumers : ~consumers'[p].beating /\ consumers'[p].beat = None
  BY <1>0, QuietHandlers
<1> QED
  BY <1>3, <1>4, <1>5 DEF FirstReceipts, At

\* The invariant of a deployment without a heartbeat writer.
THEOREM QuietInvariant == ~Heartbeats => (Spec => []QuietInv)
<1> SUFFICES ASSUME ~Heartbeats PROVE Spec => []QuietInv
  OBVIOUS
<1>1. Init => QuietInv
  <2> SUFFICES ASSUME Init PROVE QuietInv
    OBVIOUS
  <2>1. \A i \in Ids : leases[i] = None /\ applied[i] = <<>>
    BY DEF Init, LedgerInit
  <2>2. \A a \in Attempts : recoveries[a] = None
    BY DEF Init
  <2>3. \A p \in Consumers : consumers[p] = Idle
    BY DEF Init
  <2>4. \A p \in Consumers :
          ~consumers[p].beating /\ consumers[p].beat = None /\ ~At(p, "receipt")
    BY <2>3 DEF Idle, At
  <2> QED
    BY <2>1, <2>2, <2>4 DEF QuietInv, LeaseTimes, NoHistoryWhileHeld, FirstReceipts
<1>2. ProtocolInv /\ QuietInv /\ [Next]_vars => QuietInv'
  BY LeaseTimesStep, HistoryQuiet, ReceiptsQuiet DEF QuietInv
<1> QED
  BY <1>1, <1>2, ProtocolInvariant, PTL DEF Spec

\* postgres_worker_recovery.py:recover: without a heartbeat writer, a process
\* that resumes from a stored receipt can always apply its release.
THEOREM ReceiptResumes == ~Heartbeats => (Spec => []ReceiptResumable)
<1> SUFFICES ASSUME ~Heartbeats PROVE Spec => []ReceiptResumable
  OBVIOUS
<1>1. ProtocolInv /\ QuietInv => ReceiptResumable
  <2> SUFFICES ASSUME ProtocolInv, QuietInv, NEW a \in Attempts,
                      recoveries[a] # None, Held(Slot(a))
               PROVE  Applies(Slot(a), recoveries[a].obs)
    BY DEF ReceiptResumable
  <2>1. Dispatched(a) /\ recoveries[a].obs \in Releases
    BY DEF ProtocolInv, RowsOK, ReceiptOK
  <2>2. PICK i \in Ids : i = Slot(a) /\ leases[i] # None
    BY <2>1, SlotFacts DEF ProtocolInv
  <2>3. /\ applied[i] = <<>>
        /\ leases[i].heartbeat_at = leases[i].leased_at
        /\ FirstRelease(i, recoveries[a].obs)
    BY <2>2 DEF QuietInv, NoHistoryWhileHeld, FirstReceipts
  <2>4. leases[i].released_at = None
    BY <2>2 DEF Held, ProtocolInv, LedgerInv, ReleasedTogether
  <2>5. recoveries[a].obs.kind = "release"
    BY <2>1 DEF Releases, ReleaseObservation
  <2>6. ~Recorded(i, recoveries[a].obs) /\ LastSequence(i) + 1 = 1
    BY <2>3 DEF Recorded, LastSequence
  <2> QED
    BY <2>2, <2>3, <2>4, <2>5, <2>6 DEF Applies, FollowsHistory, FirstRelease
<1> QED
  BY <1>1, ProtocolInvariant, QuietInvariant, PTL

\* worker_settlement.py: without a heartbeat writer, a run that ends while its
\* lease is active and its slot held can be settled as of its dispatch.
THEOREM ActiveRunSettles == ~Heartbeats => (Spec => []ActiveRunCanSettle)
<1> SUFFICES ASSUME ~Heartbeats PROVE Spec => []ActiveRunCanSettle
  OBVIOUS
<1>1. ProtocolInv /\ QuietInv => ActiveRunCanSettle
  <2> SUFFICES ASSUME ProtocolInv, QuietInv, NEW p \in Consumers, At(p, "settle"),
                      Held(Id(p)), ActiveAt(Id(p), clock)
               PROVE  CanSettle(p)
    BY DEF ActiveRunCanSettle
  <2>1. /\ Attempt(p) \in Attempts /\ Dispatched(Attempt(p))
        /\ DispatchedAt(p) \in 0..clock
        /\ Id(p) \in Ids /\ Id(p) = Slot(Attempt(p)) /\ Id(p).attempt = Attempt(p)
    BY HandlerFacts DEF At
  <2>2. PICK i \in Ids : i = Id(p)
    BY <2>1
  <2>3. PICK t \in Nat : t = DispatchedAt(p) /\ t <= clock
    BY <2>1
  <2>4. leases[i] # None /\ leases[i].released_at = None /\ leases[i] \in Lease
    BY <2>2 DEF ActiveAt, Held, ProtocolInv, LedgerInv, LedgerTypeOK, ReleasedTogether
  <2>5. clock < leases[i].expires_at /\ clock \in Nat /\ leases[i].expires_at \in Nat
    BY <2>2, <2>4 DEF ActiveAt, StatusAt, ProtocolInv, LedgerInv, LedgerTypeOK, Lease
  <2>6. StatusAt(leases[i], t) = "active"
    BY <2>3, <2>4, <2>5 DEF StatusAt
  <2>7. applied[i] = <<>> /\ leases[i].heartbeat_at = leases[i].leased_at
    BY <2>2, <2>4 DEF QuietInv, NoHistoryWhileHeld
  <2>8. leases[i].leased_at <= t
    BY <2>1, <2>2, <2>3, <2>4 DEF QuietInv, LeaseTimes, DispatchedAt
  <2>9. Applies(i, ReleaseObservation(LastSequence(i) + 1, t, "settlement"))
    BY <2>4, <2>7, <2>8
       DEF Applies, FollowsHistory, ReleaseObservation, Recorded, LastSequence
  <2> QED
    BY <2>2, <2>3, <2>6, <2>9 DEF CanSettle, SettlementObservation
<1> QED
  BY <1>1, ProtocolInvariant, QuietInvariant, PTL
============================================================================
