--------------------------- MODULE LeaseCapacity ---------------------------
(***************************************************************************)
(* The durable worker ledger of Strategy Lab v2: worker slots             *)
(* (workers.py), attempt leases (lifecycle.py), the ordered observations   *)
(* of a lease (lease_observations.py) and the PostgreSQL adapter that      *)
(* stores all three (postgres_worker_state.py).                            *)
(*                                                                         *)
(* Every adapter method runs in one transaction and locks the rows it      *)
(* reads FOR UPDATE, so a method that changes rows is one action here; a   *)
(* call that is refused, replayed or raises changes no row and is a        *)
(* stuttering step.  The callers, who read a row in one transaction and    *)
(* act on it in a later one, are in the modules that EXTEND this one; here *)
(* they are any caller with any arguments, so requests may be late,        *)
(* repeated or out of order.                                               *)
(*                                                                         *)
(* Reservation and lease ids are digests of attempt, worker and            *)
(* idempotency key (search_dispatch_preparation.py:_select_worker_assign-  *)
(* ment, forward_worker_lifecycle.py:_reservation_id and _lease_id), so    *)
(* one Id names the pair.  Times are ticks of one shared clock.            *)
(***************************************************************************)
EXTENDS Integers, Sequences

CONSTANTS
    Attempts,         \* attempt ids (run attempts or forward instances)
    Workers,          \* worker profiles, each with max_concurrent_nodes = 1
    Keys,             \* idempotency keys under which an attempt is bound
    Origins,          \* who built an observation: part of its observation_id
    None,             \* SQL NULL, and a row that does not exist
    LeaseDuration,    \* ticks a new lease lasts
    Extension,        \* ticks a heartbeat adds to its observed_at
    MaxTime,          \* bound on the clock
    MaxObservations   \* bound on the observations of one lease

Ids == [attempt : Attempts, worker : Workers, key : Keys]

Reservation == [acquired_at : Nat, released_at : Nat \cup {None}]

Lease == [leased_at : Nat, heartbeat_at : Nat, expires_at : Nat,
          released_at : Nat \cup {None}]

Observation == [kind : {"heartbeat", "release"}, sequence : Nat,
                observed_at : Nat, expires_at : Nat \cup {None},
                origin : Origins]

ASSUME DurationAssumption ==
    /\ LeaseDuration \in Nat \ {0}
    /\ Extension \in Nat \ {0}
    /\ MaxTime \in Nat
    /\ MaxObservations \in Nat \ {0}

ASSUME NoneAssumption ==
    None \notin Nat /\ None \notin Reservation /\ None \notin Lease

VARIABLES
    clock,         \* the time every process reads
    reservations,  \* worker_reservations table: Id -> row or None
    leases,        \* execution_leases table: Id -> row or None
    applied        \* lease_observations table: Id -> rows in sequence order

ledger == <<reservations, leases, applied>>
ledgerVars == <<clock, ledger>>

LedgerTypeOK ==
    /\ clock \in Nat
    /\ reservations \in [Ids -> Reservation \cup {None}]
    /\ leases \in [Ids -> Lease \cup {None}]
    /\ applied \in [Ids -> Seq(Observation)]

LedgerInit ==
    /\ clock = 0
    /\ reservations = [i \in Ids |-> None]
    /\ leases = [i \in Ids |-> None]
    /\ applied = [i \in Ids |-> <<>>]

----------------------------------------------------------------------------
(* Readings of a row.                                                      *)

Held(i) == reservations[i] # None /\ reservations[i].released_at = None

Live(i) == leases[i] # None /\ leases[i].released_at = None

SamePool(i, j) == i.worker = j.worker

SameBinding(i, j) == i.worker = j.worker /\ i.attempt = j.attempt

StatusAt(lease, t) ==
    IF lease.released_at # None /\ t >= lease.released_at THEN "released"
    ELSE IF t < lease.expires_at THEN "active" ELSE "expired"

ActiveAt(i, t) == leases[i] # None /\ StatusAt(leases[i], t) = "active"

NewLease(t) ==
    [leased_at |-> t, heartbeat_at |-> t, expires_at |-> t + LeaseDuration,
     released_at |-> None]

HeartbeatObservation(seq, t, origin) ==
    [kind |-> "heartbeat", sequence |-> seq, observed_at |-> t,
     expires_at |-> t + Extension, origin |-> origin]

ReleaseObservation(seq, t, origin) ==
    [kind |-> "release", sequence |-> seq, observed_at |-> t,
     expires_at |-> None, origin |-> origin]

LastSequence(i) == Len(applied[i])

(***************************************************************************)
(* The conditions under which apply_lease_observation answers              *)
(* REPLAY_EXISTING and APPLY.  All its other answers (gap, stale, conflict *)
(* and reject) and all the exceptions of the lease and observation-state   *)
(* constructors it calls refuse the request.                               *)
(***************************************************************************)
Recorded(i, o) == \E n \in DOMAIN applied[i] : applied[i][n] = o

\* Mutant: trust the sequence number alone, not the times it orders.
FollowsHistoryUntimed(i, o) ==
    applied[i] # <<>> => applied[i][Len(applied[i])].kind = "heartbeat"

FollowsHistory(i, o) ==
    applied[i] # <<>> =>
        /\ applied[i][Len(applied[i])].kind = "heartbeat"
        /\ o.observed_at >= applied[i][Len(applied[i])].observed_at

Applies(i, o) ==
    /\ leases[i] # None
    /\ ~Recorded(i, o)
    /\ o.sequence = LastSequence(i) + 1
    /\ o.observed_at >= leases[i].leased_at
    /\ \/ /\ o.kind = "heartbeat"
          /\ StatusAt(leases[i], o.observed_at) = "active"
       \/ /\ o.kind = "release"
          /\ leases[i].released_at = None
          /\ o.observed_at >= leases[i].heartbeat_at
    /\ FollowsHistory(i, o)

\* Mutant: a release also writes its (absent) expiry into the lease row.
ObservedOverwritesExpiry(lease, o) ==
    IF o.kind = "heartbeat"
    THEN [lease EXCEPT !.heartbeat_at = o.observed_at,
                       !.expires_at = o.expires_at]
    ELSE [lease EXCEPT !.released_at = o.observed_at,
                       !.expires_at = o.expires_at]

Observed(lease, o) ==
    IF o.kind = "heartbeat"
    THEN [lease EXCEPT !.heartbeat_at = o.observed_at,
                       !.expires_at = o.expires_at]
    ELSE [lease EXCEPT !.released_at = o.observed_at]

----------------------------------------------------------------------------
(* The adapter's transactions.                                             *)

\* Mutant: look for the attempt's own reservations only, not the pool's.
SlotFreeForAttempt(i) ==
    /\ reservations[i] = None
    /\ \A j \in Ids : SameBinding(i, j) => ~Held(j)

\* PostgresWorkerStateAdapter.reserve and the reservation of a dispatch:
\* reserve_worker_slot answers ACCEPT.
SlotFree(i) ==
    /\ reservations[i] = None
    /\ \A j \in Ids : SamePool(i, j) => ~Held(j)

Reserve(i, t) ==
    /\ SlotFree(i)
    /\ reservations' =
         [reservations EXCEPT ![i] = [acquired_at |-> t, released_at |-> None]]

\* Mutant: upsert instead of insert-or-replay.
PersistLeaseUpsert(i, t) ==
    /\ \A j \in Ids : SameBinding(i, j) => ~Live(j)
    /\ leases' = [leases EXCEPT ![i] = NewLease(t)]

\* persist_lease: insert a new row.  The partial unique index on
\* (worker_id, attempt_id) WHERE released_at IS NULL refuses a second one.
PersistLease(i, t) ==
    /\ leases[i] = None
    /\ \A j \in Ids : SameBinding(i, j) => ~Live(j)
    /\ leases' = [leases EXCEPT ![i] = NewLease(t)]

\* observe: heartbeats only, its callers never pass a release.
Observe(i, o) ==
    /\ Applies(i, o)
    /\ leases' = [leases EXCEPT ![i] = Observed(@, o)]
    /\ applied' = [applied EXCEPT ![i] = Append(@, o)]

\* Mutant: stamp the slot with the time of the write.
ReleaseCapacityAtWrite(i, o) ==
    /\ Held(i)
    /\ Applies(i, o)
    /\ leases' = [leases EXCEPT ![i] = Observed(@, o)]
    /\ applied' = [applied EXCEPT ![i] = Append(@, o)]
    /\ reservations' = [reservations EXCEPT ![i].released_at = clock]

\* release_capacity answers RELEASED.  A release already in the history of a
\* held reservation frees the reservation without touching the lease.
ReleaseCapacity(i, o) ==
    /\ Held(i)
    /\ leases[i] # None
    /\ Applies(i, o) \/ Recorded(i, o)
    /\ o.observed_at >= reservations[i].acquired_at
    /\ leases' = IF Recorded(i, o) THEN leases
                 ELSE [leases EXCEPT ![i] = Observed(@, o)]
    /\ applied' = IF Recorded(i, o) THEN applied
                  ELSE [applied EXCEPT ![i] = Append(@, o)]
    /\ reservations' =
         [reservations EXCEPT ![i].released_at = o.observed_at]

\* release_capacity answers REPLAY_EXISTING: nothing changes.
ReleaseReplays(i, o) ==
    /\ reservations[i] # None
    /\ ~Held(i)
    /\ leases[i] # None
    /\ Recorded(i, o)

Tick ==
    /\ clock < MaxTime
    /\ clock' = clock + 1

----------------------------------------------------------------------------
(* The ledger with arbitrary callers.  A caller's timestamp was sampled at *)
(* or before the transaction, and its sequence number may be stale.        *)

AnyReserve ==
    \E i \in Ids, t \in 0..clock :
        Reserve(i, t) /\ UNCHANGED <<clock, leases, applied>>

AnyPersistLease ==
    \E i \in Ids, t \in 0..clock :
        PersistLease(i, t) /\ UNCHANGED <<clock, reservations, applied>>

AnyHeartbeat ==
    \E i \in Ids, t \in 0..clock, n \in 1..MaxObservations, g \in Origins :
        /\ Observe(i, HeartbeatObservation(n, t, g))
        /\ UNCHANGED <<clock, reservations>>

AnyRelease ==
    \E i \in Ids, t \in 0..clock, n \in 1..MaxObservations, g \in Origins :
        /\ ReleaseCapacity(i, ReleaseObservation(n, t, g))
        /\ UNCHANGED clock

LedgerTick == Tick /\ UNCHANGED ledger

LedgerNext ==
    AnyReserve \/ AnyPersistLease \/ AnyHeartbeat \/ AnyRelease \/ LedgerTick

LedgerSpec == LedgerInit /\ [][LedgerNext]_ledgerVars

----------------------------------------------------------------------------
(* What the ledger promises.                                               *)

\* workers.py: a pool never exceeds its serial capacity, whatever the
\* interleaving of reservations and releases for its attempts.
SerialCapacity ==
    \A i, j \in Ids : Held(i) /\ Held(j) /\ SamePool(i, j) => i = j

\* postgres_worker_state.py:release_capacity, "no partial lease/capacity
\* release can become visible": a reservation is released exactly when its
\* lease is, at the same time, and neither without the other.
ReleasedTogether ==
    \A i \in Ids :
        /\ reservations[i] # None /\ leases[i] # None =>
               reservations[i].released_at = leases[i].released_at
        /\ reservations[i] # None /\ ~Held(i) => leases[i] # None
        /\ leases[i] # None /\ ~Live(i) => reservations[i] # None

LeaseRowDecodes(i) ==
    leases[i] # None =>
        /\ leases[i].leased_at <= leases[i].heartbeat_at
        /\ leases[i].heartbeat_at < leases[i].expires_at
        /\ ~Live(i) => leases[i].released_at >= leases[i].heartbeat_at

HistoryOrdered(i) ==
    \A n \in DOMAIN applied[i] :
        /\ applied[i][n].sequence = n
        /\ applied[i][n].kind = "release" => n = Len(applied[i])
        /\ n > 1 => applied[i][n-1].observed_at <= applied[i][n].observed_at

LatestHeartbeat(i, n) ==
    /\ applied[i][n].kind = "heartbeat"
    /\ \A m \in DOMAIN applied[i] : m > n => applied[i][m].kind # "heartbeat"

HistoryMatchesLease(i) ==
    /\ \A n \in DOMAIN applied[i] :
          /\ leases[i] # None
          /\ LatestHeartbeat(i, n) =>
                /\ leases[i].heartbeat_at = applied[i][n].observed_at
                /\ leases[i].expires_at = applied[i][n].expires_at
          /\ applied[i][n].kind = "release" =>
                leases[i].released_at = applied[i][n].observed_at
    /\ leases[i] # None /\ ~Live(i) =>
          /\ applied[i] # <<>>
          /\ applied[i][Len(applied[i])].kind = "release"

\* lease_observations.py and lifecycle.py: what LeaseObservationState and
\* ExecutionAttemptLease demand of the stored rows in __post_init__, on every
\* load.  Rows that fail it can never be read again, so no sequence of
\* accepted writes may produce them.
HistoryLoadable ==
    \A i \in Ids :
        LeaseRowDecodes(i) /\ HistoryOrdered(i) /\ HistoryMatchesLease(i)

\* The inductive invariant: each part needs the others.  Serial capacity is
\* kept because a reservation is released only once; that needs the history,
\* in which a release already recorded means a slot already free.
LedgerInv ==
    LedgerTypeOK /\ SerialCapacity /\ ReleasedTogether /\ HistoryLoadable

\* A lease that was released, and its slot, keep that state: no late
\* heartbeat, second release or new reservation under the same id revives it.
ReleaseIsFinal ==
    [][\A i \in Ids :
          leases[i] # None /\ ~Live(i) =>
              /\ leases'[i] = leases[i]
              /\ applied'[i] = applied[i]
              /\ reservations'[i] = reservations[i]]_ledgerVars
============================================================================
