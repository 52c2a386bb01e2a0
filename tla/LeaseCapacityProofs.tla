------------------------ MODULE LeaseCapacityProofs ------------------------
(***************************************************************************)
(* The ledger's invariants, proved for any number of attempts, workers and *)
(* keys, any durations and any bounds.                                     *)
(***************************************************************************)
EXTENDS LeaseCapacity, TLAPS

\* The two kinds of observation the callers of lease_observations.py build
\* are rows of the lease_observations table.
LEMMA ObservationTypes ==
    ASSUME NEW n \in Nat, NEW t \in Nat, NEW g \in Origins
    PROVE  /\ HeartbeatObservation(n, t, g) \in Observation
           /\ ReleaseObservation(n, t, g) \in Observation
  BY DurationAssumption DEF HeartbeatObservation, ReleaseObservation, Observation

\* acquire_attempt_lease builds a row of the execution_leases table.
LEMMA NewLeaseType ==
    ASSUME NEW t \in Nat
    PROVE  NewLease(t) \in Lease
  BY DurationAssumption DEF NewLease, Lease

\* Applying an observation of the two kinds the callers build keeps a row a
\* lease: a heartbeat always carries an expiry, a release never does.
LEMMA ObservedType ==
    ASSUME NEW lease \in Lease, NEW n \in Nat, NEW t \in Nat, NEW g \in Origins
    PROVE  /\ Observed(lease, HeartbeatObservation(n, t, g)) \in Lease
           /\ Observed(lease, ReleaseObservation(n, t, g)) \in Lease
<1>1. Observed(lease, HeartbeatObservation(n, t, g))
        = [lease EXCEPT !.heartbeat_at = t, !.expires_at = t + Extension]
  BY DEF Observed, HeartbeatObservation
<1>2. Observed(lease, ReleaseObservation(n, t, g))
        = [lease EXCEPT !.released_at = t]
  BY DEF Observed, ReleaseObservation
<1>3. t + Extension \in Nat
  BY DurationAssumption
<1> QED
  BY <1>1, <1>2, <1>3 DEF Lease

\* No transaction of the adapter writes a row of another shape.
LEMMA TypeStep == LedgerTypeOK /\ [LedgerNext]_ledgerVars => LedgerTypeOK'
<1> SUFFICES ASSUME LedgerTypeOK, [LedgerNext]_ledgerVars
             PROVE  LedgerTypeOK'
  OBVIOUS
<1>1. CASE AnyReserve
  BY <1>1 DEF LedgerTypeOK, AnyReserve, Reserve, Reservation
<1>2. CASE AnyPersistLease
  BY <1>2, NewLeaseType DEF LedgerTypeOK, AnyPersistLease, PersistLease
<1>3. CASE AnyHeartbeat
  <2> PICK i \in Ids, t \in 0..clock, n \in 1..MaxObservations, g \in Origins :
          /\ Observe(i, HeartbeatObservation(n, t, g))
          /\ UNCHANGED <<clock, reservations>>
    BY <1>3 DEF AnyHeartbeat
  <2> DEFINE o == HeartbeatObservation(n, t, g)
  <2>1. t \in Nat /\ n \in Nat
    BY DurationAssumption DEF LedgerTypeOK
  <2>2. o \in Observation
    BY <2>1, ObservationTypes
  <2>3. leases[i] \in Lease
    BY DEF Observe, Applies, LedgerTypeOK
  <2>4. Observed(leases[i], o) \in Lease
    BY <2>1, <2>3, ObservedType
  <2> HIDE DEF o
  <2>5. Append(applied[i], o) \in Seq(Observation)
    BY <2>2 DEF LedgerTypeOK
  <2> QED
    BY <2>4, <2>5 DEF Observe, LedgerTypeOK, o
<1>4. CASE AnyRelease
  <2> PICK i \in Ids, t \in 0..clock, n \in 1..MaxObservations, g \in Origins :
          /\ ReleaseCapacity(i, ReleaseObservation(n, t, g))
          /\ UNCHANGED clock
    BY <1>4 DEF AnyRelease
  <2> DEFINE o == ReleaseObservation(n, t, g)
  <2>1. t \in Nat /\ n \in Nat
    BY DurationAssumption DEF LedgerTypeOK
  <2>2. o \in Observation
    BY <2>1, ObservationTypes
  <2>3. leases[i] \in Lease /\ reservations[i] \in Reservation
    BY DEF ReleaseCapacity, Held, LedgerTypeOK
  <2>4. Observed(leases[i], o) \in Lease
    BY <2>1, <2>3, ObservedType
  <2>5. o.observed_at \in Nat
    BY <2>1 DEF ReleaseObservation
  <2> HIDE DEF o
  <2>6. Append(applied[i], o) \in Seq(Observation)
    BY <2>2 DEF LedgerTypeOK
  <2>7. [reservations[i] EXCEPT !.released_at = o.observed_at] \in Reservation
    BY <2>3, <2>5 DEF Reservation
  <2>8. reservations' \in [Ids -> Reservation \cup {None}]
    BY <2>7 DEF ReleaseCapacity, LedgerTypeOK, o
  <2>9. leases' \in [Ids -> Lease \cup {None}]
    BY <2>4 DEF ReleaseCapacity, LedgerTypeOK, o
  <2>10. applied' \in [Ids -> Seq(Observation)]
    BY <2>6 DEF ReleaseCapacity, LedgerTypeOK, o
  <2> QED
    BY <2>8, <2>9, <2>10 DEF LedgerTypeOK
<1>5. CASE LedgerTick
  BY <1>5 DEF LedgerTypeOK, LedgerTick, Tick, ledger
<1>6. CASE UNCHANGED ledgerVars
  BY <1>6 DEF LedgerTypeOK, ledgerVars, ledger
<1> QED
  BY <1>1, <1>2, <1>3, <1>4, <1>5, <1>6 DEF LedgerNext

\* What a release does to the rows of its id: it was held and open, and it
\* ends released at the observed time with one more observation.  A release
\* that is already in the history has already freed the slot, so
\* release_capacity never meets it on a held reservation.
LEMMA ReleaseEffect ==
    ASSUME LedgerInv,
           NEW i \in Ids, NEW n \in Nat, NEW t \in Nat, NEW g \in Origins,
           ReleaseCapacity(i, ReleaseObservation(n, t, g))
    PROVE  LET o == ReleaseObservation(n, t, g)
           IN  /\ leases[i] \in Lease
               /\ reservations[i] \in Reservation
               /\ Live(i)
               /\ Applies(i, o)
               /\ leases' = [leases EXCEPT ![i] = [leases[i] EXCEPT !.released_at = t]]
               /\ applied' = [applied EXCEPT ![i] = Append(applied[i], o)]
               /\ reservations' = [reservations EXCEPT ![i] =
                                     [reservations[i] EXCEPT !.released_at = t]]
<1> DEFINE o == ReleaseObservation(n, t, g)
<1>1. /\ o.kind = "release" /\ o.observed_at = t
      /\ Observed(leases[i], o) = [leases[i] EXCEPT !.released_at = t]
  BY DEF ReleaseObservation, Observed
<1>2. leases[i] \in Lease /\ reservations[i] \in Reservation
  BY DEF ReleaseCapacity, Held, LedgerInv, LedgerTypeOK
<1>3. Held(i) /\ Live(i)
  BY <1>2, NoneAssumption DEF ReleaseCapacity, Held, Live, LedgerInv, ReleasedTogether
<1>4. ~Recorded(i, o)
  <2> SUFFICES ASSUME Recorded(i, o) PROVE FALSE
    OBVIOUS
  <2>1. PICK k \in DOMAIN applied[i] : applied[i][k] = o
    BY DEF Recorded
  <2>2. leases[i].released_at = t
    BY <2>1, <1>1 DEF LedgerInv, HistoryLoadable, HistoryMatchesLease
  <2> QED
    BY <2>2, <1>3, NoneAssumption DEF Live
<1>5. Applies(i, o)
  BY <1>4 DEF ReleaseCapacity
<1> QED
  BY <1>1, <1>2, <1>3, <1>4, <1>5 DEF ReleaseCapacity

\* What a heartbeat does: the lease was open, its history holds heartbeats
\* only, and only its heartbeat and expiry move.
LEMMA HeartbeatEffect ==
    ASSUME LedgerInv,
           NEW i \in Ids, NEW n \in Nat, NEW t \in Nat, NEW g \in Origins,
           Observe(i, HeartbeatObservation(n, t, g))
    PROVE  LET o == HeartbeatObservation(n, t, g)
           IN  /\ leases[i] \in Lease
               /\ Live(i)
               /\ Applies(i, o)
               /\ leases'[i] \in Lease
               /\ leases'[i].leased_at = leases[i].leased_at
               /\ leases'[i].heartbeat_at = t
               /\ leases'[i].expires_at = t + Extension
               /\ leases'[i].released_at = leases[i].released_at
               /\ applied'[i] = Append(applied[i], o)
<1> DEFINE o == HeartbeatObservation(n, t, g)
<1>1. leases[i] \in Lease /\ Applies(i, o)
  BY DEF Observe, Applies, LedgerInv, LedgerTypeOK
<1>2. Observed(leases[i], o) = [leases[i] EXCEPT !.heartbeat_at = t,
                                                 !.expires_at = t + Extension]
  BY DEF HeartbeatObservation, Observed
<1>3. leases'[i] = Observed(leases[i], o)
  BY <1>1 DEF Observe, LedgerInv, LedgerTypeOK
<1>4. leases'[i] \in Lease
  BY <1>1, <1>3, ObservedType
<1>5. Live(i)
  <2> SUFFICES ASSUME ~Live(i) PROVE FALSE
    OBVIOUS
  <2>1. leases[i] # None
    BY <1>1, NoneAssumption
  <2>2. applied[i] # <<>> /\ applied[i][Len(applied[i])].kind = "release"
    BY <2>1 DEF LedgerInv, HistoryLoadable, HistoryMatchesLease
  <2> QED
    BY <1>1, <2>2 DEF Applies, FollowsHistory
<1>6. /\ leases'[i].leased_at = leases[i].leased_at
      /\ leases'[i].heartbeat_at = t
      /\ leases'[i].expires_at = t + Extension
      /\ leases'[i].released_at = leases[i].released_at
  BY <1>1, <1>2, <1>3 DEF Lease
<1>7. applied'[i] = Append(applied[i], o)
  BY DEF Observe, LedgerInv, LedgerTypeOK
<1> QED
  BY <1>1, <1>4, <1>5, <1>6, <1>7

\* No transaction gives a pool a second held slot: reserve_worker_slot looks
\* at the whole pool, and a release only ever takes a held slot away.
LEMMA SerialStep == LedgerInv /\ [LedgerNext]_ledgerVars => SerialCapacity'
<1> SUFFICES ASSUME LedgerInv, [LedgerNext]_ledgerVars,
                    NEW j \in Ids, NEW k \in Ids,
                    Held(j)', Held(k)', SamePool(j, k)
             PROVE  j = k
  BY DEF SerialCapacity, SamePool
<1>1. CASE AnyReserve
  BY <1>1 DEF AnyReserve, Reserve, SlotFree, Held, SamePool, LedgerInv,
              SerialCapacity, LedgerTypeOK
<1>2. CASE AnyPersistLease \/ AnyHeartbeat \/ LedgerTick \/ UNCHANGED ledgerVars
  <2>1. UNCHANGED reservations
    BY <1>2 DEF AnyPersistLease, AnyHeartbeat, LedgerTick, ledgerVars, ledger
  <2> QED
    BY <2>1 DEF Held, LedgerInv, SerialCapacity
<1>3. CASE AnyRelease
  <2> PICK i \in Ids, t \in 0..clock, n \in 1..MaxObservations, g \in Origins :
          ReleaseCapacity(i, ReleaseObservation(n, t, g))
    BY <1>3 DEF AnyRelease
  <2>1. t \in Nat /\ n \in Nat
    BY DurationAssumption DEF LedgerInv, LedgerTypeOK
  <2>2. /\ reservations' = [reservations EXCEPT ![i] =
                              [reservations[i] EXCEPT !.released_at = t]]
        /\ reservations[i] \in Reservation
    BY <2>1, ReleaseEffect
  <2>3. Held(j) /\ Held(k)
    BY <2>1, <2>2, NoneAssumption DEF Held, LedgerInv, LedgerTypeOK, Reservation
  <2> QED
    BY <2>3 DEF LedgerInv, SerialCapacity
<1> QED
  BY <1>1, <1>2, <1>3 DEF LedgerNext

\* No transaction of the adapter releases a lease without its reservation or
\* a reservation without its lease; release_capacity stamps both with the
\* observed time.
LEMMA TogetherStep == LedgerInv /\ [LedgerNext]_ledgerVars => ReleasedTogether'
<1> DEFINE Together(j) ==
        /\ reservations[j] # None /\ leases[j] # None =>
               reservations[j].released_at = leases[j].released_at
        /\ reservations[j] # None /\ ~Held(j) => leases[j] # None
        /\ leases[j] # None /\ ~Live(j) => reservations[j] # None
<1> SUFFICES ASSUME LedgerInv, [LedgerNext]_ledgerVars, NEW j \in Ids
             PROVE  Together(j)'
  BY DEF ReleasedTogether
<1>0. Together(j)
  BY DEF LedgerInv, ReleasedTogether
<1>1. CASE AnyReserve
  BY <1>0, <1>1, NoneAssumption
     DEF AnyReserve, Reserve, SlotFree, Held, Live, LedgerInv, LedgerTypeOK
<1>2. CASE AnyPersistLease
  BY <1>0, <1>2, NoneAssumption
     DEF AnyPersistLease, PersistLease, NewLease, Held, Live, LedgerInv,
         LedgerTypeOK
<1>3. CASE AnyHeartbeat
  <2> PICK i \in Ids, t \in 0..clock, n \in 1..MaxObservations, g \in Origins :
          /\ Observe(i, HeartbeatObservation(n, t, g))
          /\ UNCHANGED <<clock, reservations>>
    BY <1>3 DEF AnyHeartbeat
  <2>1. t \in Nat /\ n \in Nat
    BY DurationAssumption DEF LedgerInv, LedgerTypeOK
  <2>2. leases[i] \in Lease /\ leases'[i].released_at = leases[i].released_at
        /\ leases'[i] # None
    BY <2>1, HeartbeatEffect, NoneAssumption
  <2>3. j # i => leases'[j] = leases[j]
    BY DEF Observe, LedgerInv, LedgerTypeOK
  <2> QED
    BY <1>0, <2>2, <2>3, NoneAssumption DEF Held, Live
<1>4. CASE AnyRelease
  <2> PICK i \in Ids, t \in 0..clock, n \in 1..MaxObservations, g \in Origins :
          ReleaseCapacity(i, ReleaseObservation(n, t, g))
    BY <1>4 DEF AnyRelease
  <2>1. t \in Nat /\ n \in Nat
    BY DurationAssumption DEF LedgerInv, LedgerTypeOK
  <2>2. /\ leases[i] \in Lease /\ reservations[i] \in Reservation
        /\ leases' = [leases EXCEPT ![i] = [leases[i] EXCEPT !.released_at = t]]
        /\ reservations' = [reservations EXCEPT ![i] =
                              [reservations[i] EXCEPT !.released_at = t]]
    BY <2>1, ReleaseEffect
  <2>3. CASE j = i
    <3>1. /\ leases'[i] = [leases[i] EXCEPT !.released_at = t]
          /\ reservations'[i] = [reservations[i] EXCEPT !.released_at = t]
      BY <2>2 DEF LedgerInv, LedgerTypeOK
    <3>2. leases'[i] \in Lease /\ reservations'[i] \in Reservation
      BY <3>1, <2>1, <2>2 DEF Lease, Reservation
    <3>3. leases'[i].released_at = t /\ reservations'[i].released_at = t
      BY <3>1, <2>2 DEF Lease, Reservation
    <3> QED
      BY <2>3, <3>2, <3>3, NoneAssumption DEF Held, Live
  <2>4. CASE j # i
    <3>1. leases'[j] = leases[j] /\ reservations'[j] = reservations[j]
      BY <2>2, <2>4 DEF LedgerInv, LedgerTypeOK
    <3> QED
      BY <1>0, <3>1 DEF Held, Live
  <2> QED
    BY <2>3, <2>4
<1>5. CASE LedgerTick \/ UNCHANGED ledgerVars
  <2>1. UNCHANGED <<reservations, leases>>
    BY <1>5 DEF LedgerTick, ledgerVars, ledger
  <2> QED
    BY <1>0, <2>1 DEF Held, Live
<1> QED
  BY <1>1, <1>2, <1>3, <1>4, <1>5 DEF LedgerNext

\* Appending the row of an accepted observation to a lease's history leaves
\* the earlier rows in place.
LEMMA AppendFacts ==
    ASSUME NEW S, NEW s \in Seq(S), NEW e \in S
    PROVE  /\ Append(s, e) \in Seq(S)
           /\ Len(Append(s, e)) = Len(s) + 1
           /\ DOMAIN Append(s, e) = 1..(Len(s) + 1)
           /\ DOMAIN s = 1..Len(s)
           /\ Len(s) \in Nat
           /\ \A k \in 1..Len(s) : Append(s, e)[k] = s[k]
           /\ Append(s, e)[Len(s) + 1] = e
  OBVIOUS

Loadable(j) == LeaseRowDecodes(j) /\ HistoryOrdered(j) /\ HistoryMatchesLease(j)

\* A transaction that touches neither the lease nor its history leaves them
\* loadable.
LEMMA LoadableUnchanged ==
    ASSUME NEW j \in Ids, Loadable(j),
           leases'[j] = leases[j], applied'[j] = applied[j]
    PROVE  Loadable(j)'
  BY DEF Loadable, LeaseRowDecodes, HistoryOrdered, HistoryMatchesLease,
         LatestHeartbeat, Live

\* persist_lease: a new lease loads, because no history can precede its row.
LEMMA LoadableAfterPersist ==
    ASSUME LedgerInv, NEW i \in Ids, NEW t \in Nat, PersistLease(i, t),
           UNCHANGED applied
    PROVE  Loadable(i)'
<1>1. leases'[i] = NewLease(t) /\ leases'[i] # None
  BY NewLeaseType, NoneAssumption DEF PersistLease, LedgerInv, LedgerTypeOK
<1>2. DOMAIN applied[i] = {}
  BY DEF PersistLease, LedgerInv, HistoryLoadable, HistoryMatchesLease
<1> QED
  BY <1>1, <1>2, DurationAssumption
     DEF Loadable, LeaseRowDecodes, HistoryOrdered, HistoryMatchesLease,
         LatestHeartbeat, Live, NewLease

\* observe: after an accepted heartbeat the lease agrees with the new last
\* heartbeat of its history.
LEMMA LoadableAfterHeartbeat ==
    ASSUME LedgerInv,
           NEW i \in Ids, NEW n \in Nat, NEW t \in Nat, NEW g \in Origins,
           Observe(i, HeartbeatObservation(n, t, g))
    PROVE  Loadable(i)'
<1> DEFINE o == HeartbeatObservation(n, t, g)
           s == applied[i]
           u == applied'[i]
<1>0. o \in Observation
  BY ObservationTypes
<1>1. /\ o.kind = "heartbeat" /\ o.sequence = n
      /\ o.observed_at = t /\ o.expires_at = t + Extension
  BY DEF HeartbeatObservation
<1>2. /\ leases[i] \in Lease /\ leases'[i] \in Lease /\ Live(i) /\ Applies(i, o)
      /\ u = Append(s, o)
  BY HeartbeatEffect
<1>3. /\ leases'[i].leased_at = leases[i].leased_at
      /\ leases'[i].heartbeat_at = t /\ leases'[i].expires_at = t + Extension
      /\ leases'[i].released_at = leases[i].released_at
  BY HeartbeatEffect
<1>4. leases'[i] # None /\ leases'[i].released_at = None
  BY <1>2, <1>3, NoneAssumption DEF Live
<1>5. s \in Seq(Observation) /\ u = Append(s, o)
  BY <1>2 DEF LedgerInv, LedgerTypeOK
<1> HIDE DEF o
<1>6. /\ Len(u) = Len(s) + 1 /\ DOMAIN u = 1..(Len(s) + 1)
      /\ DOMAIN s = 1..Len(s) /\ Len(s) \in Nat
      /\ \A k \in 1..Len(s) : u[k] = s[k]
      /\ u[Len(s) + 1] = o
  BY <1>0, <1>5, AppendFacts
<1>7. /\ n = Len(s) + 1 /\ t >= leases[i].leased_at
      /\ s # <<>> => s[Len(s)].kind = "heartbeat" /\ t >= s[Len(s)].observed_at
  BY <1>1, <1>2 DEF Applies, LastSequence, FollowsHistory
<1>8. Len(s) > 0 => s # <<>>
  BY <1>5
<1>8a. \A k \in 1..Len(s) : s[k] \in Observation
  BY <1>5, <1>6
<1>9. \A k \in 1..Len(s) :
          /\ s[k].sequence = k /\ s[k].kind # "release"
          /\ k > 1 => s[k-1].observed_at <= s[k].observed_at
  BY <1>6, <1>7, <1>8 DEF LedgerInv, HistoryLoadable, HistoryOrdered
<1> HIDE DEF s, u
<1>10. LeaseRowDecodes(i)'
  BY <1>3, <1>4, <1>7, DurationAssumption DEF LeaseRowDecodes, Live, Lease
<1>11. HistoryOrdered(i)'
  <2> SUFFICES ASSUME NEW k \in 1..(Len(s) + 1)
               PROVE  /\ u[k].sequence = k
                      /\ u[k].kind = "release" => k = Len(u)
                      /\ k > 1 => u[k-1].observed_at <= u[k].observed_at
    BY <1>6 DEF HistoryOrdered, s, u
  <2>1. CASE k \in 1..Len(s)
    <3>0. k > 1 => k - 1 \in 1..Len(s)
      BY <1>6, <2>1
    <3>1. u[k] = s[k] /\ (k > 1 => u[k-1] = s[k-1])
      BY <1>6, <2>1, <3>0
    <3> QED
      BY <1>9, <2>1, <3>1
  <2>2. CASE k = Len(s) + 1
    <3>1. k > 1 => u[k-1] = s[Len(s)] /\ s # <<>>
      BY <1>6, <1>8, <2>2
    <3> QED
      BY <1>1, <1>6, <1>7, <2>2, <3>1
  <2> QED
    BY <1>6, <2>1, <2>2
<1>12. HistoryMatchesLease(i)'
  <2>1. ASSUME NEW k \in 1..(Len(s) + 1)
        PROVE  u[k].kind = "heartbeat" /\ u[k].kind # "release"
    <3>1. CASE k \in 1..Len(s)
      BY <1>6, <1>8a, <1>9, <3>1 DEF Observation
    <3>2. CASE k = Len(s) + 1
      BY <1>1, <1>6, <3>2
    <3> QED
      BY <1>6, <3>1, <3>2
  <2> QED
    BY <1>1, <1>3, <1>4, <1>6, <2>1 DEF HistoryMatchesLease, LatestHeartbeat, Live, u
<1> QED
  BY <1>10, <1>11, <1>12 DEF Loadable

\* release_capacity: after a release the history ends with it, the lease
\* carries its time, and the last heartbeat still is the lease's.
LEMMA LoadableAfterRelease ==
    ASSUME LedgerInv,
           NEW i \in Ids, NEW n \in Nat, NEW t \in Nat, NEW g \in Origins,
           ReleaseCapacity(i, ReleaseObservation(n, t, g))
    PROVE  Loadable(i)'
<1> DEFINE o == ReleaseObservation(n, t, g)
           s == applied[i]
           u == applied'[i]
<1>0. o \in Observation
  BY ObservationTypes
<1>1. o.kind = "release" /\ o.sequence = n /\ o.observed_at = t
  BY DEF ReleaseObservation
<1>2. /\ leases[i] \in Lease /\ Live(i) /\ Applies(i, o)
      /\ leases' = [leases EXCEPT ![i] = [leases[i] EXCEPT !.released_at = t]]
      /\ applied' = [applied EXCEPT ![i] = Append(applied[i], o)]
  BY ReleaseEffect
<1>3. /\ leases'[i].leased_at = leases[i].leased_at
      /\ leases'[i].heartbeat_at = leases[i].heartbeat_at
      /\ leases'[i].expires_at = leases[i].expires_at
      /\ leases'[i].released_at = t
      /\ leases'[i] \in Lease
  BY <1>2 DEF Lease, LedgerInv, LedgerTypeOK
<1>4. leases'[i] # None /\ t # None
  BY <1>3, NoneAssumption
<1>5. s \in Seq(Observation) /\ u = Append(s, o)
  BY <1>2 DEF LedgerInv, LedgerTypeOK
<1> HIDE DEF o
<1>6. /\ Len(u) = Len(s) + 1 /\ DOMAIN u = 1..(Len(s) + 1)
      /\ DOMAIN s = 1..Len(s) /\ Len(s) \in Nat
      /\ \A k \in 1..Len(s) : u[k] = s[k]
      /\ u[Len(s) + 1] = o
  BY <1>0, <1>5, AppendFacts
<1>7. /\ n = Len(s) + 1 /\ t >= leases[i].heartbeat_at
      /\ s # <<>> => s[Len(s)].kind = "heartbeat" /\ t >= s[Len(s)].observed_at
  BY <1>1, <1>2 DEF Applies, LastSequence, FollowsHistory
<1>8. Len(s) > 0 => s # <<>>
  BY <1>5
<1>8a. u # <<>>
  BY <1>5
<1>9. \A k \in 1..Len(s) :
          /\ s[k].sequence = k /\ s[k].kind # "release"
          /\ k > 1 => s[k-1].observed_at <= s[k].observed_at
  <2>1. \A k \in 1..Len(s) :
            /\ s[k].sequence = k
            /\ s[k].kind = "release" => k = Len(s)
            /\ k > 1 => s[k-1].observed_at <= s[k].observed_at
    BY <1>6 DEF LedgerInv, HistoryLoadable, HistoryOrdered
  <2>2. Len(s) > 0 => s[Len(s)].kind = "heartbeat"
    BY <1>7, <1>8
  <2>3. \A k \in 1..Len(s) : s[k].kind # "release"
    <3> SUFFICES ASSUME NEW k \in 1..Len(s), s[k].kind = "release"
                 PROVE  FALSE
      OBVIOUS
    <3>1. k = Len(s)
      BY <2>1
    <3>2. Len(s) > 0
      BY <1>6
    <3> QED
      BY <2>2, <3>1, <3>2
  <2> QED
    BY <2>1, <2>3
<1>10. \A k \in 1..Len(s) :
          LatestHeartbeat(i, k) => /\ leases[i].heartbeat_at = s[k].observed_at
                                   /\ leases[i].expires_at = s[k].expires_at
  BY <1>6 DEF LedgerInv, HistoryLoadable, HistoryMatchesLease
<1>11. /\ leases[i].leased_at <= leases[i].heartbeat_at
       /\ leases[i].heartbeat_at < leases[i].expires_at
  BY <1>2, NoneAssumption DEF LedgerInv, HistoryLoadable, LeaseRowDecodes
<1> HIDE DEF s, u
<1>12. LeaseRowDecodes(i)'
  BY <1>3, <1>7, <1>11 DEF LeaseRowDecodes
<1>13. HistoryOrdered(i)'
  <2> SUFFICES ASSUME NEW k \in 1..(Len(s) + 1)
               PROVE  /\ u[k].sequence = k
                      /\ u[k].kind = "release" => k = Len(u)
                      /\ k > 1 => u[k-1].observed_at <= u[k].observed_at
    BY <1>6 DEF HistoryOrdered, u
  <2>1. CASE k \in 1..Len(s)
    <3>0. k > 1 => k - 1 \in 1..Len(s)
      BY <1>6, <2>1
    <3>1. u[k] = s[k] /\ (k > 1 => u[k-1] = s[k-1])
      BY <1>6, <2>1, <3>0
    <3> QED
      BY <1>9, <2>1, <3>1
  <2>2. CASE k = Len(s) + 1
    <3>1. k > 1 => u[k-1] = s[Len(s)] /\ s # <<>>
      BY <1>6, <1>8, <2>2
    <3> QED
      BY <1>1, <1>6, <1>7, <2>2, <3>1
  <2> QED
    BY <1>6, <2>1, <2>2
<1>14. HistoryMatchesLease(i)'
  <2>1. ASSUME NEW k \in 1..(Len(s) + 1), LatestHeartbeat(i, k)'
        PROVE  /\ leases'[i].heartbeat_at = u[k].observed_at
               /\ leases'[i].expires_at = u[k].expires_at
    <3>1. /\ u[k].kind = "heartbeat"
          /\ \A m \in 1..(Len(s) + 1) : m > k => u[m].kind # "heartbeat"
      BY <1>6, <2>1 DEF LatestHeartbeat, u
    <3>2. k \in 1..Len(s)
      BY <1>1, <1>6, <3>1
    <3>3. /\ s[k].kind = "heartbeat"
          /\ \A m \in 1..Len(s) : m > k => s[m].kind # "heartbeat"
      BY <1>6, <3>1, <3>2
    <3>4. LatestHeartbeat(i, k)
      BY <1>6, <3>3 DEF LatestHeartbeat, s
    <3> QED
      BY <1>3, <1>6, <1>10, <3>2, <3>4
  <2>2. ASSUME NEW k \in 1..(Len(s) + 1), u[k].kind = "release"
        PROVE  leases'[i].released_at = u[k].observed_at
    <3>1. k = Len(s) + 1
      BY <1>6, <1>9, <2>2
    <3> QED
      BY <1>1, <1>3, <1>6, <3>1
  <2> QED
    BY <1>1, <1>4, <1>6, <1>8a, <2>1, <2>2 DEF HistoryMatchesLease, u
<1> QED
  BY <1>12, <1>13, <1>14 DEF Loadable

\* No transaction of the adapter leaves rows that LeaseObservationState would
\* refuse to load.
LEMMA LoadableStep == LedgerInv /\ [LedgerNext]_ledgerVars => HistoryLoadable'
<1> SUFFICES ASSUME LedgerInv, [LedgerNext]_ledgerVars, NEW j \in Ids
             PROVE  Loadable(j)'
  BY DEF HistoryLoadable, Loadable
<1>0. Loadable(j)
  BY DEF LedgerInv, HistoryLoadable, Loadable
<1>1. CASE AnyReserve \/ LedgerTick \/ UNCHANGED ledgerVars
  <2>1. UNCHANGED <<leases, applied>>
    BY <1>1 DEF AnyReserve, LedgerTick, ledgerVars, ledger
  <2> QED
    BY <1>0, <2>1, LoadableUnchanged
<1>2. CASE AnyPersistLease
  <2> PICK i \in Ids, t \in 0..clock :
          PersistLease(i, t) /\ UNCHANGED <<clock, reservations, applied>>
    BY <1>2 DEF AnyPersistLease
  <2>1. t \in Nat
    BY DEF LedgerInv, LedgerTypeOK
  <2>2. Loadable(i)'
    BY <2>1, LoadableAfterPersist
  <2>3. j # i => leases'[j] = leases[j] /\ applied'[j] = applied[j]
    BY DEF PersistLease, LedgerInv, LedgerTypeOK
  <2> QED
    BY <1>0, <2>2, <2>3, LoadableUnchanged
<1>3. CASE AnyHeartbeat
  <2> PICK i \in Ids, t \in 0..clock, n \in 1..MaxObservations, g \in Origins :
          Observe(i, HeartbeatObservation(n, t, g))
    BY <1>3 DEF AnyHeartbeat
  <2>1. t \in Nat /\ n \in Nat
    BY DurationAssumption DEF LedgerInv, LedgerTypeOK
  <2>2. Loadable(i)'
    BY <2>1, LoadableAfterHeartbeat
  <2>3. j # i => leases'[j] = leases[j] /\ applied'[j] = applied[j]
    BY DEF Observe, LedgerInv, LedgerTypeOK
  <2> QED
    BY <1>0, <2>2, <2>3, LoadableUnchanged
<1>4. CASE AnyRelease
  <2> PICK i \in Ids, t \in 0..clock, n \in 1..MaxObservations, g \in Origins :
          ReleaseCapacity(i, ReleaseObservation(n, t, g))
    BY <1>4 DEF AnyRelease
  <2>1. t \in Nat /\ n \in Nat
    BY DurationAssumption DEF LedgerInv, LedgerTypeOK
  <2>2. Loadable(i)'
    BY <2>1, LoadableAfterRelease
  <2>3. j # i => leases'[j] = leases[j] /\ applied'[j] = applied[j]
    BY DEF ReleaseCapacity, LedgerInv, LedgerTypeOK
  <2> QED
    BY <1>0, <2>2, <2>3, LoadableUnchanged
<1> QED
  BY <1>1, <1>2, <1>3, <1>4 DEF LedgerNext

\* Every row the ledger ever holds decodes: reservations, leases and
\* observations keep the shape the adapter's decoders expect.
THEOREM LedgerType == LedgerSpec => []LedgerTypeOK
<1>1. LedgerInit => LedgerTypeOK
  BY DEF LedgerInit, LedgerTypeOK
<1> QED
  BY <1>1, TypeStep, PTL DEF LedgerSpec

\* The empty tables satisfy the inductive invariant.
LEMMA InvInit == LedgerInit => LedgerInv
<1> SUFFICES ASSUME LedgerInit PROVE LedgerInv
  OBVIOUS
<1>1. \A i \in Ids : leases[i] = None /\ reservations[i] = None /\ applied[i] = <<>>
  BY DEF LedgerInit
<1>2. LedgerTypeOK
  BY DEF LedgerInit, LedgerTypeOK
<1>3. SerialCapacity /\ ReleasedTogether
  BY <1>1 DEF SerialCapacity, ReleasedTogether, Held
<1>4. HistoryLoadable
  BY <1>1 DEF HistoryLoadable, LeaseRowDecodes, HistoryOrdered,
              HistoryMatchesLease
<1> QED
  BY <1>2, <1>3, <1>4 DEF LedgerInv

\* Every transaction of the adapter preserves the inductive invariant.
LEMMA InvStep == LedgerInv /\ [LedgerNext]_ledgerVars => LedgerInv'
<1>1. LedgerInv /\ [LedgerNext]_ledgerVars => LedgerTypeOK'
  BY TypeStep DEF LedgerInv
<1> QED
  BY <1>1, SerialStep, TogetherStep, LoadableStep DEF LedgerInv

\* The inductive invariant holds in every state the adapter can store.
THEOREM LedgerInvariant == LedgerSpec => []LedgerInv
  BY InvInit, InvStep, PTL DEF LedgerSpec

\* workers.py: no worker pool is ever over its serial capacity, whatever the
\* callers do and however their transactions are ordered.
THEOREM LedgerCapacity == LedgerSpec => []SerialCapacity
<1>1. LedgerInv => SerialCapacity
  BY DEF LedgerInv
<1> QED
  BY <1>1, LedgerInvariant, PTL

\* postgres_worker_state.py:release_capacity: no partial release of lease and
\* slot is ever visible.
THEOREM LedgerRelease == LedgerSpec => []ReleasedTogether
<1>1. LedgerInv => ReleasedTogether
  BY DEF LedgerInv
<1> QED
  BY <1>1, LedgerInvariant, PTL

\* lease_observations.py: whatever observations arrive, late, repeated or out
\* of order, the stored lease and history can always be loaded again.
THEOREM LedgerHistory == LedgerSpec => []HistoryLoadable
<1>1. LedgerInv => HistoryLoadable
  BY DEF LedgerInv
<1> QED
  BY <1>1, LedgerInvariant, PTL

\* A released lease is left alone by every step: a heartbeat needs an open
\* lease, a release a held slot, and both new rows a free id.
LEMMA FinalStep ==
    ASSUME LedgerInv, [LedgerNext]_ledgerVars,
           NEW j \in Ids, leases[j] # None, ~Live(j)
    PROVE  /\ leases'[j] = leases[j]
           /\ applied'[j] = applied[j]
           /\ reservations'[j] = reservations[j]
<1>0. reservations[j] # None
  BY DEF LedgerInv, ReleasedTogether
<1>1. CASE AnyReserve
  BY <1>0, <1>1 DEF AnyReserve, Reserve, SlotFree, LedgerInv, LedgerTypeOK
<1>2. CASE AnyPersistLease
  BY <1>2 DEF AnyPersistLease, PersistLease, LedgerInv, LedgerTypeOK
<1>3. CASE AnyHeartbeat
  <2> PICK i \in Ids, t \in 0..clock, n \in 1..MaxObservations, g \in Origins :
          /\ Observe(i, HeartbeatObservation(n, t, g))
          /\ UNCHANGED <<clock, reservations>>
    BY <1>3 DEF AnyHeartbeat
  <2>1. t \in Nat /\ n \in Nat
    BY DurationAssumption DEF LedgerInv, LedgerTypeOK
  <2>2. j # i
    BY <2>1, HeartbeatEffect
  <2> QED
    BY <2>2 DEF Observe, LedgerInv, LedgerTypeOK
<1>4. CASE AnyRelease
  <2> PICK i \in Ids, t \in 0..clock, n \in 1..MaxObservations, g \in Origins :
          /\ ReleaseCapacity(i, ReleaseObservation(n, t, g))
          /\ UNCHANGED clock
    BY <1>4 DEF AnyRelease
  <2>1. t \in Nat /\ n \in Nat
    BY DurationAssumption DEF LedgerInv, LedgerTypeOK
  <2>2. j # i
    BY <2>1, ReleaseEffect
  <2> QED
    BY <2>2 DEF ReleaseCapacity, LedgerInv, LedgerTypeOK
<1>5. CASE LedgerTick \/ UNCHANGED ledgerVars
  BY <1>5 DEF LedgerTick, ledgerVars, ledger
<1> QED
  BY <1>1, <1>2, <1>3, <1>4, <1>5 DEF LedgerNext

\* lease_observations.py and workers.py: a release is final.  No late
\* heartbeat, second release or new reservation revives a lease or a slot.
THEOREM LedgerReleaseFinal == LedgerSpec => ReleaseIsFinal
<1>1. LedgerInv /\ [LedgerNext]_ledgerVars =>
        [\A i \in Ids :
            leases[i] # None /\ ~Live(i) =>
                /\ leases'[i] = leases[i]
                /\ applied'[i] = applied[i]
                /\ reservations'[i] = reservations[i]]_ledgerVars
  BY FinalStep
<1> QED
  BY <1>1, LedgerInvariant, PTL DEF LedgerSpec, ReleaseIsFinal

\* A recorded observation stays recorded when another one is appended.
LEMMA RecordedAppend ==
    ASSUME NEW i \in Ids, applied[i] \in Seq(Observation),
           NEW e \in Observation, applied'[i] = Append(applied[i], e),
           NEW o, Recorded(i, o)
    PROVE  Recorded(i, o)'
<1>1. PICK n \in DOMAIN applied[i] : applied[i][n] = o
  BY DEF Recorded
<1>2. n \in DOMAIN applied'[i] /\ applied'[i][n] = o
  BY <1>1, AppendFacts
<1> QED
  BY <1>2 DEF Recorded

\* What no transaction takes back: the clock, an existing lease, a recorded
\* observation and a freed slot.
LEMMA LedgerStable ==
    ASSUME LedgerInv, [LedgerNext]_ledgerVars, NEW i \in Ids
    PROVE  /\ clock <= clock'
           /\ leases[i] # None => leases'[i] # None
           /\ reservations[i] # None => reservations'[i] # None
           /\ reservations[i] # None /\ ~Held(i) => ~Held(i)'
           /\ \A o : Recorded(i, o) => Recorded(i, o)'
<1>1. CASE AnyReserve
  <2>1. PICK j \in Ids, t \in 0..clock :
            Reserve(j, t) /\ UNCHANGED <<clock, leases, applied>>
    BY <1>1 DEF AnyReserve
  <2>2. reservations[i] # None => reservations'[i] = reservations[i]
    BY <2>1 DEF Reserve, SlotFree, LedgerInv, LedgerTypeOK
  <2> QED
    BY <2>1, <2>2 DEF Held, Recorded, LedgerInv, LedgerTypeOK
<1>2. CASE AnyPersistLease
  <2>1. PICK j \in Ids, t \in 0..clock :
            PersistLease(j, t) /\ UNCHANGED <<clock, reservations, applied>>
    BY <1>2 DEF AnyPersistLease
  <2>2. leases[i] # None => leases'[i] = leases[i]
    BY <2>1 DEF PersistLease, LedgerInv, LedgerTypeOK
  <2> QED
    BY <2>1, <2>2 DEF Held, Recorded, LedgerInv, LedgerTypeOK
<1>3. CASE AnyHeartbeat
  <2> PICK j \in Ids, t \in 0..clock, n \in 1..MaxObservations, g \in Origins :
          /\ Observe(j, HeartbeatObservation(n, t, g))
          /\ UNCHANGED <<clock, reservations>>
    BY <1>3 DEF AnyHeartbeat
  <2>1. t \in Nat /\ n \in Nat
    BY DurationAssumption DEF LedgerInv, LedgerTypeOK
  <2> DEFINE o == HeartbeatObservation(n, t, g)
  <2>2. o \in Observation
    BY <2>1, ObservationTypes
  <2>3. leases'[j] \in Lease /\ applied'[j] = Append(applied[j], o)
    BY <2>1, HeartbeatEffect
  <2>4. i # j => leases'[i] = leases[i] /\ applied'[i] = applied[i]
    BY DEF Observe, LedgerInv, LedgerTypeOK
  <2> HIDE DEF o
  <2>5. \A x : Recorded(i, x) => Recorded(i, x)'
    <3>1. i # j => \A x : Recorded(i, x) => Recorded(i, x)'
      BY <2>4 DEF Recorded
    <3>2. applied[j] \in Seq(Observation)
      BY DEF LedgerInv, LedgerTypeOK
    <3> QED
      BY <2>2, <2>3, <3>1, <3>2, RecordedAppend
  <2> QED
    BY <2>3, <2>4, <2>5, NoneAssumption DEF Held, LedgerInv, LedgerTypeOK
<1>4. CASE AnyRelease
  <2> PICK j \in Ids, t \in 0..clock, n \in 1..MaxObservations, g \in Origins :
          /\ ReleaseCapacity(j, ReleaseObservation(n, t, g))
          /\ UNCHANGED clock
    BY <1>4 DEF AnyRelease
  <2>1. t \in Nat /\ n \in Nat
    BY DurationAssumption DEF LedgerInv, LedgerTypeOK
  <2> DEFINE o == ReleaseObservation(n, t, g)
  <2>2. o \in Observation
    BY <2>1, ObservationTypes
  <2>3. /\ leases[j] \in Lease /\ reservations[j] \in Reservation
        /\ leases' = [leases EXCEPT ![j] = [leases[j] EXCEPT !.released_at = t]]
        /\ applied' = [applied EXCEPT ![j] = Append(applied[j], o)]
        /\ reservations' = [reservations EXCEPT ![j] =
                              [reservations[j] EXCEPT !.released_at = t]]
    BY <2>1, ReleaseEffect
  <2> HIDE DEF o
  <2>4. applied'[j] = Append(applied[j], o) /\ (i # j => applied'[i] = applied[i])
    BY <2>3 DEF LedgerInv, LedgerTypeOK
  <2>5. \A x : Recorded(i, x) => Recorded(i, x)'
    <3>1. i # j => \A x : Recorded(i, x) => Recorded(i, x)'
      BY <2>4 DEF Recorded
    <3>2. applied[j] \in Seq(Observation)
      BY DEF LedgerInv, LedgerTypeOK
    <3> QED
      BY <2>2, <2>4, <3>1, <3>2, RecordedAppend
  <2>6. /\ leases'[j] \in Lease
        /\ reservations'[j] \in Reservation
        /\ reservations'[j].released_at = t
    BY <2>1, <2>3 DEF LedgerInv, LedgerTypeOK, Lease, Reservation
  <2>7. i # j => leases'[i] = leases[i] /\ reservations'[i] = reservations[i]
    BY <2>3 DEF LedgerInv, LedgerTypeOK
  <2>8. ~Held(j)'
    BY <2>1, <2>6, NoneAssumption DEF Held
  <2> QED
    BY <2>5, <2>6, <2>7, <2>8, NoneAssumption DEF Held, LedgerInv, LedgerTypeOK
<1>5. CASE LedgerTick \/ UNCHANGED ledgerVars
  BY <1>5 DEF LedgerTick, Tick, ledgerVars, ledger, Held, Recorded, LedgerInv,
              LedgerTypeOK
<1> QED
  BY <1>1, <1>2, <1>3, <1>4, <1>5 DEF LedgerNext
============================================================================
