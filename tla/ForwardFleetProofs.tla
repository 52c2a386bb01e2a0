------------------------- MODULE ForwardFleetProofs -------------------------
(***************************************************************************)
(* Proofs about ForwardFleet for any instances, workers, calls and bounds: *)
(* the fleet uses the ledger of LeaseCapacity, and the safety invariants   *)
(* and the action property of the forward_fleet run.                       *)
(***************************************************************************)
EXTENDS ForwardFleet, LeaseCapacityProofs, FiniteSetTheorems

----------------------------------------------------------------------------
(* The inductive invariant.                                                *)

\* Times come from the clock, and the clock stays within its bound.
TimesOK ==
    /\ clock \in 0..MaxTime
    /\ \A k \in Keys : calls[k] # None => Now(k) <= clock
    /\ \A w \in Workers : beats[w] # None => beats[w].at <= clock

\* A live lease leaves room in its history for its release.
RoomToRelease ==
    /\ \A i \in Ids : Live(i) => LastSequence(i) < MaxObservations
    /\ \A w \in Workers : beats[w] # None => beats[w].seq < MaxObservations

\* A lease is written only under a reservation that is held.
LeasedIsReserved == \A i \in Ids : leases[i] # None => reservations[i] # None

\* What a step of a call relies on (the last part of FleetTypeOK).
Stage(k) ==
    /\ calls[k].pc = "reserve" => calls[k].pools # {}
    /\ calls[k].pc = "lease" => Held(calls[k].id)
    /\ calls[k].pc \in {"release", "free"} => k \in accepted

\* The reservation a call works with bears its key, and is not leased before
\* the call itself leases it.
ReservationOK(k) ==
    /\ calls[k].pc = "reserve" =>
          \A i \in Ids : i.attempt = Instance(k) /\ i.key = k /\ Held(i) => leases[i] = None
    /\ calls[k].pc = "lease" =>
          /\ calls[k].id \in Ids
          /\ calls[k].id.key = k /\ calls[k].id.attempt = Instance(k)
          /\ leases[calls[k].id] = None
    /\ calls[k].pc = "free" =>
          /\ calls[k].id \in Ids /\ calls[k].seq >= 1
          /\ calls[k].id.attempt = Instance(k)
          /\ leases[calls[k].id] # None
    /\ calls[k].pc \in {"find", "reserve", "lease"} => Target(k) \in Running
    /\ calls[k].pc \in {"release", "free"} => Target(k) \in {"paused", "stopped"}

CallsOK == \A k \in Keys : calls[k] # None => ReservationOK(k)

\* A key is accepted by a call.
AcceptedOK == \A k \in accepted : calls[k] # None

\* The promise of a client that serialises its calls.
OneCall ==
    \A j, k \in Keys :
        InProgress(j) /\ InProgress(k) /\ Instance(j) = Instance(k) /\ Instance(j) \in Serialised
            => j = k

\* An instance of such a client is held on one worker.
OnePlace(f) ==
    \A i, j \in Ids :
        Held(i) /\ Held(j) /\ i.attempt = f /\ j.attempt = f => i.worker = j.worker

Powered(f) == instances[f].state \in Running => Authorizations(f) # {}

\* What the only call of an instance knows of it.
SerialCall(k) ==
    LET f == Instance(k) IN
    /\ calls[k].pc = "find" => instances[f].state \in Running \/ Legal(f, Target(k), Now(k))
    /\ calls[k].pc \in {"reserve", "lease"} =>
          instances[f].state \notin Running /\ Legal(f, Target(k), Now(k))
    /\ calls[k].pc = "reserve" =>
          \A i \in Ids : Held(i) /\ i.attempt = f => calls[k].pools \subseteq {i.worker}
    /\ calls[k].pc = "transition" /\ Target(k) \in Running =>
          Authorizations(f) # {} \/ ~Legal(f, Target(k), Now(k))
    /\ k \in accepted /\ Target(k) \in {"paused", "stopped"} => instances[f].state = Target(k)
    /\ calls[k].pc = "free" => Held(calls[k].id) /\ Live(calls[k].id)

SerialCalls == \A k \in Keys : InProgress(k) /\ Instance(k) \in Serialised => SerialCall(k)

\* A slot of such an instance without a lease belongs to the call that will
\* lease it, before or after it is repeated.
UnleasedOK(f) ==
    \A i \in Ids :
        Held(i) /\ leases[i] = None /\ i.attempt = f =>
            /\ InProgress(i.key) /\ Instance(i.key) = f
            /\ calls[i.key].pc \in {"load", "find", "reserve", "lease", "crashed"}
            /\ Target(i.key) \in Running
            /\ instances[f].state \notin Running
            /\ Legal(f, Target(i.key), Now(i.key))

InstanceOK(f) == OnePlace(f) /\ Powered(f) /\ UnleasedOK(f)

SerialInstances == \A f \in Serialised : InstanceOK(f)

FleetInv ==
    /\ LedgerInv /\ FleetTypeOK /\ TimesOK /\ RoomToRelease /\ LeasedIsReserved
    /\ CallsOK /\ AcceptedOK /\ OneCall /\ SerialCalls /\ SerialInstances

----------------------------------------------------------------------------
(* The rows of a call and of a heartbeat.                                  *)

\* A call that moves to another step keeps its request and forgets the rest.
LEMMA FreshCall ==
    ASSUME NEW c \in Call, NEW pc \in Underway \cup Ended
    PROVE  /\ Fresh(c, pc) \in Call
           /\ Fresh(c, pc).pc = pc /\ Fresh(c, pc).id = None
           /\ Fresh(c, pc).instance = c.instance
           /\ Fresh(c, pc).target = c.target /\ Fresh(c, pc).now = c.now
<1>1. PICK q \in Underway \cup Ended, f \in Instances, s \in States \ {"created"},
           t \in 0..MaxTime, P \in SUBSET Workers, O \in SUBSET (Workers \X Workers),
           i \in Ids \cup {None}, n \in 0..MaxObservations :
        c = [pc |-> q, instance |-> f, target |-> s, now |-> t, pools |-> P, order |-> O,
             id |-> i, seq |-> n]
  BY DEF Call
<1>2. Fresh(c, pc) = [pc |-> pc, instance |-> f, target |-> s, now |-> t, pools |-> {},
                      order |-> {}, id |-> None, seq |-> 0]
  <2>1. PICK Q : Q = {}
    OBVIOUS
  <2> DEFINE c1 == [c EXCEPT !.pc = pc]
             c2 == [c1 EXCEPT !.pools = Q]
             c3 == [c2 EXCEPT !.order = Q]
             c4 == [c3 EXCEPT !.id = None]
             c5 == [c4 EXCEPT !.seq = 0]
  <2>2. c1 = [pc |-> pc, instance |-> f, target |-> s, now |-> t, pools |-> P, order |-> O,
              id |-> i, seq |-> n]
    BY <1>1
  <2> HIDE DEF c1
  <2>3. c2 = [pc |-> pc, instance |-> f, target |-> s, now |-> t, pools |-> Q, order |-> O,
              id |-> i, seq |-> n]
    BY <2>2
  <2> HIDE DEF c2
  <2>4. c3 = [pc |-> pc, instance |-> f, target |-> s, now |-> t, pools |-> Q, order |-> Q,
              id |-> i, seq |-> n]
    BY <2>3
  <2> HIDE DEF c3
  <2>5. c4 = [pc |-> pc, instance |-> f, target |-> s, now |-> t, pools |-> Q, order |-> Q,
              id |-> None, seq |-> n]
    BY <2>4
  <2> HIDE DEF c4
  <2>6. c5 = [pc |-> pc, instance |-> f, target |-> s, now |-> t, pools |-> Q, order |-> Q,
              id |-> None, seq |-> 0]
    BY <2>5
  <2>7. Fresh(c, pc) = c5
    BY <2>1 DEF Fresh, c1, c2, c3, c4
  <2> QED
    BY <2>1, <2>6, <2>7
<1>3. 0 \in 0..MaxObservations
  BY DurationAssumption
<1>4. Fresh(c, pc) \in Call
  BY <1>2, <1>3 DEF Call
<1> QED
  BY <1>1, <1>2, <1>4

\* A step that changes one call, which keeps its request.
CallMoved(k) ==
    /\ calls' \in [Keys -> Call \cup {None}] /\ calls'[k] # None
    /\ \A j \in Keys : j # k => calls'[j] = calls[j]
    /\ calls'[k].instance = Instance(k)
    /\ calls'[k].target = Target(k) /\ calls'[k].now = Now(k)

LEMMA GotoCall ==
    ASSUME FleetTypeOK, NEW k \in Keys, calls[k] # None,
           NEW pc \in Underway \cup Ended, Goto(k, pc)
    PROVE  CallMoved(k) /\ calls'[k].pc = pc
<1>1. calls[k] \in Call
  BY DEF FleetTypeOK
<1>2. calls' = [calls EXCEPT ![k] = Fresh(calls[k], pc)]
  BY DEF Goto
<1>3. calls'[k] = Fresh(calls[k], pc) /\ \A j \in Keys : j # k => calls'[j] = calls[j]
  BY <1>2 DEF FleetTypeOK
<1> QED
  BY <1>1, <1>2, <1>3, FreshCall, FleetAssumption
     DEF CallMoved, FleetTypeOK, Instance, Target, Now

----------------------------------------------------------------------------
(* What the transactions of the ledger change of an id.                    *)

SameSlot(i) == (Held(i)' <=> Held(i)) /\ (reservations'[i] = None <=> reservations[i] = None)

SameLease(i) ==
    /\ Live(i)' <=> Live(i)
    /\ leases'[i] = None <=> leases[i] = None

\* A call's step that leaves the tables alone.
LEMMA QuietView ==
    ASSUME UNCHANGED ledger, NEW i \in Ids
    PROVE  SameSlot(i) /\ SameLease(i) /\ LastSequence(i)' = LastSequence(i)
  BY DEF ledger, SameSlot, SameLease, Held, Live, LastSequence

\* reserve takes the slot of one id of a free pool.
LEMMA ReserveView ==
    ASSUME LedgerInv, NEW i \in Ids, NEW t \in Nat, Reserve(i, t), UNCHANGED <<leases, applied>>,
           NEW j \in Ids
    PROVE  /\ reservations[i] = None /\ ~Held(i) /\ Held(i)' /\ reservations'[i] # None
           /\ j # i => SameSlot(j)
           /\ j.worker = i.worker => ~Held(j)
           /\ SameLease(j) /\ LastSequence(j)' = LastSequence(j)
<1>1. /\ reservations[i] = None
      /\ reservations' = [reservations EXCEPT ![i] = [acquired_at |-> t, released_at |-> None]]
      /\ j.worker = i.worker => ~Held(j)
  BY DEF Reserve, SlotFree, SamePool
<1>2. reservations \in [Ids -> Reservation \cup {None}]
  BY DEF LedgerInv, LedgerTypeOK
<1>3. [acquired_at |-> t, released_at |-> None] \in Reservation
  BY DEF Reservation
<1>4. reservations'[i] = [acquired_at |-> t, released_at |-> None] /\ reservations'[i] # None
  BY <1>1, <1>2, <1>3, NoneAssumption
<1>5. j # i => reservations'[j] = reservations[j]
  BY <1>1, <1>2
<1> QED
  BY <1>1, <1>4, <1>5 DEF SameSlot, SameLease, Held, Live, LastSequence

\* persist_lease opens the lease of one id, whose history is empty.
LEMMA PersistView ==
    ASSUME LedgerInv, NEW i \in Ids, NEW t \in Nat, PersistLease(i, t),
           UNCHANGED <<reservations, applied>>, NEW j \in Ids
    PROVE  /\ leases[i] = None /\ leases'[i] # None /\ Live(i)'
           /\ j # i => SameLease(j)
           /\ SameSlot(j) /\ LastSequence(j)' = LastSequence(j)
           /\ LastSequence(i) = 0
<1>1. leases[i] = None /\ leases' = [leases EXCEPT ![i] = NewLease(t)]
  BY DEF PersistLease
<1>2. leases \in [Ids -> Lease \cup {None}] /\ NewLease(t) \in Lease
  BY NewLeaseType DEF LedgerInv, LedgerTypeOK
<1>3. /\ leases'[i] = NewLease(t) /\ leases'[i] # None
      /\ j # i => leases'[j] = leases[j]
  BY <1>1, <1>2, NoneAssumption
<1>4. leases'[i].released_at = None
  BY <1>3 DEF NewLease
<1>5. DOMAIN applied[i] = {} /\ applied[i] \in Seq(Observation)
  BY <1>1 DEF LedgerInv, LedgerTypeOK, HistoryLoadable, HistoryMatchesLease
<1>6. LastSequence(i) = 0
  <2>0. applied[i] \in Seq(Observation) /\ 1 \notin DOMAIN applied[i]
    BY <1>5
  <2>1. Len(applied[i]) \in Nat /\ DOMAIN applied[i] = 1..Len(applied[i])
    BY <2>0
  <2>2. 1 \notin 1..Len(applied[i])
    BY <2>0, <2>1
  <2> QED
    BY <2>1, <2>2 DEF LastSequence
<1> QED
  BY <1>1, <1>3, <1>4, <1>6 DEF SameSlot, SameLease, Held, Live, LastSequence

\* observe changes the times of a live lease and extends its history.
LEMMA HeartbeatView ==
    ASSUME LedgerInv, NEW i \in Ids, NEW n \in Nat, NEW t \in Nat, NEW g \in Origins,
           Observe(i, HeartbeatObservation(n, t, g)), UNCHANGED reservations, NEW j \in Ids
    PROVE  /\ SameSlot(j) /\ SameLease(j)
           /\ LastSequence(i)' = n
           /\ j # i => LastSequence(j)' = LastSequence(j)
<1> DEFINE o == HeartbeatObservation(n, t, g)
<1>1. /\ leases[i] \in Lease /\ Live(i) /\ Applies(i, o) /\ leases'[i] \in Lease
      /\ leases'[i].released_at = leases[i].released_at
      /\ applied'[i] = Append(applied[i], o)
  BY HeartbeatEffect
<1>2. /\ leases' = [leases EXCEPT ![i] = Observed(@, o)]
      /\ applied' = [applied EXCEPT ![i] = Append(@, o)]
      /\ leases \in [Ids -> Lease \cup {None}] /\ applied \in [Ids -> Seq(Observation)]
  BY DEF Observe, LedgerInv, LedgerTypeOK
<1>3. j # i => leases'[j] = leases[j] /\ applied'[j] = applied[j]
  BY <1>2
<1>4. o \in Observation /\ o.sequence = n
  BY ObservationTypes DEF HeartbeatObservation
<1>5. LastSequence(i) + 1 = n
  BY <1>1, <1>4 DEF Applies
<1>6. LastSequence(i)' = n
  BY <1>1, <1>2, <1>4, <1>5, AppendFacts DEF LastSequence
<1>7. SameLease(i)
  BY <1>1, NoneAssumption DEF SameLease, Live
<1> QED
  BY <1>3, <1>6, <1>7 DEF SameSlot, SameLease, Held, Live, LastSequence

\* release_capacity ends the lease and frees the slot of one id.
LEMMA ReleaseView ==
    ASSUME LedgerInv, NEW i \in Ids, NEW n \in Nat, NEW t \in Nat, NEW g \in Origins,
           ReleaseCapacity(i, ReleaseObservation(n, t, g)), NEW j \in Ids
    PROVE  /\ Held(i) /\ ~Held(i)' /\ Live(i) /\ ~Live(i)'
           /\ leases[i] # None /\ leases'[i] # None
           /\ reservations[i] # None /\ reservations'[i] # None
           /\ j # i => SameSlot(j) /\ SameLease(j) /\ LastSequence(j)' = LastSequence(j)
<1> DEFINE o == ReleaseObservation(n, t, g)
<1>1. /\ leases[i] \in Lease /\ reservations[i] \in Reservation /\ Live(i)
      /\ leases' = [leases EXCEPT ![i] = [leases[i] EXCEPT !.released_at = t]]
      /\ applied' = [applied EXCEPT ![i] = Append(applied[i], o)]
      /\ reservations' = [reservations EXCEPT ![i] = [reservations[i] EXCEPT !.released_at = t]]
  BY ReleaseEffect
<1>2. /\ leases \in [Ids -> Lease \cup {None}] /\ applied \in [Ids -> Seq(Observation)]
      /\ reservations \in [Ids -> Reservation \cup {None}]
  BY DEF LedgerInv, LedgerTypeOK
<1>3. j # i => /\ leases'[j] = leases[j] /\ applied'[j] = applied[j]
               /\ reservations'[j] = reservations[j]
  BY <1>1, <1>2
<1>4. /\ leases'[i] = [leases[i] EXCEPT !.released_at = t]
      /\ reservations'[i] = [reservations[i] EXCEPT !.released_at = t]
  BY <1>1, <1>2
<1>5. /\ leases'[i] \in Lease /\ reservations'[i] \in Reservation
      /\ leases'[i].released_at = t /\ reservations'[i].released_at = t
  BY <1>1, <1>4 DEF Lease, Reservation
<1>6. Held(i)
  BY DEF ReleaseCapacity
<1> QED
  BY <1>1, <1>3, <1>5, <1>6, NoneAssumption DEF SameSlot, SameLease, Held, Live, LastSequence

----------------------------------------------------------------------------
(* The fleet uses the ledger.                                              *)

\* Every step of the fleet is a transaction of the ledger or leaves it alone.
LEMMA FleetLedgerStep ==
    ASSUME FleetInv, [Next]_vars
    PROVE  [LedgerNext]_ledgerVars
<1>0. LedgerInv /\ FleetTypeOK /\ TimesOK /\ CallsOK
  BY DEF FleetInv
<1>c. clock \in Nat
  BY <1>0 DEF TimesOK
<1>g. "forward" \in Origins
  BY FleetAssumption
<1>1. ASSUME NEW k \in Keys, NEW w \in Workers, ReserveWorker(k, w)
      PROVE  [LedgerNext]_ledgerVars
  <2>1. calls[k] \in Call /\ calls[k] # None
    BY <1>0, <1>1 DEF ReserveWorker, At, FleetTypeOK
  <2>2. KeyId(k, w) \in Ids /\ Now(k) \in 0..clock
    BY <1>0, <1>c, <2>1 DEF KeyId, Ids, Instance, Now, Call, Instances, TimesOK
  <2>3. CASE UNCHANGED reservations
    BY <1>1, <2>3 DEF ReserveWorker, ledgerVars, ledger
  <2>4. CASE Reserve(KeyId(k, w), Now(k))
    BY <1>1, <2>2, <2>4 DEF ReserveWorker, LedgerNext, AnyReserve
  <2> QED
    BY <1>1, <2>3, <2>4 DEF ReserveWorker
<1>2. ASSUME NEW k \in Keys, PersistForwardLease(k)
      PROVE  [LedgerNext]_ledgerVars
  <2>1. calls[k] \in Call /\ calls[k] # None /\ calls[k].pc = "lease"
    BY <1>0, <1>2 DEF PersistForwardLease, At, FleetTypeOK
  <2>2. calls[k].id \in Ids /\ Now(k) \in 0..clock
    BY <1>0, <1>c, <2>1 DEF CallsOK, ReservationOK, Now, Call, TimesOK
  <2> QED
    BY <1>2, <2>2 DEF PersistForwardLease, LedgerNext, AnyPersistLease
<1>3. ASSUME NEW k \in Keys, FreeWorker(k)
      PROVE  [LedgerNext]_ledgerVars
  <2>1. calls[k] \in Call /\ calls[k] # None /\ calls[k].pc = "free"
    BY <1>0, <1>3 DEF FreeWorker, At, FleetTypeOK
  <2>2. calls[k].id \in Ids /\ Now(k) \in 0..clock /\ calls[k].seq \in 1..MaxObservations
    BY <1>0, <1>c, <2>1, DurationAssumption DEF CallsOK, ReservationOK, Now, Call, TimesOK
  <2>3. CASE UNCHANGED ledger
    BY <1>3, <2>3 DEF FreeWorker, ledgerVars
  <2>4. CASE ReleaseCapacity(calls[k].id, ReleaseObservation(calls[k].seq, Now(k), "forward"))
    BY <1>3, <1>g, <2>2, <2>4 DEF FreeWorker, LedgerNext, AnyRelease
  <2> QED
    BY <1>3, <2>3, <2>4 DEF FreeWorker
<1>4. ASSUME NEW w \in Workers, WriteHeartbeat(w)
      PROVE  [LedgerNext]_ledgerVars
  <2>1. beats[w] \in Beat /\ beats[w] # None
    BY <1>0, <1>4 DEF WriteHeartbeat, FleetTypeOK
  <2>2. /\ beats[w].id \in Ids /\ beats[w].at \in 0..clock
        /\ beats[w].seq \in 1..MaxObservations
    BY <1>0, <1>c, <2>1 DEF Beat, TimesOK
  <2>3. CASE UNCHANGED <<leases, applied>>
    BY <1>4, <2>3 DEF WriteHeartbeat, ledgerVars, ledger
  <2>4. CASE Observe(beats[w].id, HeartbeatObservation(beats[w].seq, beats[w].at, "forward"))
    BY <1>4, <1>g, <2>2, <2>4 DEF WriteHeartbeat, LedgerNext, AnyHeartbeat
  <2> QED
    BY <1>4, <2>3, <2>4 DEF WriteHeartbeat
<1>5. Time => [LedgerNext]_ledgerVars
  BY DEF Time, LedgerNext, LedgerTick
<1>6. CASE UNCHANGED vars
  BY <1>6 DEF vars
<1>7. CASE Next
  BY <1>1, <1>2, <1>3, <1>4, <1>5, <1>7
     DEF Next, Begin, LoadInstance, FindWorker, Transition, FindRelease, CrashCall, Resend,
         CompleteWarmup, PrepareHeartbeat
<1> QED
  BY <1>6, <1>7

\* So the ledger's own invariant holds after the step.
LEMMA FleetLedgerInv ==
    ASSUME FleetInv, [Next]_vars
    PROVE  LedgerInv'
  BY FleetLedgerStep, InvStep DEF FleetInv

\* The steps of the fleet that write the ledger, each with what it writes.
Takes(k, w, i, t) ==
    /\ ReserveWorker(k, w) /\ i = KeyId(k, w) /\ t = Now(k)
    /\ Reserve(i, t) /\ UNCHANGED <<leases, applied>>

Opens(k, i, t) ==
    /\ PersistForwardLease(k) /\ i = calls[k].id /\ t = Now(k) /\ Held(i)
    /\ PersistLease(i, t) /\ UNCHANGED <<reservations, applied>>

Frees(k, i, n, t) ==
    /\ FreeWorker(k) /\ i = calls[k].id /\ t = Now(k) /\ n = calls[k].seq
    /\ ReleaseCapacity(i, ReleaseObservation(n, t, "forward"))

Beats(w, i, n, t) ==
    /\ WriteHeartbeat(w) /\ i = beats[w].id /\ t = beats[w].at /\ n = beats[w].seq
    /\ Observe(i, HeartbeatObservation(n, t, "forward")) /\ UNCHANGED reservations

LedgerEffect ==
    \/ UNCHANGED ledger
    \/ \E k \in Keys, w \in Workers, i \in Ids, t \in Nat : Takes(k, w, i, t)
    \/ \E k \in Keys, i \in Ids, t \in Nat : Opens(k, i, t)
    \/ \E k \in Keys, i \in Ids, n \in Nat, t \in Nat : Frees(k, i, n, t)
    \/ \E w \in Workers, i \in Ids, n \in Nat, t \in Nat : Beats(w, i, n, t)

LEMMA LedgerEffects ==
    ASSUME FleetInv, [Next]_vars
    PROVE  LedgerEffect
<1>0. LedgerInv /\ FleetTypeOK /\ CallsOK
  BY DEF FleetInv
<1>1. ASSUME NEW k \in Keys, NEW w \in Workers, ReserveWorker(k, w)
      PROVE  LedgerEffect
  <2>1. calls[k] \in Call /\ calls[k] # None
    BY <1>0, <1>1 DEF ReserveWorker, At, FleetTypeOK
  <2>2. KeyId(k, w) \in Ids /\ Now(k) \in Nat
    BY <2>1, DurationAssumption DEF KeyId, Ids, Instance, Now, Call, Instances
  <2>3. UNCHANGED <<leases, applied>>
    BY <1>1 DEF ReserveWorker
  <2>4. CASE UNCHANGED reservations
    BY <2>3, <2>4 DEF LedgerEffect, ledger
  <2>5. CASE Reserve(KeyId(k, w), Now(k))
    BY <1>1, <2>2, <2>3, <2>5 DEF LedgerEffect, Takes
  <2> QED
    BY <1>1, <2>4, <2>5 DEF ReserveWorker
<1>2. ASSUME NEW k \in Keys, PersistForwardLease(k)
      PROVE  LedgerEffect
  <2>1. calls[k] \in Call /\ calls[k] # None /\ calls[k].pc = "lease"
    BY <1>0, <1>2 DEF PersistForwardLease, At, FleetTypeOK
  <2>2. calls[k].id \in Ids /\ Now(k) \in Nat /\ Held(calls[k].id)
    BY <1>0, <2>1, DurationAssumption DEF CallsOK, ReservationOK, Now, Call, FleetTypeOK
  <2>3. PersistLease(calls[k].id, Now(k)) /\ UNCHANGED <<reservations, applied>>
    BY <1>2 DEF PersistForwardLease
  <2> QED
    BY <1>2, <2>2, <2>3 DEF LedgerEffect, Opens
<1>3. ASSUME NEW k \in Keys, FreeWorker(k)
      PROVE  LedgerEffect
  <2>1. calls[k] \in Call /\ calls[k] # None /\ calls[k].pc = "free"
    BY <1>0, <1>3 DEF FreeWorker, At, FleetTypeOK
  <2>2. calls[k].id \in Ids /\ Now(k) \in Nat /\ calls[k].seq \in Nat
    BY <1>0, <2>1, DurationAssumption DEF CallsOK, ReservationOK, Now, Call
  <2>3. \/ UNCHANGED ledger
        \/ ReleaseCapacity(calls[k].id, ReleaseObservation(calls[k].seq, Now(k), "forward"))
    BY <1>3 DEF FreeWorker
  <2> QED
    BY <1>3, <2>2, <2>3 DEF LedgerEffect, Frees
<1>4. ASSUME NEW w \in Workers, WriteHeartbeat(w)
      PROVE  LedgerEffect
  <2>1. beats[w] \in Beat /\ beats[w] # None
    BY <1>0, <1>4 DEF WriteHeartbeat, FleetTypeOK
  <2>2. beats[w].id \in Ids /\ beats[w].at \in Nat /\ beats[w].seq \in Nat
    BY <2>1, DurationAssumption DEF Beat
  <2>3. /\ UNCHANGED reservations
        /\ \/ UNCHANGED <<leases, applied>>
           \/ Observe(beats[w].id, HeartbeatObservation(beats[w].seq, beats[w].at, "forward"))
    BY <1>4 DEF WriteHeartbeat
  <2> QED
    BY <1>4, <2>2, <2>3 DEF LedgerEffect, Beats, ledger
<1>5. ASSUME \/ \E k \in Keys, f \in Instances, s \in States \ {"created"} : Begin(k, f, s)
             \/ \E k \in Keys : \/ LoadInstance(k) \/ FindWorker(k) \/ Transition(k)
                                \/ FindRelease(k) \/ CrashCall(k) \/ Resend(k)
             \/ \E f \in Instances : CompleteWarmup(f)
             \/ \E w \in Workers, i \in Ids : PrepareHeartbeat(w, i)
             \/ Time \/ UNCHANGED vars
      PROVE  LedgerEffect
  BY <1>5 DEF LedgerEffect, ledgerVars, vars, Begin, LoadInstance, FindWorker, Transition,
              FindRelease, CrashCall, Resend, CompleteWarmup, PrepareHeartbeat, Time
<1> QED
  BY <1>1, <1>2, <1>3, <1>4, <1>5 DEF Next

\* A lease still has its reservation after every step.
LEMMA LeasedStep ==
    ASSUME FleetInv, [Next]_vars
    PROVE  LeasedIsReserved'
<1> SUFFICES ASSUME NEW j \in Ids, leases'[j] # None
             PROVE  reservations'[j] # None
  BY DEF LeasedIsReserved
<1>0. LedgerInv /\ (leases[j] # None => reservations[j] # None) /\ "forward" \in Origins
  BY FleetAssumption DEF FleetInv, LeasedIsReserved
<1>1. CASE UNCHANGED ledger
  BY <1>0, <1>1 DEF ledger
<1>2. ASSUME NEW k \in Keys, NEW w \in Workers, NEW i \in Ids, NEW t \in Nat, Takes(k, w, i, t)
      PROVE  reservations'[j] # None
  <2>1. reservations'[i] # None /\ SameLease(j) /\ (j # i => SameSlot(j))
    BY <1>0, <1>2, ReserveView DEF Takes
  <2> QED
    BY <1>0, <2>1 DEF SameSlot, SameLease
<1>3. ASSUME NEW k \in Keys, NEW i \in Ids, NEW t \in Nat, Opens(k, i, t)
      PROVE  reservations'[j] # None
  <2>1. Held(i) /\ SameSlot(j) /\ (j # i => SameLease(j))
    BY <1>0, <1>3, PersistView DEF Opens
  <2> QED
    BY <1>0, <2>1 DEF SameSlot, SameLease, Held
<1>4. ASSUME NEW k \in Keys, NEW i \in Ids, NEW n \in Nat, NEW t \in Nat, Frees(k, i, n, t)
      PROVE  reservations'[j] # None
  <2>1. reservations'[i] # None /\ (j # i => SameSlot(j) /\ SameLease(j))
    BY <1>0, <1>4, ReleaseView DEF Frees
  <2> QED
    BY <1>0, <2>1 DEF SameSlot, SameLease
<1>5. ASSUME NEW w \in Workers, NEW i \in Ids, NEW n \in Nat, NEW t \in Nat, Beats(w, i, n, t)
      PROVE  reservations'[j] # None
  <2>1. SameSlot(j) /\ SameLease(j)
    BY <1>0, <1>5, HeartbeatView DEF Beats
  <2> QED
    BY <1>0, <2>1 DEF SameSlot, SameLease
<1>6. LedgerEffect
  BY LedgerEffects
<1> QED
  BY <1>1, <1>2, <1>3, <1>4, <1>5, <1>6 DEF LedgerEffect

\* A live lease keeps room for its release: a heartbeat is prepared only when
\* one more observation still fits.
LEMMA RoomStep ==
    ASSUME FleetInv, [Next]_vars, NEW j \in Ids, Live(j)'
    PROVE  LastSequence(j)' < MaxObservations
<1>0. /\ LedgerInv /\ "forward" \in Origins /\ MaxObservations \in Nat \ {0}
      /\ Live(j) => LastSequence(j) < MaxObservations
  BY FleetAssumption, DurationAssumption DEF FleetInv, RoomToRelease
<1>1. CASE UNCHANGED ledger
  BY <1>0, <1>1, QuietView DEF SameLease
<1>2. ASSUME NEW k \in Keys, NEW w \in Workers, NEW i \in Ids, NEW t \in Nat, Takes(k, w, i, t)
      PROVE  LastSequence(j)' < MaxObservations
  <2>1. SameLease(j) /\ LastSequence(j)' = LastSequence(j)
    BY <1>0, <1>2, ReserveView DEF Takes
  <2> QED
    BY <1>0, <2>1 DEF SameLease
<1>3. ASSUME NEW k \in Keys, NEW i \in Ids, NEW t \in Nat, Opens(k, i, t)
      PROVE  LastSequence(j)' < MaxObservations
  <2>1. /\ LastSequence(i) = 0 /\ LastSequence(j)' = LastSequence(j)
        /\ j # i => SameLease(j)
    BY <1>0, <1>3, PersistView DEF Opens
  <2> QED
    BY <1>0, <2>1 DEF SameLease
<1>4. ASSUME NEW k \in Keys, NEW i \in Ids, NEW n \in Nat, NEW t \in Nat, Frees(k, i, n, t)
      PROVE  LastSequence(j)' < MaxObservations
  <2>1. /\ ~Live(i)'
        /\ j # i => SameLease(j) /\ LastSequence(j)' = LastSequence(j)
    BY <1>0, <1>4, ReleaseView DEF Frees
  <2> QED
    BY <1>0, <2>1 DEF SameLease
<1>5. ASSUME NEW w \in Workers, NEW i \in Ids, NEW n \in Nat, NEW t \in Nat, Beats(w, i, n, t)
      PROVE  LastSequence(j)' < MaxObservations
  <2>1. /\ LastSequence(i)' = n /\ SameLease(j)
        /\ j # i => LastSequence(j)' = LastSequence(j)
    BY <1>0, <1>5, HeartbeatView DEF Beats
  <2>2. n < MaxObservations
    BY <1>5 DEF Beats, WriteHeartbeat, FleetInv, RoomToRelease
  <2> QED
    BY <1>0, <2>1, <2>2 DEF SameLease
<1>6. LedgerEffect
  BY LedgerEffects
<1> QED
  BY <1>1, <1>2, <1>3, <1>4, <1>5, <1>6 DEF LedgerEffect

\* With a lease under every reservation, a slot is held while its lease lives.
LEMMA HeldIsLive ==
    ASSUME LedgerInv, LeasedIsReserved, NEW i \in Ids, leases[i] # None
    PROVE  Held(i) <=> Live(i)
  BY DEF LedgerInv, ReleasedTogether, LeasedIsReserved, Held, Live

\* The heartbeats under way name an existing lease, with a time of the past
\* and a sequence that leaves room.
LEMMA BeatsStep ==
    ASSUME FleetInv, [Next]_vars
    PROVE  /\ beats' \in [Workers -> Beat \cup {None}]
           /\ \A w \in Workers : beats'[w] # None =>
                 /\ leases'[beats'[w].id] # None
                 /\ beats'[w].at <= clock' /\ beats'[w].seq < MaxObservations
<1>0. LedgerInv /\ FleetTypeOK /\ TimesOK /\ RoomToRelease /\ [LedgerNext]_ledgerVars
  BY FleetLedgerStep DEF FleetInv
<1>t. beats \in [Workers -> Beat \cup {None}] /\ clock \in Nat /\ clock' \in Nat
  BY <1>0, FleetLedgerInv DEF FleetTypeOK, LedgerInv, LedgerTypeOK
<1>1. ASSUME NEW w \in Workers, beats[w] # None
      PROVE  /\ leases'[beats[w].id] # None
             /\ beats[w].at <= clock' /\ beats[w].seq < MaxObservations
  <2>1. PICK i \in Ids : i = beats[w].id
    BY <1>1, <1>t DEF Beat
  <2>2. leases[i] # None /\ beats[w].at <= clock /\ beats[w].seq < MaxObservations
    BY <1>0, <1>1, <2>1 DEF FleetTypeOK, TimesOK, RoomToRelease
  <2>3. leases'[i] # None /\ clock <= clock'
    BY <1>0, <2>2, LedgerStable
  <2>4. beats[w].at \in Int
    BY <1>1, <1>t, DurationAssumption DEF Beat
  <2> QED
    BY <1>t, <2>1, <2>2, <2>3, <2>4
<1>2. CASE UNCHANGED beats
  BY <1>t, <1>1, <1>2
<1>3. ASSUME NEW w \in Workers, beats' = [beats EXCEPT ![w] = None]
      PROVE  /\ beats' \in [Workers -> Beat \cup {None}]
             /\ \A v \in Workers : beats'[v] # None => beats'[v] = beats[v]
  BY <1>t, <1>3
<1>4. ASSUME NEW w \in Workers, NEW i \in Ids, PrepareHeartbeat(w, i)
      PROVE  /\ beats' \in [Workers -> Beat \cup {None}]
             /\ \A v \in Workers : beats'[v] # None =>
                   /\ leases'[beats'[v].id] # None
                   /\ beats'[v].at <= clock' /\ beats'[v].seq < MaxObservations
  <2>1. PICK n \in Nat : n = LastSequence(i)
    BY <1>0 DEF LastSequence, LedgerInv, LedgerTypeOK
  <2>2. /\ beats' = [beats EXCEPT ![w] = [id |-> i, seq |-> n + 1, at |-> clock]]
        /\ n + 1 < MaxObservations /\ clock' = clock /\ leases' = leases
    BY <1>4, <2>1 DEF PrepareHeartbeat, ledgerVars, ledger
  <2>3. leases[i] # None /\ clock \in 0..MaxTime
    BY <1>0, <1>4 DEF PrepareHeartbeat, Authorizations, Live, TimesOK
  <2>4. [id |-> i, seq |-> n + 1, at |-> clock] \in Beat
    BY <2>1, <2>2, <2>3, DurationAssumption DEF Beat
  <2>5. /\ beats'[w] = [id |-> i, seq |-> n + 1, at |-> clock]
        /\ \A v \in Workers : v # w => beats'[v] = beats[v]
        /\ beats' \in [Workers -> Beat \cup {None}]
    BY <1>t, <2>2, <2>4
  <2> QED
    BY <1>t, <1>1, <2>2, <2>3, <2>5
<1>5. ASSUME NEW w \in Workers, WriteHeartbeat(w)
      PROVE  beats' = [beats EXCEPT ![w] = None]
  BY <1>5 DEF WriteHeartbeat
<1>6. \/ UNCHANGED beats
      \/ \E w \in Workers : WriteHeartbeat(w)
      \/ \E w \in Workers, i \in Ids : PrepareHeartbeat(w, i)
  BY DEF Next, vars, fleetVars, Begin, LoadInstance, FindWorker, ReserveWorker,
         PersistForwardLease, Transition, FindRelease, FreeWorker, CrashCall, Resend,
         CompleteWarmup, Time
<1> QED
  BY <1>1, <1>2, <1>3, <1>4, <1>5, <1>6

----------------------------------------------------------------------------
(* A step of one call.                                                     *)

Slots(f) == {i \in Ids : i.attempt = f}

LEMMA SameAuthorizations ==
    ASSUME NEW f, \A i \in Slots(f) : SameSlot(i) /\ SameLease(i)
    PROVE  Authorizations(f)' = Authorizations(f)
  BY DEF Authorizations, Slots, SameSlot, SameLease

\* The rest of what is known of an instance depends on nothing else.
LEMMA SameInstance ==
    ASSUME NEW f \in Instances, InstanceOK(f),
           \A i \in Slots(f) : SameSlot(i) /\ SameLease(i),
           instances'[f] = instances[f],
           \A i \in Slots(f) : Held(i) /\ leases[i] = None => calls'[i.key] = calls[i.key]
    PROVE  InstanceOK(f)'
<1>1. Authorizations(f)' = Authorizations(f)
  BY SameAuthorizations
<1>2. OnePlace(f)'
  BY DEF InstanceOK, OnePlace, Slots, SameSlot
<1>3. Powered(f)'
  BY <1>1 DEF InstanceOK, Powered
<1>4. UnleasedOK(f)'
  <2> SUFFICES ASSUME NEW i \in Ids, Held(i)', leases'[i] = None, i.attempt = f
               PROVE  /\ InProgress(i.key)' /\ Instance(i.key)' = f
                      /\ calls'[i.key].pc \in {"load", "find", "reserve", "lease", "crashed"}
                      /\ Target(i.key)' \in Running
                      /\ instances'[f].state \notin Running
                      /\ Legal(f, Target(i.key), Now(i.key))'
    BY DEF UnleasedOK
  <2>1. Held(i) /\ leases[i] = None /\ calls'[i.key] = calls[i.key]
    BY DEF Slots, SameSlot, SameLease
  <2>2. /\ InProgress(i.key) /\ Instance(i.key) = f
        /\ calls[i.key].pc \in {"load", "find", "reserve", "lease", "crashed"}
        /\ Target(i.key) \in Running
        /\ instances[f].state \notin Running
        /\ Legal(f, Target(i.key), Now(i.key))
    BY <2>1 DEF InstanceOK, UnleasedOK
  <2> QED
    BY <2>1, <2>2 DEF InProgress, Instance, Target, Now, Legal
<1> QED
  BY <1>2, <1>3, <1>4 DEF InstanceOK

LEMMA SameSerialCall ==
    ASSUME NEW k \in Keys, SerialCall(k), calls'[k] = calls[k],
           instances'[Instance(k)] = instances[Instance(k)],
           k \in accepted' => k \in accepted,
           calls[k].pc = "free" => calls[k].id \in Slots(Instance(k)),
           \A i \in Slots(Instance(k)) : SameSlot(i) /\ SameLease(i)
    PROVE  SerialCall(k)'
<1>1. PICK f : f = Instance(k) /\ f = Instance(k)'
  BY DEF Instance
<1>2. Authorizations(f)' = Authorizations(f)
  BY <1>1, SameAuthorizations
<1>3. /\ Target(k)' = Target(k) /\ Now(k)' = Now(k)
      /\ Legal(f, Target(k), Now(k))' <=> Legal(f, Target(k), Now(k))
  BY <1>1 DEF Target, Now, Legal
<1>4. ASSUME calls[k].pc = "reserve", NEW i \in Ids, Held(i)', i.attempt = f
      PROVE  calls[k].pools \subseteq {i.worker}
  BY <1>1, <1>4 DEF SerialCall, Slots, SameSlot
<1>5. calls[k].pc = "free" => Held(calls[k].id)' /\ Live(calls[k].id)'
  <2> SUFFICES ASSUME calls[k].pc = "free" PROVE Held(calls[k].id)' /\ Live(calls[k].id)'
    OBVIOUS
  <2>1. PICK i \in Slots(f) : i = calls[k].id
    BY <1>1
  <2>2. Held(i) /\ Live(i)
    BY <2>1 DEF SerialCall
  <2>3. Held(i)' /\ Live(i)'
    BY <1>1, <2>2 DEF SameSlot, SameLease
  <2> QED
    BY <2>1, <2>3 DEF Held, Live
<1> QED
  BY <1>1, <1>2, <1>3, <1>4, <1>5 DEF SerialCall

\* What a step of call k leaves alone: the other calls and instances, and of
\* the other keys' reservations those without a lease.
OwnStep(k) ==
    /\ InProgress(k) /\ CallMoved(k)
    /\ instances' \in [Instances -> [state : States, updated_at : 0..MaxTime]]
    /\ \A g \in Instances : g # Instance(k) => instances'[g] = instances[g]
    /\ accepted \subseteq accepted' /\ accepted' \subseteq accepted \cup {k}
    /\ clock' = clock /\ crashes' \in 0..MaxCrashes
    /\ \A i \in Ids : i.attempt # Instance(k) => SameSlot(i) /\ SameLease(i)
    /\ \A i \in Ids : i.key # k =>
          /\ leases'[i] = None <=> leases[i] = None
          /\ Held(i)' => Held(i)
          /\ leases[i] = None /\ Held(i) => Held(i)'

\* What it has to establish.
OwnOK(k) ==
    /\ Stage(k) /\ ReservationOK(k)
    /\ Instance(k) \in Serialised =>
          InstanceOK(Instance(k)) /\ (InProgress(k) => SerialCall(k))

\* The other calls keep what they rely on.
LEMMA OthersKept ==
    ASSUME FleetInv, [Next]_vars, NEW k \in Keys, OwnStep(k),
           NEW j \in Keys, j # k, calls[j] # None
    PROVE  Stage(j)' /\ ReservationOK(j)'
<1>0. /\ FleetTypeOK /\ Stage(j) /\ ReservationOK(j)
  BY DEF FleetInv, FleetTypeOK, Stage, CallsOK
<1>1. calls'[j] = calls[j] /\ accepted \subseteq accepted'
  BY DEF OwnStep, CallMoved
<1>2. PICK f : f = Instance(j) /\ f = Instance(j)'
  BY <1>1 DEF Instance
<1>3. Target(j)' = Target(j)
  BY <1>1 DEF Target
<1>4. ASSUME calls[j].pc = "reserve", NEW i \in Ids, i.attempt = f, i.key = j, Held(i)'
      PROVE  leases'[i] = None
  BY <1>0, <1>2, <1>4 DEF OwnStep, CallMoved, ReservationOK
<1>5. calls[j].pc = "lease" => Held(calls[j].id)' /\ leases'[calls[j].id] = None
  <2> SUFFICES ASSUME calls[j].pc = "lease"
               PROVE  Held(calls[j].id)' /\ leases'[calls[j].id] = None
    OBVIOUS
  <2>1. PICK i \in Ids : i = calls[j].id
    BY <1>0 DEF ReservationOK
  <2>2. i.key = j /\ leases[i] = None /\ Held(i)
    BY <1>0, <2>1 DEF ReservationOK, Stage
  <2>3. leases'[i] = None /\ Held(i)'
    BY <2>2 DEF OwnStep, CallMoved
  <2>4. i = calls'[j].id
    BY <1>1, <2>1
  <2> QED
    BY <2>1, <2>3, <2>4 DEF Held
<1>6. calls[j].pc = "free" => leases'[calls[j].id] # None
  <2> SUFFICES ASSUME calls[j].pc = "free" PROVE leases'[calls[j].id] # None
    OBVIOUS
  <2>1. PICK i \in Ids : i = calls[j].id
    BY <1>0 DEF ReservationOK
  <2>2. leases[i] # None
    BY <1>0, <2>1 DEF ReservationOK
  <2>3. leases'[i] # None
    BY <2>2, FleetLedgerStep, LedgerStable DEF FleetInv
  <2> QED
    BY <2>1, <2>3
<1> QED
  BY <1>0, <1>1, <1>2, <1>3, <1>4, <1>5, <1>6 DEF Stage, ReservationOK

\* And so does the invariant.
LEMMA OwnStepKeeps ==
    ASSUME FleetInv, [Next]_vars, NEW k \in Keys, OwnStep(k), OwnOK(k)'
    PROVE  FleetInv'
<1>0. /\ LedgerInv /\ FleetTypeOK /\ TimesOK /\ RoomToRelease /\ CallsOK /\ AcceptedOK
      /\ OneCall /\ SerialCalls /\ SerialInstances
  BY DEF FleetInv
<1>1. PICK f \in Instances : f = Instance(k) /\ f = Instance(k)'
  BY <1>0 DEF OwnStep, CallMoved, Instance, FleetTypeOK, Call, InProgress
<1>2. /\ calls'[k] # None /\ InProgress(k)
      /\ \A j \in Keys : j # k => calls'[j] = calls[j]
      /\ \A j \in Keys : calls[j] # None => calls'[j] # None
      /\ \A j \in Keys : calls'[j] # None => calls[j] # None
  BY DEF OwnStep, CallMoved, InProgress
<1>3. \A j \in Keys : /\ Instance(j)' = Instance(j) /\ Now(j)' = Now(j)
                      /\ InProgress(j)' => InProgress(j)
  BY <1>2 DEF OwnStep, CallMoved, Instance, Now, InProgress
<1>4. ASSUME NEW j \in Keys, calls'[j] # None
      PROVE  Stage(j)' /\ ReservationOK(j)'
  BY <1>2, <1>4, OthersKept DEF OwnOK
<1>5. FleetTypeOK'
  <2>1. \A w \in Workers : beats'[w] # None => leases'[beats'[w].id] # None
    BY BeatsStep
  <2>2. \A j \in Keys : calls'[j] # None =>
          /\ calls'[j].pc = "reserve" => calls'[j].pools # {}
          /\ calls'[j].pc = "lease" => Held(calls[j].id)'
          /\ calls'[j].pc \in {"release", "free"} => j \in accepted'
    BY <1>4 DEF Stage
  <2>3. beats' \in [Workers -> Beat \cup {None}]
    BY BeatsStep
  <2>4. accepted' \subseteq Keys
    BY <1>0 DEF OwnStep, CallMoved, FleetTypeOK
  <2> QED
    BY <2>1, <2>2, <2>3, <2>4 DEF OwnStep, CallMoved, FleetTypeOK
<1>6. TimesOK' /\ RoomToRelease'
  BY <1>0, <1>2, <1>3, BeatsStep, RoomStep DEF TimesOK, RoomToRelease, OwnStep, CallMoved
<1>7. CallsOK' /\ AcceptedOK'
  BY <1>0, <1>2, <1>4 DEF CallsOK, AcceptedOK, OwnStep, CallMoved, FleetTypeOK
<1>8. OneCall'
  BY <1>0, <1>3 DEF OneCall
<1>9. SerialCalls'
  <2> SUFFICES ASSUME NEW j \in Keys, InProgress(j)', Instance(j)' \in Serialised
               PROVE  SerialCall(j)'
    BY DEF SerialCalls
  <2>1. CASE j = k
    BY <2>1 DEF OwnOK
  <2>2. CASE j # k
    <3>1. InProgress(j) /\ Instance(j) \in Serialised /\ SerialCall(j)
      BY <1>0, <1>3 DEF SerialCalls
    <3>2. Instance(j) # f /\ Instance(j) \in Instances
      BY <1>0, <1>1, <1>2, <2>2, <3>1, FleetAssumption DEF OneCall
    <3>3. calls[j].pc = "free" => calls[j].id \in Slots(Instance(j))
      BY <1>0, <3>1 DEF CallsOK, ReservationOK, InProgress, Slots
    <3>4. /\ calls'[j] = calls[j] /\ instances'[Instance(j)] = instances[Instance(j)]
          /\ j \in accepted' => j \in accepted
          /\ \A i \in Slots(Instance(j)) : SameSlot(i) /\ SameLease(i)
      BY <1>1, <2>2, <3>2 DEF OwnStep, CallMoved, Slots
    <3> QED
      BY <3>1, <3>3, <3>4, SameSerialCall
  <2> QED
    BY <2>1, <2>2
<1>10. SerialInstances'
  <2> SUFFICES ASSUME NEW g \in Serialised PROVE InstanceOK(g)'
    BY DEF SerialInstances
  <2>1. g \in Instances /\ InstanceOK(g)
    BY <1>0, FleetAssumption DEF SerialInstances
  <2>2. CASE g = f
    BY <1>1, <2>2 DEF OwnOK
  <2>3. CASE g # f
    <3>1. /\ instances'[g] = instances[g]
          /\ \A i \in Slots(g) : SameSlot(i) /\ SameLease(i)
      BY <1>1, <2>1, <2>3 DEF OwnStep, CallMoved, Slots
    <3>2. ASSUME NEW i \in Slots(g), Held(i), leases[i] = None
          PROVE  calls'[i.key] = calls[i.key]
      <4>1. i \in Ids /\ i.attempt = g /\ i.key \in Keys
        BY DEF Slots, Ids
      <4>2. Instance(i.key) = g
        BY <2>1, <3>2, <4>1 DEF InstanceOK, UnleasedOK
      <4> QED
        BY <1>1, <1>2, <2>3, <4>1, <4>2
    <3> QED
      BY <2>1, <3>1, <3>2, SameInstance
  <2> QED
    BY <2>2, <2>3
<1> QED
  BY <1>5, <1>6, <1>7, <1>8, <1>9, <1>10, FleetLedgerInv, LeasedStep DEF FleetInv

----------------------------------------------------------------------------
(* The steps of a call, one by one.                                        *)

NoUnleased(f) == \A i \in Ids : ~(Held(i) /\ leases[i] = None /\ i.attempt = f)

Leasing == {"load", "find", "reserve", "lease", "crashed"}

\* A slot without lease belongs to the one call of its instance.
LEMMA UnleasedIsOwn ==
    ASSUME FleetInv, NEW k \in Keys, InProgress(k), Instance(k) \in Serialised,
           NEW i \in Ids, Held(i), leases[i] = None, i.attempt = Instance(k)
    PROVE  /\ i.key = k /\ calls[k].pc \in Leasing /\ Target(k) \in Running
           /\ instances[Instance(k)].state \notin Running
           /\ Legal(Instance(k), Target(k), Now(k))
<1>1. i.key \in Keys
  BY DEF Ids
<1>2. InProgress(i.key) /\ Instance(i.key) = Instance(k)
  BY DEF FleetInv, SerialInstances, InstanceOK, UnleasedOK
<1>3. i.key = k
  BY <1>1, <1>2 DEF FleetInv, OneCall
<1> QED
  BY <1>3 DEF FleetInv, SerialInstances, InstanceOK, UnleasedOK, Leasing

\* All slots an instance of a serialising client holds are one.
LEMMA OneSlot ==
    ASSUME FleetInv, NEW i \in Ids, NEW j \in Ids, Held(i), Held(j),
           i.attempt = j.attempt, i.attempt \in Serialised
    PROVE  i = j
<1>1. i.worker = j.worker
  BY DEF FleetInv, SerialInstances, InstanceOK, OnePlace
<1> QED
  BY <1>1 DEF FleetInv, LedgerInv, SerialCapacity, SamePool

\* A step of a call that writes its own row only.
LEMMA QuietOwnStep ==
    ASSUME FleetInv, NEW k \in Keys, InProgress(k), CallMoved(k), UNCHANGED <<ledgerVars, instances>>,
           accepted \subseteq accepted', accepted' \subseteq accepted \cup {k},
           crashes' \in 0..MaxCrashes
    PROVE  OwnStep(k)
<1>1. clock' = clock /\ UNCHANGED ledger
  BY DEF ledgerVars
<1>2. instances' \in [Instances -> [state : States, updated_at : 0..MaxTime]]
  BY DEF FleetInv, FleetTypeOK
<1>3. \A i \in Ids : SameSlot(i) /\ SameLease(i)
  BY <1>1, QuietView
<1> QED
  BY <1>1, <1>2, <1>3 DEF OwnStep, SameSlot, SameLease

\* It keeps what is known of the instance unless it abandons a slot.
LEMMA QuietInstance ==
    ASSUME FleetInv, NEW k \in Keys, InProgress(k), CallMoved(k), UNCHANGED <<ledgerVars, instances>>,
           Instance(k) \in Serialised,
           calls'[k].pc \in Leasing \/ NoUnleased(Instance(k))
    PROVE  InstanceOK(Instance(k))'
<1>0. PICK f : f = Instance(k) /\ f = Instance(k)'
  BY DEF CallMoved, Instance
<1>1. InstanceOK(f)
  BY <1>0 DEF FleetInv, SerialInstances
<1>2. \A i \in Ids : SameSlot(i) /\ SameLease(i)
  BY QuietView DEF ledgerVars
<1>3. Authorizations(f)' = Authorizations(f)
  BY <1>2, SameAuthorizations DEF Slots
<1>4. OnePlace(f)' /\ Powered(f)'
  BY <1>1, <1>2, <1>3 DEF InstanceOK, OnePlace, Powered, SameSlot
<1>5. UnleasedOK(f)'
  <2> SUFFICES ASSUME NEW i \in Ids, Held(i)', leases'[i] = None, i.attempt = f
               PROVE  /\ InProgress(i.key)' /\ Instance(i.key)' = f
                      /\ calls'[i.key].pc \in {"load", "find", "reserve", "lease", "crashed"}
                      /\ Target(i.key)' \in Running
                      /\ instances'[f].state \notin Running
                      /\ Legal(f, Target(i.key), Now(i.key))'
    BY DEF UnleasedOK
  <2>1. Held(i) /\ leases[i] = None
    BY <1>2 DEF SameSlot, SameLease
  <2>2. /\ i.key = k /\ Target(k) \in Running
        /\ instances[f].state \notin Running
        /\ Legal(f, Target(k), Now(k))
    BY <1>0, <2>1, UnleasedIsOwn
  <2>3. calls'[k].pc \in Leasing
    BY <1>0, <2>1 DEF NoUnleased
  <2>4. calls'[k] # None /\ Target(k)' = Target(k) /\ Now(k)' = Now(k)
    BY DEF CallMoved, Target, Now
  <2> QED
    BY <1>0, <2>2, <2>3, <2>4 DEF InProgress, Leasing, Ended, Legal
<1> QED
  BY <1>0, <1>4, <1>5 DEF InstanceOK

\* A call that ends, leaving no slot without lease behind.
LEMMA EndedOK ==
    ASSUME FleetInv, NEW k \in Keys, InProgress(k), CallMoved(k), UNCHANGED <<ledgerVars, instances>>,
           calls'[k].pc \in Ended,
           Instance(k) \in Serialised => NoUnleased(Instance(k))
    PROVE  OwnOK(k)'
<1>1. Instance(k)' = Instance(k)
  BY DEF CallMoved, Instance
<1>2. Stage(k)' /\ ReservationOK(k)' /\ ~InProgress(k)'
  BY DEF Stage, ReservationOK, InProgress, Ended
<1>3. Instance(k) \in Serialised => InstanceOK(Instance(k))'
  BY QuietInstance
<1> QED
  BY <1>1, <1>2, <1>3 DEF OwnOK

\* The facts a call takes along when only its own row changes.
LEMMA QuietCall ==
    ASSUME FleetInv, NEW k \in Keys, InProgress(k), CallMoved(k), UNCHANGED <<ledgerVars, instances>>,
           Instance(k) \in Serialised, NEW f \in Instances, f = Instance(k)
    PROVE  /\ Instance(k)' = f /\ Target(k)' = Target(k) /\ Now(k)' = Now(k)
           /\ Legal(f, Target(k), Now(k))' <=> Legal(f, Target(k), Now(k))
           /\ instances'[f] = instances[f]
           /\ Authorizations(f)' = Authorizations(f)
           /\ SerialCall(k)
<1>1. Instance(k)' = f /\ Target(k)' = Target(k) /\ Now(k)' = Now(k)
  BY DEF CallMoved, Instance, Target, Now
<1>2. Legal(f, Target(k), Now(k))' <=> Legal(f, Target(k), Now(k))
  BY <1>1 DEF Legal
<1>3. Authorizations(f)' = Authorizations(f)
  BY QuietView, SameAuthorizations DEF ledgerVars, Slots
<1> QED
  BY <1>1, <1>2, <1>3 DEF FleetInv, SerialCalls

\* A call in progress is a row of the type.
LEMMA CallTyped ==
    ASSUME FleetInv, NEW k \in Keys, calls[k] # None
    PROVE  /\ calls[k] \in Call /\ Instance(k) \in Instances
           /\ Target(k) \in States \ {"created"} /\ Now(k) \in 0..MaxTime /\ Now(k) \in Nat
           /\ FleetTypeOK /\ Stage(k) /\ ReservationOK(k)
<1>1. FleetTypeOK /\ Stage(k) /\ ReservationOK(k)
  BY DEF FleetInv, FleetTypeOK, Stage, CallsOK
<1>2. calls[k] \in Call
  BY <1>1 DEF FleetTypeOK
<1> QED
  BY <1>1, <1>2, DurationAssumption DEF Call, Instance, Target, Now

\* load_instance
LEMMA LoadOwn ==
    ASSUME FleetInv, NEW k \in Keys, LoadInstance(k)
    PROVE  OwnStep(k) /\ OwnOK(k)'
<1>1. /\ calls[k] # None /\ calls[k].pc = "load" /\ InProgress(k)
      /\ UNCHANGED <<ledgerVars, instances, accepted, beats, crashes>>
  BY DEF LoadInstance, At, InProgress, Ended
<1>2. FleetTypeOK /\ Instance(k) \in Instances
  BY <1>1, CallTyped
<1>3. PICK pc \in {"find", "transition"} :
        /\ Goto(k, pc)
        /\ pc = "find" <=> /\ Target(k) \in Running
                           /\ \/ Target(k) = instances[Instance(k)].state
                              \/ Legal(Instance(k), Target(k), Now(k))
  BY DEF LoadInstance
<1>4. CallMoved(k) /\ calls'[k].pc = pc
  BY <1>1, <1>2, <1>3, GotoCall DEF Underway
<1>5. OwnStep(k)
  BY <1>1, <1>2, <1>4, QuietOwnStep DEF FleetTypeOK
<1>6. Target(k)' = Target(k)
  BY <1>4 DEF CallMoved, Target
<1>7. Stage(k)' /\ ReservationOK(k)'
  BY <1>3, <1>4, <1>6 DEF Stage, ReservationOK
<1>8. ASSUME Instance(k) \in Serialised
      PROVE  InstanceOK(Instance(k))' /\ SerialCall(k)' /\ Instance(k)' = Instance(k)
  <2>1. PICK f \in Instances : f = Instance(k)
    BY <1>2
  <2>2. /\ Instance(k)' = f /\ Target(k)' = Target(k) /\ Now(k)' = Now(k)
        /\ Legal(f, Target(k), Now(k))' <=> Legal(f, Target(k), Now(k))
        /\ instances'[f] = instances[f]
        /\ Authorizations(f)' = Authorizations(f)
        /\ SerialCall(k)
    BY <1>1, <1>4, <1>8, <2>1, QuietCall
  <2>3. SerialCall(k)'
    BY <1>1, <1>3, <1>4, <2>1, <2>2 DEF SerialCall
  <2>4. pc \in Leasing \/ NoUnleased(f)
    BY <1>1, <1>3, <1>8, <2>1, UnleasedIsOwn DEF NoUnleased, Leasing
  <2>5. InstanceOK(Instance(k))'
    BY <1>1, <1>4, <1>8, <2>1, <2>4, QuietInstance
  <2> QED
    BY <2>1, <2>2, <2>3, <2>5
<1> QED
  BY <1>5, <1>7, <1>8 DEF OwnOK, OwnStep, CallMoved, Instance

\* The process of the call dies.
LEMMA CrashOwn ==
    ASSUME FleetInv, NEW k \in Keys, CrashCall(k) \/ Resend(k)
    PROVE  OwnStep(k) /\ OwnOK(k)'
<1>1. /\ calls[k] # None /\ InProgress(k)
      /\ UNCHANGED <<ledgerVars, instances, accepted, beats>>
  BY DEF CrashCall, Resend, At, InProgress, Ended
<1>2. FleetTypeOK /\ Instance(k) \in Instances
  BY <1>1, CallTyped
<1>3. PICK pc \in {"load", "crashed"} : Goto(k, pc)
  BY DEF CrashCall, Resend
<1>4. CallMoved(k) /\ calls'[k].pc = pc
  BY <1>1, <1>2, <1>3, GotoCall DEF Underway
<1>5. crashes' \in 0..MaxCrashes
  BY <1>2, FleetAssumption DEF CrashCall, Resend, FleetTypeOK
<1>6. OwnStep(k)
  BY <1>1, <1>4, <1>5, QuietOwnStep
<1>7. Stage(k)' /\ ReservationOK(k)'
  BY <1>3, <1>4 DEF Stage, ReservationOK
<1>8. ASSUME Instance(k) \in Serialised
      PROVE  InstanceOK(Instance(k))' /\ SerialCall(k)' /\ Instance(k)' = Instance(k)
  <2>1. PICK f \in Instances : f = Instance(k)
    BY <1>2
  <2>2. /\ Instance(k)' = f /\ Target(k)' = Target(k)
        /\ instances'[f] = instances[f]
        /\ SerialCall(k)
    BY <1>1, <1>4, <1>8, <2>1, QuietCall
  <2>3. SerialCall(k)'
    BY <1>1, <1>3, <1>4, <2>1, <2>2 DEF SerialCall
  <2>5. InstanceOK(Instance(k))'
    BY <1>1, <1>3, <1>4, <1>8, QuietInstance DEF Leasing
  <2> QED
    BY <2>1, <2>2, <2>3, <2>5
<1> QED
  BY <1>6, <1>7, <1>8 DEF OwnOK, OwnStep, CallMoved, Instance

\* The ranking is kept in the call.
LEMMA PoolsCall ==
    ASSUME FleetTypeOK, NEW k \in Keys, calls[k] # None, NEW P \in SUBSET Workers,
           NEW O \in SUBSET (Workers \X Workers),
           calls' = [calls EXCEPT ![k].pc = "reserve", ![k].pools = P, ![k].order = O]
    PROVE  CallMoved(k) /\ calls'[k].pc = "reserve" /\ calls'[k].pools = P
<1> DEFINE d == [calls[k] EXCEPT !.pc = "reserve", !.pools = P, !.order = O]
<1>1. calls[k] \in Call /\ calls \in [Keys -> Call \cup {None}]
  BY DEF FleetTypeOK
<1>2. /\ d \in Call /\ d.pc = "reserve" /\ d.pools = P /\ d.instance = calls[k].instance
      /\ d.target = calls[k].target /\ d.now = calls[k].now
  BY <1>1 DEF Call, Underway
<1>3. calls'[k] = d /\ \A j \in Keys : j # k => calls'[j] = calls[j]
  BY <1>1
<1>4. calls' \in [Keys -> Call \cup {None}] /\ d # None
  <2> HIDE DEF d
  <2>1. calls' = [j \in Keys |-> IF j = k THEN d ELSE calls[j]]
    BY <1>1 DEF d
  <2>2. d \in Call /\ d # None
    BY <1>2, FleetAssumption
  <2> QED
    BY <1>1, <2>1, <2>2
<1> HIDE DEF d
<1> QED
  BY <1>2, <1>3, <1>4 DEF CallMoved, Instance, Target, Now

\* The id of the reservation is kept in the call.
LEMMA IdCall ==
    ASSUME FleetTypeOK, NEW k \in Keys, calls[k] # None, NEW i \in Ids,
           calls' = [calls EXCEPT ![k].pc = "lease", ![k].id = i]
    PROVE  CallMoved(k) /\ calls'[k].pc = "lease" /\ calls'[k].id = i
<1> DEFINE d == [calls[k] EXCEPT !.pc = "lease", !.id = i]
<1>1. calls[k] \in Call /\ calls \in [Keys -> Call \cup {None}]
  BY DEF FleetTypeOK
<1>2. /\ d \in Call /\ d.pc = "lease" /\ d.id = i /\ d.instance = calls[k].instance
      /\ d.target = calls[k].target /\ d.now = calls[k].now
  BY <1>1 DEF Call, Underway
<1>3. calls'[k] = d /\ \A j \in Keys : j # k => calls'[j] = calls[j]
  BY <1>1
<1>4. calls' \in [Keys -> Call \cup {None}] /\ d # None
  <2> HIDE DEF d
  <2>1. calls' = [calls EXCEPT ![k] = d]
    BY <1>1 DEF d
  <2> QED
    BY <1>1, <1>2, <2>1, FleetAssumption
<1> HIDE DEF d
<1> QED
  BY <1>2, <1>3, <1>4 DEF CallMoved, Instance, Target, Now

\* The release to write is kept in the call.
LEMMA SeqCall ==
    ASSUME FleetTypeOK, NEW k \in Keys, calls[k] # None, NEW i \in Ids, NEW n \in 0..MaxObservations,
           calls' = [calls EXCEPT ![k].pc = "free", ![k].id = i, ![k].seq = n]
    PROVE  CallMoved(k) /\ calls'[k].pc = "free" /\ calls'[k].id = i /\ calls'[k].seq = n
<1> DEFINE d == [calls[k] EXCEPT !.pc = "free", !.id = i, !.seq = n]
<1>1. calls[k] \in Call /\ calls \in [Keys -> Call \cup {None}]
  BY DEF FleetTypeOK
<1>2. /\ d \in Call /\ d.pc = "free" /\ d.id = i /\ d.seq = n
      /\ d.instance = calls[k].instance
      /\ d.target = calls[k].target /\ d.now = calls[k].now
  BY <1>1 DEF Call, Underway
<1>3. calls'[k] = d /\ \A j \in Keys : j # k => calls'[j] = calls[j]
  BY <1>1
<1>4. calls' \in [Keys -> Call \cup {None}] /\ d # None
  <2> HIDE DEF d
  <2>1. calls' = [j \in Keys |-> IF j = k THEN d ELSE calls[j]]
    BY <1>1 DEF d
  <2>2. d \in Call /\ d # None
    BY <1>2, FleetAssumption
  <2> QED
    BY <1>1, <2>1, <2>2
<1> HIDE DEF d
<1> QED
  BY <1>2, <1>3, <1>4 DEF CallMoved, Instance, Target, Now

\* The loop over the ranking drops a pool.
LEMMA NextPoolCall ==
    ASSUME FleetTypeOK, NEW k \in Keys, calls[k] # None, NEW w \in Workers,
           calls' = [calls EXCEPT ![k].pools = @ \ {w}]
    PROVE  CallMoved(k) /\ calls'[k].pc = calls[k].pc /\ calls'[k].pools = calls[k].pools \ {w}
<1> DEFINE d == [calls[k] EXCEPT !.pools = calls[k].pools \ {w}]
<1>1. calls[k] \in Call /\ calls \in [Keys -> Call \cup {None}]
  BY DEF FleetTypeOK
<1>2. /\ d \in Call /\ d.pc = calls[k].pc /\ d.pools = calls[k].pools \ {w}
      /\ d.instance = calls[k].instance
      /\ d.target = calls[k].target /\ d.now = calls[k].now
  BY <1>1 DEF Call
<1>3. calls'[k] = d /\ \A j \in Keys : j # k => calls'[j] = calls[j]
  BY <1>1
<1>4. calls' \in [Keys -> Call \cup {None}] /\ d # None
  <2> HIDE DEF d
  <2>1. calls' = [calls EXCEPT ![k] = d]
    BY <1>1 DEF d
  <2> QED
    BY <1>1, <1>2, <2>1, FleetAssumption
<1> HIDE DEF d
<1> QED
  BY <1>2, <1>3, <1>4 DEF CallMoved, Instance, Target, Now

\* Fleet acquire: a slot without lease sends the call back to its own worker.
LEMMA FindOwn ==
    ASSUME FleetInv, NEW k \in Keys, FindWorker(k)
    PROVE  OwnStep(k) /\ OwnOK(k)'
<1>1. /\ calls[k] # None /\ calls[k].pc = "find" /\ InProgress(k)
      /\ UNCHANGED <<ledgerVars, instances, accepted, beats, crashes>>
  BY DEF FindWorker, At, InProgress, Ended
<1>2. FleetTypeOK /\ Instance(k) \in Instances /\ Target(k) \in Running
  BY <1>1, CallTyped DEF ReservationOK
<1>3. PICK f \in Instances : f = Instance(k)
  BY <1>2
<1>p. Rank(f) \in SUBSET Workers /\ Order(f) \in SUBSET (Workers \X Workers)
  BY DEF Rank, Reserved, Idle, Order
<1>4. \/ \E pc \in {"transition", "failed"} : Authorizations(f) # {} /\ Goto(k, pc)
      \/ /\ Authorizations(f) = {} /\ Goto(k, "failed")
         /\ Rank(f) = {} \/ Cardinality(Reserved(f)) > 1
      \/ /\ Authorizations(f) = {} /\ Rank(f) # {}
         /\ calls' = [calls EXCEPT ![k].pc = "reserve", ![k].pools = Rank(f),
                                   ![k].order = Order(f)]
  BY <1>3 DEF FindWorker
<1>5. ASSUME CallMoved(k) PROVE OwnStep(k)
  BY <1>1, <1>2, <1>5, QuietOwnStep DEF FleetTypeOK
<1>6. ASSUME f \in Serialised, NEW j \in Ids, Held(j), j.attempt = f
      PROVE  Reserved(f) = {j.worker}
  <2>1. j.worker \in Workers
    BY DEF Ids
  <2>2. ASSUME NEW w \in Reserved(f) PROVE w = j.worker
    <3>1. PICK i \in Ids : Held(i) /\ i.worker = w /\ i.attempt = f
      BY DEF Reserved
    <3> QED
      BY <1>6, <3>1, OneSlot
  <2> QED
    BY <1>6, <2>1, <2>2 DEF Reserved
<1>7. ASSUME NEW pc \in {"transition", "failed"}, Authorizations(f) # {}, Goto(k, pc)
      PROVE  OwnStep(k) /\ OwnOK(k)'
  <2>1. CallMoved(k) /\ calls'[k].pc = pc
    BY <1>1, <1>2, <1>7, GotoCall DEF Underway, Ended
  <2>2. Stage(k)' /\ ReservationOK(k)'
    BY <1>7, <2>1 DEF Stage, ReservationOK
  <2>3. ASSUME f \in Serialised PROVE NoUnleased(f)
    BY <1>7, <2>3, OneSlot DEF Authorizations, NoUnleased, Live
  <2>4. ASSUME f \in Serialised
        PROVE  InstanceOK(Instance(k))' /\ SerialCall(k)' /\ Instance(k)' = f
    <3>1. /\ Instance(k)' = f /\ Target(k)' = Target(k)
          /\ instances'[f] = instances[f] /\ Authorizations(f)' = Authorizations(f)
          /\ SerialCall(k)
      BY <1>1, <1>3, <2>1, <2>4, QuietCall
    <3>2. SerialCall(k)'
      BY <1>1, <1>3, <1>7, <2>1, <3>1 DEF SerialCall
    <3>3. InstanceOK(Instance(k))'
      BY <1>1, <1>3, <2>1, <2>3, <2>4, QuietInstance
    <3> QED
      BY <3>1, <3>2, <3>3
  <2> QED
    BY <1>3, <1>5, <2>1, <2>2, <2>4 DEF OwnOK, CallMoved, Instance
<1>8. ASSUME Authorizations(f) = {}, Goto(k, "failed"),
             Rank(f) = {} \/ Cardinality(Reserved(f)) > 1
      PROVE  OwnStep(k) /\ OwnOK(k)'
  <2>1. CallMoved(k) /\ calls'[k].pc = "failed"
    BY <1>1, <1>2, <1>8, GotoCall DEF Ended
  <2>2. ASSUME f \in Serialised PROVE NoUnleased(f)
    <3> SUFFICES ASSUME NEW j \in Ids, Held(j), j.attempt = f PROVE FALSE
      BY DEF NoUnleased
    <3>1. Reserved(f) = {j.worker}
      BY <1>6, <2>2
    <3>2. Cardinality(Reserved(f)) = 1
      BY <3>1, FS_Singleton
    <3> QED
      BY <1>8, <3>1, <3>2 DEF Rank
  <2> QED
    BY <1>1, <1>3, <1>5, <2>1, <2>2, EndedOK DEF Ended
<1>9. ASSUME Authorizations(f) = {}, Rank(f) # {},
             calls' = [calls EXCEPT ![k].pc = "reserve", ![k].pools = Rank(f),
                                    ![k].order = Order(f)]
      PROVE  OwnStep(k) /\ OwnOK(k)'
  <2>1. PICK P \in SUBSET Workers : P = Rank(f)
    BY <1>p
  <2>o. PICK O \in SUBSET (Workers \X Workers) : O = Order(f)
    BY <1>p
  <2>2. CallMoved(k) /\ calls'[k].pc = "reserve" /\ calls'[k].pools = P
    BY <1>1, <1>2, <1>9, <2>1, <2>o, PoolsCall
  <2>3. /\ Instance(k)' = f /\ Target(k)' = Target(k)
        /\ \A i \in Ids : SameSlot(i) /\ SameLease(i)
    BY <1>1, <1>3, <2>2, QuietView DEF CallMoved, Instance, Target, ledgerVars
  <2>4. ASSUME NEW i \in Ids, Held(i), i.attempt = f PROVE leases[i] = None
    BY <1>9, <2>4, HeldIsLive DEF Authorizations, FleetInv
  <2>5. Stage(k)' /\ ReservationOK(k)'
    BY <1>2, <1>9, <2>1, <2>2, <2>3, <2>4 DEF Stage, ReservationOK, SameSlot, SameLease
  <2>6. ASSUME f \in Serialised
        PROVE  InstanceOK(Instance(k))' /\ SerialCall(k)'
    <3>1. /\ Now(k)' = Now(k)
          /\ Legal(f, Target(k), Now(k))' <=> Legal(f, Target(k), Now(k))
          /\ instances'[f] = instances[f] /\ SerialCall(k)
      BY <1>1, <1>3, <2>2, <2>6, QuietCall
    <3>2. instances[f].state \notin Running
      BY <1>9, <2>6 DEF FleetInv, SerialInstances, InstanceOK, Powered
    <3>3. Legal(f, Target(k), Now(k))
      BY <1>1, <1>3, <3>1, <3>2 DEF SerialCall
    <3>4. ASSUME NEW i \in Ids, Held(i)', i.attempt = f PROVE P \subseteq {i.worker}
      <4>1. Held(i)
        BY <2>3, <3>4 DEF SameSlot
      <4>2. Reserved(f) = {i.worker}
        BY <1>6, <2>6, <3>4, <4>1
      <4> QED
        BY <2>1, <4>2 DEF Rank
    <3>5. SerialCall(k)'
      BY <1>1, <1>2, <1>3, <2>2, <2>3, <3>1, <3>2, <3>3, <3>4 DEF SerialCall, Running
    <3>6. InstanceOK(Instance(k))'
      BY <1>1, <1>3, <2>2, <2>6, QuietInstance DEF Leasing
    <3> QED
      BY <3>5, <3>6
  <2> QED
    BY <1>5, <2>2, <2>3, <2>5, <2>6 DEF OwnOK
<1> QED
  BY <1>4, <1>7, <1>8, <1>9

\* Fleet release reads what it will free.
LEMMA FindReleaseOwn ==
    ASSUME FleetInv, NEW k \in Keys, FindRelease(k)
    PROVE  OwnStep(k) /\ OwnOK(k)'
<1>1. /\ calls[k] # None /\ calls[k].pc = "release" /\ InProgress(k)
      /\ UNCHANGED <<ledgerVars, instances, accepted, beats, crashes>>
  BY DEF FindRelease, At, InProgress, Ended
<1>2. /\ FleetTypeOK /\ Instance(k) \in Instances
      /\ Target(k) \in {"paused", "stopped"} /\ k \in accepted
  BY <1>1, CallTyped DEF ReservationOK, Stage
<1>3. PICK f \in Instances : f = Instance(k)
  BY <1>2
<1>4. \/ Goto(k, "answered")
      \/ \E i \in Authorizations(f) :
            calls' = [calls EXCEPT ![k].pc = "free", ![k].id = i, ![k].seq = LastSequence(i) + 1]
  BY <1>3 DEF FindRelease
<1>5. ASSUME CallMoved(k) PROVE OwnStep(k)
  BY <1>1, <1>2, <1>5, QuietOwnStep DEF FleetTypeOK
<1>6. f \in Serialised => NoUnleased(f)
  BY <1>1, <1>3, UnleasedIsOwn DEF NoUnleased, Leasing
<1>7. CASE Goto(k, "answered")
  <2>1. CallMoved(k) /\ calls'[k].pc = "answered"
    BY <1>1, <1>2, <1>7, GotoCall DEF Ended
  <2> QED
    BY <1>1, <1>3, <1>5, <1>6, <2>1, EndedOK DEF Ended
<1>8. ASSUME NEW i \in Authorizations(f),
             calls' = [calls EXCEPT ![k].pc = "free", ![k].id = i, ![k].seq = LastSequence(i) + 1]
      PROVE  OwnStep(k) /\ OwnOK(k)'
  <2>1. i \in Ids /\ i.attempt = f /\ Held(i) /\ Live(i)
    BY DEF Authorizations
  <2>2. LastSequence(i) \in Nat /\ LastSequence(i) < MaxObservations
    BY <2>1 DEF FleetInv, RoomToRelease, LastSequence, LedgerInv, LedgerTypeOK
  <2>3. PICK n \in 0..MaxObservations : n = LastSequence(i) + 1 /\ n >= 1
    BY <2>2, DurationAssumption
  <2>4. CallMoved(k) /\ calls'[k].pc = "free" /\ calls'[k].id = i /\ calls'[k].seq = n
    <3>1. calls' = [calls EXCEPT ![k].pc = "free", ![k].id = i, ![k].seq = n]
      BY <1>8, <2>3
    <3> QED
      BY <1>1, <1>2, <2>1, <2>3, <3>1, SeqCall
  <2>5. /\ Instance(k)' = f /\ Target(k)' = Target(k)
        /\ \A j \in Ids : SameSlot(j) /\ SameLease(j)
    BY <1>1, <1>3, <2>4, QuietView DEF CallMoved, Instance, Target, ledgerVars
  <2>6. Held(i)' /\ Live(i)' /\ leases'[i] # None
    BY <2>1, <2>5 DEF SameSlot, SameLease, Live
  <2>7. Stage(k)' /\ ReservationOK(k)'
    BY <1>1, <1>2, <2>1, <2>3, <2>4, <2>5, <2>6 DEF Stage, ReservationOK
  <2>8. ASSUME f \in Serialised
        PROVE  InstanceOK(Instance(k))' /\ SerialCall(k)'
    <3>1. instances'[f] = instances[f] /\ SerialCall(k)
      BY <1>1, <1>3, <2>4, <2>8, QuietCall
    <3>2. Held(calls[k].id)' /\ Live(calls[k].id)'
      BY <2>4, <2>6 DEF Held, Live
    <3>3. SerialCall(k)'
      BY <1>1, <1>3, <2>4, <2>5, <3>1, <3>2 DEF SerialCall
    <3>4. InstanceOK(Instance(k))'
      BY <1>1, <1>3, <1>6, <2>4, <2>8, QuietInstance
    <3> QED
      BY <3>3, <3>4
  <2> QED
    BY <1>5, <2>4, <2>5, <2>7, <2>8 DEF OwnOK
<1> QED
  BY <1>4, <1>7, <1>8

\* postgres_forward_state.py:transition: the instance starts to run only when
\* its call has found or leased a worker.
LEMMA TransitionOwn ==
    ASSUME FleetInv, NEW k \in Keys, Transition(k)
    PROVE  OwnStep(k) /\ OwnOK(k)'
<1>1. /\ calls[k] # None /\ calls[k].pc = "transition" /\ InProgress(k)
      /\ UNCHANGED <<ledgerVars, beats, crashes>>
  BY DEF Transition, At, InProgress, Ended
<1>2. /\ FleetTypeOK /\ Target(k) \in States \ {"created"} /\ Now(k) \in 0..MaxTime
  BY <1>1, CallTyped
<1>3. PICK f \in Instances : f = Instance(k)
  BY <1>1, CallTyped
<1>4. AfterTransition(k) \in {"release", "answered"}
  BY DEF AfterTransition
<1>5. PICK pc \in {"release", "answered", "conflict"} :
        /\ Goto(k, pc)
        /\ pc = "release" => Target(k) \in {"paused", "stopped"} /\ accepted' = accepted \cup {k}
        /\ accepted \subseteq accepted' /\ accepted' \subseteq accepted \cup {k}
  BY <1>4 DEF Transition, AfterTransition
<1>6. CallMoved(k) /\ calls'[k].pc = pc
  BY <1>1, <1>2, <1>5, GotoCall DEF Underway, Ended
<1>7. /\ Instance(k)' = f /\ Target(k)' = Target(k)
      /\ clock' = clock /\ UNCHANGED ledger
      /\ \A i \in Ids : SameSlot(i) /\ SameLease(i)
  BY <1>1, <1>3, <1>6, QuietView DEF CallMoved, Instance, Target, ledgerVars
<1>8. Stage(k)' /\ ReservationOK(k)'
  BY <1>5, <1>6, <1>7 DEF Stage, ReservationOK
<1>9. f \in Serialised => NoUnleased(f) /\ SerialCall(k)
  BY <1>1, <1>3, UnleasedIsOwn DEF NoUnleased, Leasing, FleetInv, SerialCalls
<1>10. \/ /\ k \in accepted \/ instances[f].state = Target(k)
          /\ UNCHANGED instances
       \/ /\ Legal(f, Target(k), Now(k))
          /\ instances' = [instances EXCEPT ![f] = [state |-> Target(k), updated_at |-> Now(k)]]
       \/ pc = "conflict" /\ UNCHANGED instances
  <2>1. Goto(k, "conflict") => pc = "conflict"
    BY <1>1, <1>2, <1>6, GotoCall DEF Ended
  <2> QED
    BY <1>3, <2>1 DEF Transition
<1>11. CASE /\ UNCHANGED instances
            /\ k \in accepted \/ instances[f].state = Target(k) \/ pc = "conflict"
  <2>1. crashes' \in 0..MaxCrashes
    BY <1>1, <1>2 DEF FleetTypeOK
  <2>2. OwnStep(k)
    BY <1>1, <1>5, <1>6, <1>11, <2>1, QuietOwnStep
  <2>3. f \in Serialised => InstanceOK(f)'
    BY <1>1, <1>3, <1>6, <1>7, <1>9, <1>11, QuietInstance
  <2>4. f \in Serialised /\ InProgress(k)' => SerialCall(k)'
    BY <1>1, <1>3, <1>5, <1>6, <1>7, <1>9, <1>11 DEF SerialCall, InProgress, Ended
  <2> QED
    BY <1>7, <1>8, <2>2, <2>3, <2>4 DEF OwnOK
<1>12. CASE /\ Legal(f, Target(k), Now(k))
            /\ instances' = [instances EXCEPT ![f] = [state |-> Target(k), updated_at |-> Now(k)]]
  <2>1. /\ instances \in [Instances -> [state : States, updated_at : 0..MaxTime]]
        /\ crashes' \in 0..MaxCrashes
    BY <1>1, <1>2 DEF FleetTypeOK
  <2>2. /\ instances'[f].state = Target(k)
        /\ \A g \in Instances : g # f => instances'[g] = instances[g]
        /\ instances' \in [Instances -> [state : States, updated_at : 0..MaxTime]]
    BY <1>2, <1>12, <2>1
  <2>3. OwnStep(k)
    BY <1>1, <1>3, <1>5, <1>6, <1>7, <2>1, <2>2 DEF OwnStep, SameSlot, SameLease
  <2>4. ASSUME f \in Serialised PROVE InstanceOK(f)'
    <3>1. Authorizations(f)' = Authorizations(f)
      BY <1>7, SameAuthorizations DEF Slots
    <3>2. OnePlace(f)'
      BY <1>7, <2>4 DEF FleetInv, SerialInstances, InstanceOK, OnePlace, SameSlot
    <3>3. Powered(f)'
      BY <1>1, <1>3, <1>9, <1>12, <2>2, <2>4, <3>1 DEF Powered, SerialCall
    <3>4. UnleasedOK(f)'
      BY <1>7, <1>9, <2>4 DEF UnleasedOK, NoUnleased, SameSlot, SameLease
    <3> QED
      BY <3>2, <3>3, <3>4 DEF InstanceOK
  <2>5. f \in Serialised /\ InProgress(k)' => SerialCall(k)'
    BY <1>5, <1>6, <1>7, <2>2 DEF SerialCall, InProgress, Ended
  <2> QED
    BY <1>7, <1>8, <2>3, <2>4, <2>5 DEF OwnOK
<1> QED
  BY <1>10, <1>11, <1>12

\* Coordinator acquire, the reservation.
LEMMA ReserveOwn ==
    ASSUME FleetInv, NEW k \in Keys, NEW w \in Workers, ReserveWorker(k, w)
    PROVE  OwnStep(k) /\ OwnOK(k)'
<1>1. /\ calls[k] # None /\ calls[k].pc = "reserve" /\ InProgress(k)
      /\ w \in calls[k].pools
      /\ UNCHANGED <<clock, leases, applied, instances, accepted, beats, crashes>>
  BY DEF ReserveWorker, At, InProgress, Ended
<1>2. /\ FleetTypeOK /\ ReservationOK(k) /\ Stage(k) /\ Target(k) \in Running
      /\ Now(k) \in Nat /\ LedgerInv
  BY <1>1, CallTyped DEF ReservationOK, FleetInv
<1>3. PICK f \in Instances : f = Instance(k)
  BY <1>1, CallTyped
<1>4. PICK i \in Ids : i = KeyId(k, w) /\ i.attempt = f /\ i.key = k /\ i.worker = w
  <2>1. KeyId(k, w) = [attempt |-> f, worker |-> w, key |-> k]
    BY <1>3 DEF KeyId
  <2>2. [attempt |-> f, worker |-> w, key |-> k] \in Ids
    BY DEF Ids, Instances
  <2> QED
    BY <2>1, <2>2
<1>5. ASSUME f \in Serialised
      PROVE  /\ SerialCall(k)
             /\ \A j \in Ids : Held(j) /\ j.attempt = f => j.worker = w
             /\ \A j \in Ids : Held(j) /\ j.attempt = f /\ leases[j] = None => j = i
  <2>1. SerialCall(k)
    BY <1>1, <1>3, <1>5 DEF FleetInv, SerialCalls
  <2>2. \A j \in Ids : Held(j) /\ j.attempt = f => j.worker = w
    BY <1>1, <1>3, <2>1 DEF SerialCall
  <2>3. ASSUME NEW j \in Ids, Held(j), j.attempt = f, leases[j] = None
        PROVE  j = i
    <3>1. j.key = k /\ j.worker = w
      BY <1>1, <1>3, <1>5, <2>2, <2>3, UnleasedIsOwn
    <3> QED
      BY <1>4, <2>3, <3>1 DEF Ids
  <2> QED
    BY <2>1, <2>2, <2>3
<1>6. \/ /\ Held(i) /\ calls' = [calls EXCEPT ![k].pc = "lease", ![k].id = i]
         /\ UNCHANGED reservations
      \/ /\ ~Held(i) /\ Goto(k, "failed") /\ UNCHANGED reservations
      \/ /\ Reserve(i, Now(k)) /\ calls' = [calls EXCEPT ![k].pc = "lease", ![k].id = i]
      \/ /\ ~Held(i) /\ UNCHANGED reservations
         /\ calls[k].pools # {w} /\ calls' = [calls EXCEPT ![k].pools = @ \ {w}]
  BY <1>4 DEF ReserveWorker, NextPool, Held
<1>7. ASSUME UNCHANGED reservations, CallMoved(k)
      PROVE  OwnStep(k) /\ UNCHANGED ledgerVars
  <2>1. UNCHANGED ledgerVars
    BY <1>1, <1>7 DEF ledgerVars, ledger
  <2> QED
    BY <1>1, <1>2, <1>7, <2>1, QuietOwnStep DEF FleetTypeOK
<1>8. CASE ~Held(i) /\ Goto(k, "failed") /\ UNCHANGED reservations
  <2>1. CallMoved(k) /\ calls'[k].pc = "failed"
    BY <1>1, <1>2, <1>8, GotoCall DEF Ended
  <2>2. f \in Serialised => NoUnleased(f)
    BY <1>5, <1>8 DEF NoUnleased
  <2> QED
    BY <1>1, <1>3, <1>7, <1>8, <2>1, <2>2, EndedOK DEF Ended
<1>9. CASE /\ ~Held(i) /\ UNCHANGED reservations
           /\ calls[k].pools # {w} /\ calls' = [calls EXCEPT ![k].pools = @ \ {w}]
  <2>1. CallMoved(k) /\ calls'[k].pc = "reserve" /\ calls'[k].pools = calls[k].pools \ {w}
    BY <1>1, <1>2, <1>9, NextPoolCall
  <2>2. OwnStep(k) /\ UNCHANGED ledgerVars
    BY <1>7, <1>9, <2>1
  <2>3. /\ Instance(k)' = f /\ Target(k)' = Target(k)
        /\ \A j \in Ids : SameSlot(j) /\ SameLease(j)
    BY <1>3, <2>1, <2>2, QuietView DEF CallMoved, Instance, Target, ledgerVars
  <2>4. calls'[k].pools # {}
    BY <1>1, <1>9, <2>1
  <2>5. Stage(k)' /\ ReservationOK(k)'
    BY <1>1, <1>2, <1>3, <2>1, <2>3, <2>4 DEF Stage, ReservationOK, SameSlot, SameLease
  <2>6. ASSUME f \in Serialised PROVE InstanceOK(f)' /\ SerialCall(k)'
    <3>1. /\ Now(k)' = Now(k)
          /\ Legal(f, Target(k), Now(k))' <=> Legal(f, Target(k), Now(k))
          /\ instances'[f] = instances[f] /\ SerialCall(k)
      BY <1>1, <1>3, <2>1, <2>2, <2>6, QuietCall
    <3>2. ASSUME NEW j \in Ids, Held(j)', j.attempt = f PROVE calls'[k].pools \subseteq {j.worker}
      <4>1. calls[k].pools \subseteq {j.worker}
        BY <1>1, <1>3, <2>3, <3>1, <3>2 DEF SerialCall, SameSlot
      <4> QED
        BY <2>1, <4>1
    <3>3. SerialCall(k)'
      BY <1>1, <1>2, <1>3, <2>1, <2>3, <3>1, <3>2 DEF SerialCall, Running
    <3>4. InstanceOK(f)'
      BY <1>1, <1>3, <2>1, <2>2, <2>3, <2>6, QuietInstance DEF Leasing
    <3> QED
      BY <3>3, <3>4
  <2> QED
    BY <2>2, <2>3, <2>5, <2>6 DEF OwnOK
<1>10. CASE Held(i) /\ calls' = [calls EXCEPT ![k].pc = "lease", ![k].id = i] /\ UNCHANGED reservations
  <2>1. CallMoved(k) /\ calls'[k].pc = "lease" /\ calls'[k].id = i
    BY <1>1, <1>2, <1>10, IdCall
  <2>2. OwnStep(k) /\ UNCHANGED ledgerVars
    BY <1>7, <1>10, <2>1
  <2>3. /\ Instance(k)' = f /\ Target(k)' = Target(k)
        /\ \A j \in Ids : SameSlot(j) /\ SameLease(j)
    BY <1>3, <2>1, <2>2, QuietView DEF CallMoved, Instance, Target, ledgerVars
  <2>4. Held(i)' /\ leases'[i] = None
    BY <1>1, <1>2, <1>3, <1>4, <1>10, <2>3 DEF ReservationOK, SameSlot, SameLease
  <2>5. Stage(k)' /\ ReservationOK(k)'
    BY <1>2, <1>4, <2>1, <2>3, <2>4 DEF Stage, ReservationOK, Held
  <2>6. ASSUME f \in Serialised PROVE InstanceOK(f)' /\ SerialCall(k)'
    <3>1. /\ Now(k)' = Now(k)
          /\ Legal(f, Target(k), Now(k))' <=> Legal(f, Target(k), Now(k))
          /\ instances'[f] = instances[f] /\ SerialCall(k)
      BY <1>1, <1>3, <2>1, <2>2, <2>6, QuietCall
    <3>2. SerialCall(k)'
      BY <1>1, <1>2, <1>3, <2>1, <2>3, <3>1 DEF SerialCall, Running
    <3>3. InstanceOK(f)'
      BY <1>1, <1>3, <2>1, <2>2, <2>3, <2>6, QuietInstance DEF Leasing
    <3> QED
      BY <3>2, <3>3
  <2> QED
    BY <2>2, <2>3, <2>5, <2>6 DEF OwnOK
<1>11. CASE Reserve(i, Now(k)) /\ calls' = [calls EXCEPT ![k].pc = "lease", ![k].id = i]
  <2>1. CallMoved(k) /\ calls'[k].pc = "lease" /\ calls'[k].id = i
    BY <1>1, <1>2, <1>11, IdCall
  <2>2. PICK t \in Nat : t = Now(k)
    BY <1>2
  <2>3. /\ Reserve(i, t) /\ UNCHANGED <<leases, applied>>
    BY <1>1, <1>11, <2>2
  <2>4. /\ reservations[i] = None /\ ~Held(i) /\ Held(i)'
        /\ \A j \in Ids : /\ j # i => SameSlot(j)
                          /\ j.worker = w => ~Held(j)
                          /\ SameLease(j)
    BY <1>2, <1>4, <2>3, ReserveView
  <2>5. leases[i] = None /\ leases'[i] = None
    BY <1>1, <2>4 DEF FleetInv, LeasedIsReserved
  <2>6. /\ Instance(k)' = f /\ Target(k)' = Target(k) /\ Now(k)' = Now(k)
        /\ Legal(f, Target(k), Now(k))' <=> Legal(f, Target(k), Now(k))
    BY <1>1, <1>3, <2>1 DEF CallMoved, Instance, Target, Now, Legal
  <2>7. /\ instances' \in [Instances -> [state : States, updated_at : 0..MaxTime]]
        /\ crashes' \in 0..MaxCrashes
    BY <1>1, <1>2 DEF FleetTypeOK
  <2>8. OwnStep(k)
    BY <1>1, <1>3, <1>4, <2>1, <2>4, <2>7 DEF OwnStep, SameSlot, SameLease
  <2>9. Stage(k)' /\ ReservationOK(k)'
    BY <1>2, <1>4, <2>1, <2>4, <2>5, <2>6 DEF Stage, ReservationOK, Held
  <2>10. ASSUME f \in Serialised PROVE InstanceOK(f)' /\ SerialCall(k)'
    <3>1. /\ SerialCall(k) /\ instances[f].state \notin Running
          /\ Legal(f, Target(k), Now(k)) /\ instances'[f] = instances[f]
      BY <1>1, <1>3, <1>5, <2>10 DEF SerialCall
    <3>2. ASSUME NEW j \in Ids, Held(j)', j.attempt = f PROVE j = i
      BY <1>5, <2>4, <2>10, <3>2 DEF SameSlot
    <3>3. OnePlace(f)' /\ Powered(f)'
      BY <3>1, <3>2 DEF OnePlace, Powered
    <3>4. InProgress(k)' /\ calls'[k].pc \in {"load", "find", "reserve", "lease", "crashed"}
      BY <2>1 DEF InProgress, Ended, CallMoved
    <3>5. UnleasedOK(f)'
      BY <1>2, <1>4, <2>6, <3>1, <3>2, <3>4 DEF UnleasedOK
    <3>6. SerialCall(k)'
      BY <1>1, <1>2, <1>3, <2>1, <2>6, <3>1 DEF SerialCall, Running
    <3> QED
      BY <3>3, <3>5, <3>6 DEF InstanceOK
  <2> QED
    BY <2>6, <2>8, <2>9, <2>10 DEF OwnOK
<1> QED
  BY <1>6, <1>8, <1>9, <1>10, <1>11

\* Coordinator acquire, the lease: the instance has its worker from here on.
LEMMA PersistOwn ==
    ASSUME FleetInv, NEW k \in Keys, PersistForwardLease(k)
    PROVE  OwnStep(k) /\ OwnOK(k)'
<1>1. /\ calls[k] # None /\ calls[k].pc = "lease" /\ InProgress(k) /\ Goto(k, "transition")
      /\ UNCHANGED <<clock, reservations, applied, instances, accepted, beats, crashes>>
  BY DEF PersistForwardLease, At, InProgress, Ended
<1>2. /\ FleetTypeOK /\ ReservationOK(k) /\ Stage(k) /\ Target(k) \in Running /\ LedgerInv
  BY <1>1, CallTyped DEF ReservationOK, FleetInv
<1>3. PICK f \in Instances, t \in Nat : f = Instance(k) /\ t = Now(k)
  BY <1>1, CallTyped
<1>4. PICK i \in Ids : i = calls[k].id /\ i.key = k /\ i.attempt = f /\ Held(i)
  BY <1>1, <1>2, <1>3 DEF ReservationOK, Stage
<1>5. PersistLease(i, t)
  BY <1>3, <1>4 DEF PersistForwardLease
<1>6. CallMoved(k) /\ calls'[k].pc = "transition"
  BY <1>1, <1>2, GotoCall DEF Underway
<1>7. /\ leases'[i] # None /\ Live(i)'
      /\ \A j \in Ids : SameSlot(j) /\ (j # i => SameLease(j))
  BY <1>1, <1>2, <1>5, PersistView
<1>8. Instance(k)' = f /\ Target(k)' = Target(k)
  BY <1>3, <1>6 DEF CallMoved, Instance, Target
<1>9. /\ instances' \in [Instances -> [state : States, updated_at : 0..MaxTime]]
      /\ crashes' \in 0..MaxCrashes
  BY <1>1, <1>2 DEF FleetTypeOK
<1>10. OwnStep(k)
  BY <1>1, <1>3, <1>4, <1>6, <1>7, <1>9 DEF OwnStep, SameSlot, SameLease
<1>11. Stage(k)' /\ ReservationOK(k)'
  BY <1>6 DEF Stage, ReservationOK
<1>12. i \in Authorizations(f)'
  BY <1>4, <1>7 DEF Authorizations, SameSlot
<1>13. ASSUME f \in Serialised PROVE InstanceOK(f)' /\ SerialCall(k)'
  <2>1. OnePlace(f)'
    BY <1>7, <1>13 DEF FleetInv, SerialInstances, InstanceOK, OnePlace, SameSlot
  <2>2. Powered(f)'
    BY <1>12 DEF Powered
  <2>3. ASSUME NEW j \in Ids, Held(j)', j.attempt = f PROVE j = i
    <3>1. Held(j)
      BY <1>7, <2>3 DEF SameSlot
    <3> QED
      BY <1>4, <1>13, <2>3, <3>1, OneSlot
  <2>4. UnleasedOK(f)'
    BY <1>7, <2>3 DEF UnleasedOK
  <2>5. SerialCall(k)'
    BY <1>2, <1>6, <1>8, <1>12 DEF SerialCall, Running
  <2> QED
    BY <2>1, <2>2, <2>4, <2>5 DEF InstanceOK
<1> QED
  BY <1>8, <1>10, <1>11, <1>13 DEF OwnOK

\* Coordinator release: the instance has stopped running when its slot is freed.
LEMMA FreeOwn ==
    ASSUME FleetInv, NEW k \in Keys, FreeWorker(k)
    PROVE  OwnStep(k) /\ OwnOK(k)'
<1>1. /\ calls[k] # None /\ calls[k].pc = "free" /\ InProgress(k)
      /\ UNCHANGED <<clock, instances, accepted, beats, crashes>>
  BY DEF FreeWorker, At, InProgress, Ended
<1>2. /\ FleetTypeOK /\ ReservationOK(k) /\ Stage(k) /\ LedgerInv
      /\ Target(k) \in {"paused", "stopped"} /\ k \in accepted
  BY <1>1, CallTyped DEF ReservationOK, Stage, FleetInv
<1>3. PICK f \in Instances, t \in Nat, i \in Ids, n \in Nat :
        /\ f = Instance(k) /\ t = Now(k) /\ i = calls[k].id /\ n = calls[k].seq
        /\ i.attempt = f /\ leases[i] # None
  <2>1. calls[k] \in Call /\ Instance(k) \in Instances /\ Now(k) \in Nat
    BY <1>1, CallTyped
  <2>2. calls[k].id \in Ids /\ calls[k].seq \in Nat
    BY <1>1, <1>2, <2>1, DurationAssumption DEF ReservationOK, Call
  <2>3. calls[k].id.attempt = Instance(k) /\ leases[calls[k].id] # None
    BY <1>1, <1>2 DEF ReservationOK
  <2> QED
    BY <2>1, <2>2, <2>3
<1>4. PICK pc \in {"answered", "failed"} :
        /\ Goto(k, pc)
        /\ \/ UNCHANGED ledger
           \/ ReleaseCapacity(i, ReleaseObservation(n, t, "forward"))
  BY <1>3 DEF FreeWorker
<1>5. CallMoved(k) /\ calls'[k].pc = pc
  BY <1>1, <1>2, <1>4, GotoCall DEF Ended
<1>6. f \in Serialised => NoUnleased(f)
  BY <1>1, <1>3, UnleasedIsOwn DEF NoUnleased, Leasing
<1>7. CASE UNCHANGED ledger
  <2>1. UNCHANGED ledgerVars /\ crashes' \in 0..MaxCrashes
    BY <1>1, <1>2, <1>7 DEF ledgerVars, FleetTypeOK
  <2>2. OwnStep(k)
    BY <1>1, <1>5, <2>1, QuietOwnStep
  <2> QED
    BY <1>1, <1>3, <1>4, <1>5, <1>6, <2>1, <2>2, EndedOK DEF Ended
<1>8. CASE ReleaseCapacity(i, ReleaseObservation(n, t, "forward"))
  <2>1. "forward" \in Origins
    BY FleetAssumption
  <2>2. /\ ~Held(i)' /\ leases'[i] # None
        /\ \A j \in Ids : j # i => SameSlot(j) /\ SameLease(j)
    BY <1>2, <1>8, <2>1, ReleaseView
  <2>3. Instance(k)' = f
    BY <1>3, <1>5 DEF CallMoved, Instance
  <2>4. /\ instances' \in [Instances -> [state : States, updated_at : 0..MaxTime]]
        /\ crashes' \in 0..MaxCrashes
    BY <1>1, <1>2 DEF FleetTypeOK
  <2>5. OwnStep(k)
    BY <1>1, <1>3, <1>5, <2>2, <2>4 DEF OwnStep, SameSlot, SameLease
  <2>6. Stage(k)' /\ ReservationOK(k)' /\ ~InProgress(k)'
    BY <1>4, <1>5 DEF Stage, ReservationOK, InProgress, Ended
  <2>7. ASSUME f \in Serialised PROVE InstanceOK(f)'
    <3>1. OnePlace(f)'
      BY <2>2, <2>7 DEF FleetInv, SerialInstances, InstanceOK, OnePlace, SameSlot
    <3>2. SerialCall(k)
      BY <1>1, <1>3, <2>7 DEF FleetInv, SerialCalls
    <3>3. Powered(f)'
      BY <1>1, <1>2, <1>3, <3>2 DEF SerialCall, Powered, Running
    <3>4. UnleasedOK(f)'
      BY <1>6, <2>2, <2>7 DEF UnleasedOK, NoUnleased, SameSlot, SameLease
    <3> QED
      BY <3>1, <3>3, <3>4 DEF InstanceOK
  <2> QED
    BY <2>3, <2>5, <2>6, <2>7 DEF OwnOK
<1> QED
  BY <1>4, <1>7, <1>8

----------------------------------------------------------------------------
(* The other steps.                                                        *)

\* A step of the workers or of the clock: no call moves, no slot changes hands.
WorkerStep ==
    /\ UNCHANGED <<accepted, calls, crashes>>
    /\ \A i \in Ids : SameSlot(i) /\ SameLease(i)
    /\ clock' \in 0..MaxTime /\ clock <= clock'
    /\ instances' \in [Instances -> [state : States, updated_at : 0..MaxTime]]

\* An instance changes at most from warming up to active.
Warmed(f) ==
    \/ instances'[f] = instances[f]
    \/ instances[f].state = "warming_up" /\ instances'[f].state = "active"

LEMMA WorkerStepKeeps ==
    ASSUME FleetInv, [Next]_vars, WorkerStep, \A f \in Instances : Warmed(f)
    PROVE  FleetInv'
<1>0. /\ LedgerInv /\ FleetTypeOK /\ TimesOK /\ RoomToRelease /\ CallsOK /\ AcceptedOK
      /\ OneCall /\ SerialCalls /\ SerialInstances
  BY DEF FleetInv
<1>1. calls' = calls /\ accepted' = accepted /\ crashes' = crashes
  BY DEF WorkerStep
<1>2. \A k \in Keys : /\ Instance(k)' = Instance(k) /\ Target(k)' = Target(k) /\ Now(k)' = Now(k)
                      /\ InProgress(k)' <=> InProgress(k)
  BY <1>1 DEF Instance, Target, Now, InProgress
<1>3. ASSUME NEW k \in Keys, calls[k] # None
      PROVE  Stage(k)' /\ ReservationOK(k)' /\ Now(k)' <= clock'
  <2>1. Stage(k) /\ ReservationOK(k) /\ Now(k) \in Nat
    BY <1>3, CallTyped
  <2>2. calls[k].pc = "lease" => Held(calls[k].id)'
    <3> SUFFICES ASSUME calls[k].pc = "lease" PROVE Held(calls[k].id)'
      OBVIOUS
    <3>1. PICK i \in Ids : i = calls[k].id /\ Held(i)
      BY <2>1 DEF Stage, ReservationOK
    <3>2. Held(i)'
      BY <3>1 DEF WorkerStep, SameSlot
    <3> QED
      BY <1>1, <3>1, <3>2 DEF Held
  <2>3. Stage(k)'
    BY <1>1, <2>1, <2>2 DEF Stage
  <2>4. ReservationOK(k)'
    BY <1>1, <1>2, <2>1 DEF ReservationOK, WorkerStep, SameSlot, SameLease
  <2>5. Now(k) <= clock /\ clock <= clock' /\ clock \in Nat /\ clock' \in Nat
    BY <1>0, <1>3, DurationAssumption DEF TimesOK, WorkerStep
  <2> QED
    BY <1>2, <2>1, <2>3, <2>4, <2>5
<1>4. FleetTypeOK'
  <2>1. /\ beats' \in [Workers -> Beat \cup {None}]
        /\ \A w \in Workers : beats'[w] # None => leases'[beats'[w].id] # None
    BY BeatsStep
  <2>2. \A k \in Keys : calls'[k] # None =>
          /\ calls'[k].pc = "reserve" => calls'[k].pools # {}
          /\ calls'[k].pc = "lease" => Held(calls[k].id)'
          /\ calls'[k].pc \in {"release", "free"} => k \in accepted'
    BY <1>1, <1>3 DEF Stage
  <2> QED
    BY <1>0, <1>1, <2>1, <2>2 DEF FleetTypeOK, WorkerStep
<1>5. TimesOK' /\ RoomToRelease' /\ CallsOK' /\ AcceptedOK' /\ OneCall'
  <2>1. TimesOK' /\ RoomToRelease'
    BY <1>1, <1>3, BeatsStep, RoomStep DEF TimesOK, RoomToRelease, WorkerStep
  <2> QED
    BY <1>0, <1>1, <1>2, <1>3, <2>1 DEF CallsOK, AcceptedOK, OneCall
<1>6. \A f \in Instances : Authorizations(f)' = Authorizations(f)
  BY SameAuthorizations DEF WorkerStep, Slots
<1>7. SerialCalls'
  <2> SUFFICES ASSUME NEW k \in Keys, InProgress(k), Instance(k) \in Serialised
               PROVE  SerialCall(k)'
    BY <1>2 DEF SerialCalls
  <2>1. PICK f \in Instances : f = Instance(k)
    BY FleetAssumption
  <2>2. SerialCall(k) /\ calls'[k] = calls[k]
    BY <1>0, <1>1 DEF SerialCalls
  <2>3. CASE instances'[f] = instances[f]
    <3>1. calls[k].pc = "free" => calls[k].id \in Slots(Instance(k))
      BY <1>0 DEF CallsOK, ReservationOK, InProgress, Slots
    <3> QED
      BY <1>1, <2>1, <2>2, <2>3, <3>1, SameSerialCall DEF WorkerStep, Slots
  <2>4. CASE instances[f].state = "warming_up" /\ instances'[f].state = "active"
    <3>1. calls[k].pc \notin {"reserve", "lease"}
      BY <2>1, <2>2, <2>4 DEF SerialCall, Running
    <3>2. Target(k) \in Running => ~Legal(f, Target(k), Now(k))'
      BY <1>2, <2>4 DEF Legal, Transitions, Running
    <3>3. ~(k \in accepted /\ Target(k) \in {"paused", "stopped"})
      BY <2>1, <2>2, <2>4 DEF SerialCall
    <3>4. calls[k].pc # "free"
      <4>1. calls[k] # None
        BY DEF InProgress
      <4>2. Stage(k) /\ ReservationOK(k)
        BY <4>1, CallTyped
      <4> QED
        BY <3>3, <4>2 DEF Stage, ReservationOK
    <3> QED
      BY <1>1, <1>2, <1>6, <2>1, <2>2, <2>4, <3>1, <3>2, <3>3, <3>4 DEF SerialCall, Running
  <2> QED
    BY <2>1, <2>3, <2>4 DEF Warmed
<1>8. SerialInstances'
  <2> SUFFICES ASSUME NEW f \in Serialised PROVE InstanceOK(f)'
    BY DEF SerialInstances
  <2>1. f \in Instances /\ InstanceOK(f)
    BY <1>0, FleetAssumption DEF SerialInstances
  <2>2. CASE instances'[f] = instances[f]
    BY <1>1, <2>1, <2>2, SameInstance DEF WorkerStep, Slots
  <2>3. CASE instances[f].state = "warming_up" /\ instances'[f].state = "active"
    <3>1. OnePlace(f)'
      BY <2>1 DEF InstanceOK, OnePlace, WorkerStep, SameSlot
    <3>2. Powered(f)'
      BY <1>6, <2>1, <2>3 DEF InstanceOK, Powered, Running
    <3>3. UnleasedOK(f)'
      BY <2>1, <2>3 DEF InstanceOK, UnleasedOK, Running, WorkerStep, SameSlot, SameLease
    <3> QED
      BY <3>1, <3>2, <3>3 DEF InstanceOK
  <2> QED
    BY <2>1, <2>2, <2>3 DEF Warmed
<1> QED
  BY <1>4, <1>5, <1>7, <1>8, FleetLedgerInv, LeasedStep DEF FleetInv

\* The workers' own steps and the clock have that shape.
LEMMA WorkerSteps ==
    ASSUME FleetInv,
           \/ \E f \in Instances : CompleteWarmup(f)
           \/ \E w \in Workers : WriteHeartbeat(w) \/ \E i \in Ids : PrepareHeartbeat(w, i)
           \/ Time \/ UNCHANGED vars
    PROVE  WorkerStep /\ \A f \in Instances : Warmed(f)
<1>0. /\ LedgerInv /\ FleetTypeOK /\ clock \in 0..MaxTime /\ clock \in Nat
      /\ instances \in [Instances -> [state : States, updated_at : 0..MaxTime]]
  BY DurationAssumption DEF FleetInv, TimesOK, FleetTypeOK
<1>1. ASSUME UNCHANGED <<ledger, instances, accepted, calls, crashes>>,
             clock' \in 0..MaxTime, clock <= clock'
      PROVE  WorkerStep /\ \A f \in Instances : Warmed(f)
  BY <1>0, <1>1, QuietView DEF WorkerStep, Warmed
<1>2. ASSUME NEW f \in Instances, CompleteWarmup(f)
      PROVE  WorkerStep /\ \A g \in Instances : Warmed(g)
  <2>1. /\ instances[f].state = "warming_up" /\ UNCHANGED <<ledgerVars, accepted, calls, crashes>>
        /\ instances' = [instances EXCEPT ![f] = [state |-> "active", updated_at |-> clock]]
    BY <1>2 DEF CompleteWarmup
  <2>2. [state |-> "active", updated_at |-> clock] \in [state : States, updated_at : 0..MaxTime]
    BY <1>0 DEF States
  <2>3. /\ instances' \in [Instances -> [state : States, updated_at : 0..MaxTime]]
        /\ \A g \in Instances : g # f => instances'[g] = instances[g]
        /\ instances'[f].state = "active"
    BY <1>0, <2>1, <2>2
  <2>4. UNCHANGED ledger /\ clock' = clock
    BY <2>1 DEF ledgerVars
  <2>5. \A i \in Ids : SameSlot(i) /\ SameLease(i)
    BY <2>4, QuietView
  <2> QED
    BY <1>0, <2>1, <2>3, <2>4, <2>5 DEF WorkerStep, Warmed
<1>3. ASSUME NEW w \in Workers, WriteHeartbeat(w)
      PROVE  WorkerStep /\ \A f \in Instances : Warmed(f)
  <2>1. beats[w] \in Beat /\ "forward" \in Origins
    BY <1>0, <1>3, FleetAssumption DEF WriteHeartbeat, FleetTypeOK
  <2>2. PICK i \in Ids, t \in Nat, n \in Nat :
          i = beats[w].id /\ t = beats[w].at /\ n = beats[w].seq
    BY <2>1, DurationAssumption DEF Beat
  <2>3. /\ UNCHANGED <<clock, reservations, instances, accepted, calls, crashes>>
        /\ \/ Observe(i, HeartbeatObservation(n, t, "forward"))
           \/ UNCHANGED <<leases, applied>>
    BY <1>3, <2>2 DEF WriteHeartbeat
  <2>4. CASE UNCHANGED <<leases, applied>>
    BY <1>0, <1>1, <2>3, <2>4 DEF ledger
  <2>5. CASE Observe(i, HeartbeatObservation(n, t, "forward"))
    <3>1. \A j \in Ids : SameSlot(j) /\ SameLease(j)
      BY <1>0, <2>1, <2>3, <2>5, HeartbeatView
    <3> QED
      BY <1>0, <2>3, <3>1 DEF WorkerStep, Warmed
  <2> QED
    BY <2>3, <2>4, <2>5
<1>4. ASSUME NEW w \in Workers, NEW i \in Ids, PrepareHeartbeat(w, i)
      PROVE  WorkerStep /\ \A f \in Instances : Warmed(f)
  BY <1>0, <1>1, <1>4 DEF PrepareHeartbeat, ledgerVars
<1>5. ASSUME Time
      PROVE  WorkerStep /\ \A f \in Instances : Warmed(f)
  BY <1>0, <1>1, <1>5, DurationAssumption DEF Time, Tick, fleetVars
<1>6. ASSUME UNCHANGED vars
      PROVE  WorkerStep /\ \A f \in Instances : Warmed(f)
  BY <1>0, <1>1, <1>6 DEF vars, fleetVars, ledgerVars
<1> QED
  BY <1>2, <1>3, <1>4, <1>5, <1>6

\* A new request: its key was never accepted, and a serialising client has no
\* other call for the instance.
LEMMA BeginKeeps ==
    ASSUME FleetInv, [Next]_vars, NEW k \in Keys, NEW f \in Instances,
           NEW s \in States \ {"created"}, Begin(k, f, s)
    PROVE  FleetInv'
<1>0. /\ LedgerInv /\ FleetTypeOK /\ TimesOK /\ RoomToRelease /\ CallsOK /\ AcceptedOK
      /\ OneCall /\ SerialCalls /\ SerialInstances
  BY DEF FleetInv
<1>1. /\ calls[k] = None /\ UNCHANGED <<ledgerVars, instances, accepted, beats, crashes>>
      /\ f \in Serialised => \A j \in Keys : InProgress(j) => Instance(j) # f
  BY DEF Begin
<1>2. PICK c : c = [pc |-> "load", instance |-> f, target |-> s, now |-> clock,
                    pools |-> {}, order |-> {}, id |-> None, seq |-> 0]
  OBVIOUS
<1>3. /\ c \in Call /\ c.pc = "load" /\ c.instance = f /\ c.now = clock /\ c.target = s
  BY <1>0, <1>2, DurationAssumption DEF Call, Underway, TimesOK
<1>4. calls' = [calls EXCEPT ![k] = c] /\ calls \in [Keys -> Call \cup {None}]
  BY <1>0, <1>2 DEF Begin, FleetTypeOK
<1>5. /\ calls' \in [Keys -> Call \cup {None}] /\ calls'[k] = c /\ c # None
      /\ \A j \in Keys : j # k => calls'[j] = calls[j]
  BY <1>3, <1>4, FleetAssumption
<1>6. UNCHANGED ledger /\ clock' = clock
  BY <1>1 DEF ledgerVars
<1>7. \A i \in Ids : SameSlot(i) /\ SameLease(i)
  BY <1>6, QuietView
<1>8. k \notin accepted
  BY <1>0, <1>1 DEF AcceptedOK
<1>9. ASSUME NEW j \in Keys, calls'[j] # None
      PROVE  Stage(j)' /\ ReservationOK(j)' /\ Now(j)' <= clock'
  <2>1. CASE j = k
    BY <1>0, <1>3, <1>5, <1>6, <2>1, DurationAssumption DEF Stage, ReservationOK, Now, TimesOK
  <2>2. CASE j # k
    <3>1. calls'[j] = calls[j] /\ calls[j] # None
      BY <1>5, <1>9, <2>2
    <3>2. Stage(j) /\ ReservationOK(j) /\ Now(j) <= clock
      BY <1>0, <3>1, CallTyped DEF TimesOK
    <3> QED
      BY <1>1, <1>6, <3>1, <3>2
         DEF Stage, ReservationOK, Now, Instance, Target, Held, ledger
  <2> QED
    BY <2>1, <2>2
<1>10. FleetTypeOK'
  <2>1. /\ beats' \in [Workers -> Beat \cup {None}]
        /\ \A w \in Workers : beats'[w] # None => leases'[beats'[w].id] # None
    BY BeatsStep
  <2>2. \A j \in Keys : calls'[j] # None =>
          /\ calls'[j].pc = "reserve" => calls'[j].pools # {}
          /\ calls'[j].pc = "lease" => Held(calls[j].id)'
          /\ calls'[j].pc \in {"release", "free"} => j \in accepted'
    BY <1>9 DEF Stage
  <2> QED
    BY <1>0, <1>1, <1>5, <2>1, <2>2 DEF FleetTypeOK
<1>11. TimesOK' /\ RoomToRelease' /\ CallsOK'
  BY <1>0, <1>6, <1>9, BeatsStep, RoomStep DEF TimesOK, RoomToRelease, CallsOK
<1>12. AcceptedOK'
  BY <1>0, <1>1, <1>5 DEF AcceptedOK, FleetTypeOK
<1>13. \A j \in Keys : j # k => /\ InProgress(j)' <=> InProgress(j)
                                /\ Instance(j)' = Instance(j)
  BY <1>5 DEF InProgress, Instance
<1>14. InProgress(k)' /\ Instance(k)' = f
  BY <1>3, <1>5 DEF InProgress, Instance, Ended
<1>15. OneCall'
  BY <1>0, <1>1, <1>13, <1>14 DEF OneCall
<1>16. SerialCalls'
  <2> SUFFICES ASSUME NEW j \in Keys, InProgress(j)', Instance(j)' \in Serialised
               PROVE  SerialCall(j)'
    BY DEF SerialCalls
  <2>1. CASE j = k
    BY <1>1, <1>3, <1>5, <1>8, <2>1 DEF SerialCall
  <2>2. CASE j # k
    <3>1. InProgress(j) /\ Instance(j) \in Serialised /\ SerialCall(j) /\ calls'[j] = calls[j]
      BY <1>0, <1>5, <1>13, <2>2 DEF SerialCalls
    <3>2. calls[j].pc = "free" => calls[j].id \in Slots(Instance(j))
      BY <1>0, <3>1 DEF CallsOK, ReservationOK, InProgress, Slots
    <3> QED
      BY <1>1, <1>7, <3>1, <3>2, SameSerialCall DEF Slots
  <2> QED
    BY <2>1, <2>2
<1>17. SerialInstances'
  <2> SUFFICES ASSUME NEW g \in Serialised PROVE InstanceOK(g)'
    BY DEF SerialInstances
  <2>1. g \in Instances /\ InstanceOK(g)
    BY <1>0, FleetAssumption DEF SerialInstances
  <2>2. ASSUME NEW i \in Slots(g), Held(i), leases[i] = None
        PROVE  calls'[i.key] = calls[i.key]
    <3>1. i \in Ids /\ i.attempt = g /\ i.key \in Keys
      BY DEF Slots, Ids
    <3>2. InProgress(i.key)
      BY <2>1, <2>2, <3>1 DEF InstanceOK, UnleasedOK
    <3> QED
      BY <1>1, <1>5, <3>1, <3>2 DEF InProgress
  <2> QED
    BY <1>1, <1>7, <2>1, <2>2, SameInstance DEF Slots
<1> QED
  BY <1>10, <1>11, <1>12, <1>15, <1>16, <1>17, FleetLedgerInv, LeasedStep DEF FleetInv

\* The first state.
LEMMA FleetInit == Init => FleetInv
<1> SUFFICES ASSUME Init PROVE FleetInv
  OBVIOUS
<1>1. LedgerInv
  BY InvInit DEF Init
<1>2. /\ clock = 0
      /\ \A i \in Ids : leases[i] = None /\ reservations[i] = None /\ ~Held(i) /\ ~Live(i)
  BY DEF Init, LedgerInit, Held, Live
<1>3. /\ \A k \in Keys : calls[k] = None
      /\ \A w \in Workers : beats[w] = None
      /\ \A f \in Instances : instances[f].state = "created"
      /\ accepted = {} /\ crashes = 0
  BY DEF Init
<1>4. /\ instances \in [Instances -> [state : States, updated_at : 0..MaxTime]]
      /\ calls \in [Keys -> Call \cup {None}] /\ beats \in [Workers -> Beat \cup {None}]
  BY DurationAssumption DEF Init, States
<1>5. FleetTypeOK /\ TimesOK
  BY <1>2, <1>3, <1>4, DurationAssumption, FleetAssumption DEF FleetTypeOK, TimesOK
<1>6. RoomToRelease /\ LeasedIsReserved /\ CallsOK /\ AcceptedOK
  BY <1>2, <1>3 DEF RoomToRelease, LeasedIsReserved, CallsOK, AcceptedOK
<1>7. OneCall /\ SerialCalls
  BY <1>3 DEF OneCall, SerialCalls, InProgress
<1>8. SerialInstances
  BY <1>2, <1>3, FleetAssumption
     DEF SerialInstances, InstanceOK, OnePlace, Powered, UnleasedOK, Running
<1> QED
  BY <1>1, <1>5, <1>6, <1>7, <1>8 DEF FleetInv

\* Every step keeps the invariant.
LEMMA FleetStep == FleetInv /\ [Next]_vars => FleetInv'
<1> SUFFICES ASSUME FleetInv, [Next]_vars PROVE FleetInv'
  OBVIOUS
<1>1. ASSUME NEW k \in Keys, OwnStep(k) /\ OwnOK(k)'
      PROVE  FleetInv'
  BY <1>1, OwnStepKeeps
<1>3. CASE \/ \E f \in Instances : CompleteWarmup(f)
           \/ \E w \in Workers : WriteHeartbeat(w) \/ \E i \in Ids : PrepareHeartbeat(w, i)
           \/ Time \/ UNCHANGED vars
  BY <1>3, WorkerSteps, WorkerStepKeeps
<1>4. CASE \E k \in Keys, f \in Instances, s \in States \ {"created"} : Begin(k, f, s)
  BY <1>4, BeginKeeps
<1>5. ASSUME NEW k \in Keys,
             \/ LoadInstance(k) \/ FindWorker(k) \/ PersistForwardLease(k)
             \/ Transition(k) \/ FindRelease(k) \/ FreeWorker(k)
             \/ CrashCall(k) \/ Resend(k)
      PROVE  FleetInv'
  <2>1. OwnStep(k) /\ OwnOK(k)'
    BY <1>5, LoadOwn, FindOwn, PersistOwn, TransitionOwn, FindReleaseOwn, FreeOwn, CrashOwn
  <2> QED
    BY <1>1, <2>1
<1>6. ASSUME NEW k \in Keys, NEW w \in Workers, ReserveWorker(k, w)
      PROVE  FleetInv'
  BY <1>1, <1>6, ReserveOwn
<1> QED
  BY <1>3, <1>4, <1>5, <1>6 DEF Next

----------------------------------------------------------------------------
(* The theorems.                                                           *)

\* The inductive invariant holds in every state the fleet can reach, for any
\* number of instances, workers, calls and crashes.
THEOREM FleetInvariant == Spec => []FleetInv
  BY FleetInit, FleetStep, PTL DEF Spec

\* forward_worker_lifecycle.py and forward_worker_composition.py write the
\* worker ledger only through the transactions LeaseCapacity describes, with
\* times of the past and sequence numbers within the bound: whatever is proved
\* of the ledger holds for the forward workers.
THEOREM FleetUsesLedger == Spec => LedgerSpec
<1>1. Init => LedgerInit
  BY DEF Init
<1>2. FleetInv /\ [Next]_vars => [LedgerNext]_ledgerVars
  BY FleetLedgerStep
<1> QED
  BY <1>1, <1>2, FleetInvariant, PTL DEF Spec, LedgerSpec

\* Every step of a lifecycle call finds what it relies on: a pool to try, a
\* slot that is still held when its lease is written, an accepted request
\* when its worker is freed.
THEOREM FleetType == Spec => []FleetTypeOK
<1>1. FleetInv => FleetTypeOK
  BY DEF FleetInv
<1> QED
  BY <1>1, FleetInvariant, PTL

\* forward_worker_lifecycle.py:acquire never puts an instance on two workers
\* when its client makes one call at a time, whatever crashes and however
\* other instances compete for the workers.
THEOREM FleetOneWorker == Spec => []OneWorkerPerInstance
<1>1. FleetInv => OneWorkerPerInstance
  <2> SUFFICES ASSUME FleetInv, NEW f \in Serialised
               PROVE  Cardinality(Reserved(f)) <= 1
    BY DEF OneWorkerPerInstance
  <2>1. CASE Reserved(f) = {}
    BY <2>1, FS_EmptySet
  <2>2. CASE Reserved(f) # {}
    <3>1. PICK w : w \in Reserved(f)
      BY <2>2
    <3>2. PICK i \in Ids : Held(i) /\ i.worker = w /\ i.attempt = f
      BY <3>1 DEF Reserved
    <3>3. ASSUME NEW v \in Reserved(f) PROVE v = w
      <4>1. PICK j \in Ids : Held(j) /\ j.worker = v /\ j.attempt = f
        BY DEF Reserved
      <4> QED
        BY <3>2, <4>1, OneSlot
    <3>4. Reserved(f) = {w}
      BY <3>1, <3>3
    <3> QED
      BY <3>4, FS_Singleton
  <2> QED
    BY <2>1, <2>2
<1> QED
  BY <1>1, FleetInvariant, PTL

\* forward_worker_lifecycle.py:acquire, "Reserve capacity and persist its
\* lease before instance activation": an instance that warms up or is active
\* has a held worker with an unreleased lease.
THEOREM FleetRunning == Spec => []RunningHasWorker
<1>1. FleetInv => RunningHasWorker
  BY DEF FleetInv, SerialInstances, InstanceOK, Powered, RunningHasWorker
<1> QED
  BY <1>1, FleetInvariant, PTL

\* application.py:transition_forward_instance: when a pause or a stop is
\* answered, the instance holds no worker any more.
THEOREM FleetStopFrees == Spec => AnsweredStopFrees
<1> DEFINE Freed == \A k \in Keys :
        /\ InProgress(k) /\ At(k, "answered")'
        /\ Target(k) \in {"paused", "stopped"} /\ Instance(k) \in Serialised
        => Reserved(Instance(k))' = {}
<1>1. FleetInv /\ [Next]_vars => [Freed]_vars
  <2> SUFFICES ASSUME FleetInv, Next, NEW k \in Keys,
                      InProgress(k), At(k, "answered")',
                      Target(k) \in {"paused", "stopped"}, Instance(k) \in Serialised
               PROVE  Reserved(Instance(k))' = {}
    OBVIOUS
  <2>1. PICK f \in Instances : f = Instance(k)
    BY FleetAssumption
  <2>2. calls'[k] # None /\ calls'[k].pc = "answered" /\ calls[k] # None /\ calls[k].pc # "answered"
    BY DEF At, InProgress, Ended
  <2>3. FleetTypeOK /\ Stage(k) /\ ReservationOK(k) /\ LedgerInv
    BY <2>2, CallTyped DEF FleetInv
  <2>4. ASSUME NEW j \in Keys, OwnStep(j) PROVE j = k
    BY <2>2, <2>4 DEF OwnStep, CallMoved
  <2>5. ASSUME NEW pc \in Underway \cup Ended, Goto(k, pc)
        PROVE  pc = "answered"
    BY <2>2, <2>3, <2>5, GotoCall
  <2>6. CASE FindRelease(k)
    <3>1. calls[k].pc = "release" /\ UNCHANGED ledgerVars
      BY <2>6 DEF FindRelease, At
    <3>2. Authorizations(f) = {}
      <4> SUFFICES ASSUME Authorizations(f) # {} PROVE FALSE
        OBVIOUS
      <4>1. PICK i \in Authorizations(f) :
              calls' = [calls EXCEPT ![k].pc = "free", ![k].id = i,
                                     ![k].seq = LastSequence(i) + 1]
        BY <2>1, <2>6 DEF FindRelease
      <4>2. calls'[k].pc = "free"
        BY <2>2, <2>3, <4>1 DEF FleetTypeOK, Call
      <4> QED
        BY <2>2, <4>2
    <3>3. ASSUME NEW i \in Ids, Held(i), i.attempt = f PROVE FALSE
      <4>1. leases[i] # None
        BY <2>1, <3>1, <3>3, UnleasedIsOwn DEF Leasing
      <4>2. Live(i)
        BY <2>3, <3>3, <4>1, HeldIsLive DEF FleetInv
      <4> QED
        BY <3>2, <3>3, <4>2 DEF Authorizations
    <3>4. \A i \in Ids : SameSlot(i)
      BY <3>1, QuietView DEF ledgerVars
    <3>5. Instance(k)' = f
      BY <2>1, <2>6, FindReleaseOwn DEF OwnStep, CallMoved, Instance
    <3> QED
      BY <3>3, <3>4, <3>5 DEF Reserved, SameSlot
  <2>7. CASE FreeWorker(k)
    <3>1. calls[k].pc = "free"
      BY <2>7 DEF FreeWorker, At
    <3>2. PICK i \in Ids, t \in Nat, n \in Nat :
            i = calls[k].id /\ t = Now(k) /\ n = calls[k].seq /\ i.attempt = f
      <4>1. calls[k] \in Call /\ Now(k) \in Nat
        BY <2>2, CallTyped
      <4>2. calls[k].id \in Ids /\ calls[k].seq \in Nat /\ calls[k].id.attempt = f
        BY <2>1, <2>3, <3>1, <4>1, DurationAssumption DEF ReservationOK, Call
      <4> QED
        BY <4>1, <4>2
    <3>3. Held(i)
      BY <2>1, <3>1, <3>2 DEF FleetInv, SerialCalls, SerialCall
    <3>4. ReleaseCapacity(i, ReleaseObservation(n, t, "forward"))
      <4>1. ~Goto(k, "failed")
        BY <2>5 DEF Ended
      <4> QED
        BY <2>7, <3>2, <3>3, <4>1 DEF FreeWorker, ReleaseReplays
    <3>5. /\ ~Held(i)' /\ \A j \in Ids : j # i => SameSlot(j)
      BY <2>3, <3>4, FleetAssumption, ReleaseView
    <3>6. ASSUME NEW j \in Ids, Held(j)', j.attempt = f PROVE FALSE
      BY <2>1, <3>2, <3>3, <3>5, <3>6, OneSlot DEF SameSlot
    <3>7. Instance(k)' = f
      BY <2>1, <2>7, FreeOwn DEF OwnStep, CallMoved, Instance
    <3> QED
      BY <3>6, <3>7 DEF Reserved
  <2>8. CASE Transition(k)
    <3>1. ~Goto(k, "conflict") /\ ~Goto(k, "release")
      BY <2>5 DEF Ended, Underway
    <3> QED
      BY <2>8, <3>1 DEF Transition, AfterTransition
  <2>9. ASSUME \/ LoadInstance(k) \/ CrashCall(k) \/ Resend(k) \/ PersistForwardLease(k)
        PROVE  FALSE
    <3>1. \A pc \in {"find", "transition", "crashed", "load"} : ~Goto(k, pc)
      BY <2>5 DEF Underway
    <3> QED
      BY <2>9, <3>1 DEF LoadInstance, CrashCall, Resend, PersistForwardLease
  <2>10. ASSUME FindWorker(k) \/ \E w \in Workers : ReserveWorker(k, w) PROVE FALSE
    <3>1. calls[k].pc \in {"find", "reserve"}
      BY <2>10 DEF FindWorker, ReserveWorker, At
    <3> QED
      BY <2>3, <3>1 DEF ReservationOK, Running
  <2>11. ASSUME NEW j \in Keys, NEW g \in Instances, NEW s \in States \ {"created"}, Begin(j, g, s)
         PROVE  FALSE
    <3>1. j # k
      BY <2>2, <2>11 DEF Begin
    <3> QED
      BY <2>2, <2>3, <2>11, <3>1 DEF Begin, FleetTypeOK
  <2>12. ASSUME \/ \E g \in Instances : CompleteWarmup(g)
                \/ \E w \in Workers : WriteHeartbeat(w) \/ \E i \in Ids : PrepareHeartbeat(w, i)
                \/ Time
         PROVE  FALSE
    BY <2>2, <2>12 DEF CompleteWarmup, WriteHeartbeat, PrepareHeartbeat, Time, fleetVars
  <2>13. ASSUME NEW j \in Keys,
                \/ LoadInstance(j) \/ FindWorker(j) \/ PersistForwardLease(j)
                \/ Transition(j) \/ FindRelease(j) \/ FreeWorker(j)
                \/ CrashCall(j) \/ Resend(j)
                \/ \E w \in Workers : ReserveWorker(j, w)
         PROVE  j = k
    <3>1. OwnStep(j)
      BY <2>13, LoadOwn, FindOwn, PersistOwn, TransitionOwn, FindReleaseOwn, FreeOwn, CrashOwn,
         ReserveOwn
    <3> QED
      BY <2>4, <3>1
  <2> QED
    BY <2>6, <2>7, <2>8, <2>9, <2>10, <2>11, <2>12, <2>13 DEF Next
<1> QED
  BY <1>1, FleetInvariant, PTL DEF Spec, AnsweredStopFrees
=============================================================================
