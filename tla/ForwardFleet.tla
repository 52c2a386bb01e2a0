---------------------------- MODULE ForwardFleet ----------------------------
(***************************************************************************)
(* The life of a broker-free forward instance: the API's lifecycle calls   *)
(* (application.py:transition_forward_instance), the instance row          *)
(* (postgres_forward_state.py, lifecycle.py), the assignment of instances  *)
(* to forward workers (forward_worker_lifecycle.py) and the workers' lease *)
(* heartbeats (forward_worker_composition.py), over LeaseCapacity.         *)
(*                                                                         *)
(* Attempts are the instances and Keys the idempotency keys of the calls.  *)
(* A call is a sequence of database transactions, each one action; its     *)
(* `now` is part of the request body, so a call that is sent again has the *)
(* same one.  A call that raises is "failed", one the instance row refuses *)
(* "conflict", and one whose API process died "crashed".                   *)
(*                                                                         *)
(* Reads of several worker profiles in one call are taken together.        *)
(***************************************************************************)
EXTENDS LeaseCapacity, FiniteSets

CONSTANTS
    Serialised,  \* instances whose client makes one call at a time and repeats
                 \* a crashed call before it makes another
    TieBreak,    \* digest of instance and worker, by which the ranking sorts
                 \* workers that were last used at the same time
    MaxCrashes   \* bound on crashes of a call

Instances == Attempts
States == {"created", "warming_up", "active", "paused", "stopped"}
Running == {"warming_up", "active"}
Ended == {"answered", "conflict", "failed"}
Underway == {"load", "find", "reserve", "lease", "transition", "release", "free", "crashed"}

\* A lifecycle request, with what its handler keeps between transactions.
Call == [pc : Underway \cup Ended, instance : Instances, target : States \ {"created"},
         now : 0..MaxTime, pools : SUBSET Workers, order : SUBSET (Workers \X Workers),
         id : Ids \cup {None}, seq : 0..MaxObservations]

\* A heartbeat between its preparation and its write.
Beat == [id : Ids, seq : 1..MaxObservations, at : 0..MaxTime]

ASSUME FleetAssumption ==
    /\ {"forward"} \subseteq Origins
    /\ Extension = LeaseDuration
    /\ Serialised \subseteq Instances /\ MaxCrashes \in Nat
    /\ TieBreak \in [Instances -> [Workers -> Nat]]
    /\ \A f \in Instances : \A v, w \in Workers : TieBreak[f][v] = TieBreak[f][w] => v = w
    /\ None \notin Call /\ None \notin Beat

VARIABLES
    instances,  \* Instance -> [state, updated_at]
    accepted,   \* keys with a lifecycle request row
    calls,      \* Key -> Call or None
    beats,      \* Worker -> Beat or None: heartbeat being written
    crashes

fleetVars == <<instances, accepted, calls, beats, crashes>>
vars == <<ledgerVars, fleetVars>>

Init ==
    /\ LedgerInit
    /\ instances = [f \in Instances |-> [state |-> "created", updated_at |-> 0]]
    /\ accepted = {}
    /\ calls = [k \in Keys |-> None]
    /\ beats = [w \in Workers |-> None]
    /\ crashes = 0

----------------------------------------------------------------------------
(* The instance row.                                                       *)

Transitions == [created    |-> {"warming_up", "stopped"},
                warming_up |-> {"active", "stopped"},
                active     |-> {"paused", "stopped"},
                paused     |-> {"active", "stopped"},
                stopped    |-> {}]

\* lifecycle.py:transition_forward_instance does not raise.
Legal(f, target, t) ==
    /\ target \in Transitions[instances[f].state]
    /\ t >= instances[f].updated_at

----------------------------------------------------------------------------
(* A lifecycle call.                                                       *)

At(k, pc) == calls[k] # None /\ calls[k].pc = pc
InProgress(k) == calls[k] # None /\ calls[k].pc \notin Ended
Instance(k) == calls[k].instance
Target(k) == calls[k].target
Now(k) == calls[k].now
Fresh(call, pc) == [call EXCEPT !.pc = pc, !.pools = {}, !.order = {}, !.id = None, !.seq = 0]
Goto(k, pc) == calls' = [calls EXCEPT ![k] = Fresh(@, pc)]
KeyId(k, w) == [attempt |-> Instance(k), worker |-> w, key |-> k]

Begin(k, f, target) ==
    /\ calls[k] = None
    /\ f \in Serialised => \A j \in Keys : InProgress(j) => Instance(j) # f
    /\ calls' = [calls EXCEPT ![k] =
           [pc |-> "load", instance |-> f, target |-> target, now |-> clock,
            pools |-> {}, order |-> {}, id |-> None, seq |-> 0]]
    /\ UNCHANGED <<ledgerVars, instances, accepted, beats, crashes>>

\* Mutant: capacity is acquired only after the transition was tried.
LoadInstanceLater(k) ==
    /\ At(k, "load")
    /\ Goto(k, "transition")
    /\ UNCHANGED <<ledgerVars, instances, accepted, beats, crashes>>

\* load_instance, and the transition tried without effect: capacity is only
\* acquired for a start or resume that could be applied.
LoadInstance(k) ==
    /\ At(k, "load")
    /\ IF /\ Target(k) \in Running
          /\ \/ Target(k) = instances[Instance(k)].state
             \/ Legal(Instance(k), Target(k), Now(k))
       THEN Goto(k, "find") ELSE Goto(k, "transition")
    /\ UNCHANGED <<ledgerVars, instances, accepted, beats, crashes>>

\* load_forward_authorization_for_attempt: the active reservation of the
\* instance on a worker with its unreleased lease.  They have one id, since a
\* lease is persisted only under the reservation the call holds.
Authorizations(f) == {i \in Ids : i.attempt = f /\ Held(i) /\ Live(i)}

Reserved(f) == {w \in Workers : \E i \in Ids : Held(i) /\ i.worker = w /\ i.attempt = f}

Idle == {w \in Workers : \A i \in Ids : i.worker = w => ~Held(i)}

\* Mutant: an instance that is already reserved may move to an idle worker.
RankMigrates(f) == Idle

\* rank_available_forward_worker_pools: the pool the instance is reserved on,
\* or the idle ones.
Rank(f) == IF Reserved(f) # {} THEN Reserved(f) ELSE Idle

\* The last reservation of v, released or not, is older than one of w.
UsedBefore(v, w) ==
    \E i \in Ids : /\ i.worker = w /\ reservations[i] # None
                   /\ \A j \in Ids : j.worker = v /\ reservations[j] # None =>
                         reservations[j].acquired_at < reservations[i].acquired_at

\* Its order: the pool that was not used for the longest time comes first, and
\* of two that are equal in this the one with the lesser digest.
Order(f) ==
    {p \in Workers \X Workers :
        \/ UsedBefore(p[1], p[2])
        \/ ~UsedBefore(p[2], p[1]) /\ TieBreak[f][p[1]] < TieBreak[f][p[2]]}

\* Fleet acquire: an existing authorization is reused when its lease is active,
\* and refuses the call when it has expired.
FindWorker(k) ==
    LET found == Authorizations(Instance(k)) IN
    /\ At(k, "find")
    /\ IF found # {}
       THEN \E i \in found :
               Goto(k, IF ActiveAt(i, Now(k)) THEN "transition" ELSE "failed")
       ELSE IF Rank(Instance(k)) = {} \/ (Cardinality(Reserved(Instance(k))) > 1)
       THEN Goto(k, "failed")
       ELSE calls' = [calls EXCEPT ![k].pc = "reserve",
                                   ![k].pools = Rank(Instance(k)),
                                   ![k].order = Order(Instance(k))]
    /\ UNCHANGED <<ledgerVars, instances, accepted, beats, crashes>>

\* Mutant: the loop over the ranking forgets its last pool.
NextPoolUnchecked(k, w) == calls' = [calls EXCEPT ![k].pools = @ \ {w}]

\* The next pool of the ranking, or no capacity.
NextPool(k, w) ==
    IF calls[k].pools = {w} THEN Goto(k, "failed")
    ELSE calls' = [calls EXCEPT ![k].pools = @ \ {w}]

\* Coordinator acquire up to the reservation, for the first pool of what is
\* left of the ranking.  The id under this key is held
\* without a lease (a crashed call), was released since (refused), or is new;
\* a full pool is passed over, unless it is this instance that holds it under
\* another key.
ReserveWorker(k, w) ==
    LET i == KeyId(k, w) IN
    /\ At(k, "reserve")
    /\ w \in calls[k].pools
    /\ \A v \in calls[k].pools : <<v, w>> \notin calls[k].order
    /\ \/ /\ reservations[i] # None
          /\ IF Held(i) THEN calls' = [calls EXCEPT ![k].pc = "lease", ![k].id = i]
                        ELSE Goto(k, "failed")
          /\ UNCHANGED reservations
       \/ /\ Reserve(i, Now(k))
          /\ calls' = [calls EXCEPT ![k].pc = "lease", ![k].id = i]
       \/ /\ reservations[i] = None /\ ~SlotFree(i)
          /\ IF w \in Reserved(Instance(k)) THEN Goto(k, "failed") ELSE NextPool(k, w)
          /\ UNCHANGED reservations
    /\ UNCHANGED <<clock, leases, applied, instances, accepted, beats, crashes>>

\* Coordinator acquire from the reservation to the lease, which starts at the
\* call's own time and is therefore active then.
PersistForwardLease(k) ==
    /\ At(k, "lease")
    /\ PersistLease(calls[k].id, Now(k))
    /\ Goto(k, "transition")
    /\ UNCHANGED <<clock, reservations, applied, instances, accepted, beats, crashes>>

\* Mutant: only a stop gives its worker back.
AfterTransitionStopped(k) ==
    IF Target(k) = "stopped" THEN "release" ELSE "answered"

\* A pause or a stop gives its worker back.
AfterTransition(k) ==
    IF Target(k) \in {"paused", "stopped"} THEN "release" ELSE "answered"

\* postgres_forward_state.py:transition under the instance's row lock.
Transition(k) ==
    LET f == Instance(k) IN
    /\ At(k, "transition")
    /\ \/ /\ k \in accepted \/ instances[f].state = Target(k)
          /\ accepted' = accepted \cup {k}
          /\ Goto(k, AfterTransition(k))
          /\ UNCHANGED instances
       \/ /\ k \notin accepted /\ Legal(f, Target(k), Now(k))
          /\ instances' = [instances EXCEPT ![f] =
                 [state |-> Target(k), updated_at |-> Now(k)]]
          /\ accepted' = accepted \cup {k}
          /\ Goto(k, AfterTransition(k))
       \/ /\ k \notin accepted /\ instances[f].state # Target(k)
          /\ ~Legal(f, Target(k), Now(k))
          /\ Goto(k, "conflict")
          /\ UNCHANGED <<instances, accepted>>
    /\ UNCHANGED <<ledgerVars, beats, crashes>>

\* Fleet and coordinator release up to the observation.  Without an
\* authorization there is nothing to release.
FindRelease(k) ==
    LET found == Authorizations(Instance(k)) IN
    /\ At(k, "release")
    /\ IF found = {} THEN Goto(k, "answered")
       ELSE \E i \in found :
               calls' = [calls EXCEPT ![k].pc = "free", ![k].id = i,
                                      ![k].seq = LastSequence(i) + 1]
    /\ UNCHANGED <<ledgerVars, instances, accepted, beats, crashes>>

\* release_capacity answers neither RELEASED nor REPLAY_EXISTING.
ReleaseRefused(i, o) ==
    /\ ~ReleaseReplays(i, o)
    /\ ~Held(i) \/ ~(Applies(i, o) \/ Recorded(i, o))
              \/ o.observed_at < reservations[i].acquired_at

FreeWorker(k) ==
    LET o == ReleaseObservation(calls[k].seq, Now(k), "forward")
        i == calls[k].id
    IN  /\ At(k, "free")
        /\ \/ /\ ReleaseCapacity(i, o)
              /\ Goto(k, "answered")
           \/ /\ ReleaseReplays(i, o)
              /\ Goto(k, "answered")
              /\ UNCHANGED ledger
           \/ /\ ReleaseRefused(i, o)
              /\ Goto(k, "failed")
              /\ UNCHANGED ledger
        /\ UNCHANGED <<clock, instances, accepted, beats, crashes>>

\* The API process dies in the middle of the call, and the client, which has
\* no answer, sends the same request again.
CrashCall(k) ==
    /\ InProgress(k) /\ ~At(k, "crashed")
    /\ crashes < MaxCrashes /\ crashes' = crashes + 1
    /\ Goto(k, "crashed")
    /\ UNCHANGED <<ledgerVars, instances, accepted, beats>>

Resend(k) ==
    /\ At(k, "crashed")
    /\ Goto(k, "load")
    /\ UNCHANGED <<ledgerVars, instances, accepted, beats, crashes>>

----------------------------------------------------------------------------
(* The forward workers.                                                    *)

\* complete_warmup: the one-time receipt activates a warming instance.
CompleteWarmup(f) ==
    /\ instances[f].state = "warming_up"
    /\ instances' = [instances EXCEPT ![f] = [state |-> "active", updated_at |-> clock]]
    /\ UNCHANGED <<ledgerVars, accepted, calls, beats, crashes>>

\* heartbeat_active, for one instance of the worker's pool: the authorization
\* and the sequence are read, and the observation is written later.  A
\* refused observation ends the process, which is started again.
PrepareHeartbeat(w, i) ==
    /\ beats[w] = None
    /\ i.worker = w /\ i \in Authorizations(i.attempt)
    /\ ActiveAt(i, clock)
    /\ LastSequence(i) + 1 < MaxObservations
    /\ beats' = [beats EXCEPT ![w] = [id |-> i, seq |-> LastSequence(i) + 1, at |-> clock]]
    /\ UNCHANGED <<ledgerVars, instances, accepted, calls, crashes>>

WriteHeartbeat(w) ==
    LET o == HeartbeatObservation(beats[w].seq, beats[w].at, "forward")
        i == beats[w].id
    IN  /\ beats[w] # None
        /\ \/ Observe(i, o)
           \/ ~Applies(i, o) /\ UNCHANGED <<leases, applied>>
        /\ beats' = [beats EXCEPT ![w] = None]
        /\ UNCHANGED <<clock, reservations, instances, accepted, calls, crashes>>

Time == Tick /\ UNCHANGED <<ledger, fleetVars>>

Next ==
    \/ \E k \in Keys, f \in Instances, s \in States \ {"created"} : Begin(k, f, s)
    \/ \E k \in Keys :
          \/ LoadInstance(k) \/ FindWorker(k) \/ PersistForwardLease(k)
          \/ Transition(k) \/ FindRelease(k) \/ FreeWorker(k)
          \/ CrashCall(k) \/ Resend(k)
          \/ \E w \in Workers : ReserveWorker(k, w)
    \/ \E f \in Instances : CompleteWarmup(f)
    \/ \E w \in Workers : WriteHeartbeat(w) \/ \E i \in Ids : PrepareHeartbeat(w, i)
    \/ Time

Spec == Init /\ [][Next]_vars

----------------------------------------------------------------------------
(* Properties.                                                             *)

\* Types, and what each step of a call relies on.
FleetTypeOK ==
    /\ instances \in [Instances -> [state : States, updated_at : 0..MaxTime]]
    /\ accepted \subseteq Keys
    /\ crashes \in 0..MaxCrashes
    /\ calls \in [Keys -> Call \cup {None}]
    /\ beats \in [Workers -> Beat \cup {None}]
    /\ \A k \in Keys : calls[k] # None =>
          /\ calls[k].pc = "reserve" => calls[k].pools # {}
          /\ calls[k].pc = "lease" => Held(calls[k].id)
          /\ calls[k].pc \in {"release", "free"} => k \in accepted
    /\ \A w \in Workers : beats[w] # None => leases[beats[w].id] # None

\* forward_worker_lifecycle.py:acquire: one client's calls, through crashes
\* between reservation and lease, repetitions and saturated pools, never put
\* an instance on two workers, however other instances compete for them.
OneWorkerPerInstance ==
    \A f \in Serialised : Cardinality(Reserved(f)) <= 1

\* forward_worker_lifecycle.py:acquire, "Reserve capacity and persist its lease
\* before instance activation": an instance that is warming up or active has
\* a worker, in every state a crash or a refused call can leave behind.
RunningHasWorker ==
    \A f \in Serialised :
        instances[f].state \in Running => Authorizations(f) # {}

\* application.py:transition_forward_instance: a pause or stop that is answered
\* has freed the worker, whichever heartbeats were written meanwhile and
\* however often the call was repeated.
AnsweredStopFrees ==
    [][\A k \in Keys :
          /\ InProgress(k) /\ At(k, "answered")'
          /\ Target(k) \in {"paused", "stopped"} /\ Instance(k) \in Serialised
          => Reserved(Instance(k))' = {}]_vars
=============================================================================
