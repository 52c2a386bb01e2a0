---------------------------- MODULE ProviderQuota ----------------------------
(***************************************************************************)
(* The durable provider quota ledger                                       *)
(* (services/provider_quota_coordinator.py) under concurrent provider      *)
(* calls (services/provider_runtime.py, execute_provider_call), for one    *)
(* account scope with the three kinds of dimension a contract can have: a  *)
(* counted one with fixed windows ("requests"), one that counts distinct   *)
(* symbols over a rolling window ("symbols"), and the concurrency leases   *)
(* ("inflight"), which are rolling with a window of one second.            *)
(*                                                                         *)
(* The scope row serialises reservations and reconciliations.  A           *)
(* settlement does not take it: it locks its own reservation rows and the  *)
(* window rows they point at.  On PostgreSQL a reservation therefore reads *)
(* the reserved units of its windows in one statement and the settled      *)
(* units in a later one, with settlements of other windows in between;     *)
(* that is why Reserve is two steps.                                       *)
(*                                                                         *)
(* Every call costs one unit of each dimension.  Byte costs, the limits'   *)
(* changes of plan, and the columns only reports read (consumed_units) are *)
(* left out.                                                               *)
(***************************************************************************)
EXTENDS Integers, FiniteSets, FiniteSetsExt

CONSTANTS
    Calls,        \* provider calls, one reservation each
    Symbols,
    SymbolOf,     \* the usage_identity of each call
    None,
    Limit,        \* limit_units of each dimension
    Period,       \* window_seconds of "requests"
    Span,         \* window_seconds of "symbols"
    LeaseSeconds, \* transport timeout plus grace of a concurrency lease
    LocalZero,    \* dimensions whose contract has baseline_mode local_zero
    Exclusive,    \* is the account scope exclusive to this deployment
    MaxSnapshots, \* bound on the baselines that are not local zeros
    MaxTime       \* bound on the clock, in seconds

Dims == {"requests", "symbols", "inflight"}

ASSUME QuotaAssumption ==
    /\ IsFiniteSet(Calls)
    /\ SymbolOf \in [Calls -> Symbols]
    /\ None \notin Calls
    /\ Limit \in [Dims -> Nat]
    /\ Period \in Nat \ {0}
    /\ Span \in Nat \ {0}
    /\ LeaseSeconds \in Nat \ {0}
    /\ LocalZero \subseteq Dims
    /\ Exclusive \in BOOLEAN
    /\ MaxSnapshots \in Nat
    /\ MaxTime \in Nat

VARIABLES
    now,       \* the clock, in seconds
    phase,     \* where execute_provider_call is with each call
    created,   \* created_at of a reservation: when its call asked for it
    row,       \* its reservation row per dimension
    reserved,  \* reserved_units per dimension and window
    claim,     \* the identity rows: symbol and window -> state and owner
    baselines, \* the usage baselines of each dimension
    reading    \* the reservation that holds the scope lock

ledger == <<created, row, reserved, claim, baselines>>
vars == <<now, phase, created, row, reserved, claim, baselines, reading>>

-----------------------------------------------------------------------------
(* _dimension_specs and _window_start                                      *)

Time == 0 .. MaxTime
Rolling(d) == d # "requests"
Seconds(d) == CASE d = "requests" -> Period
                [] d = "symbols" -> Span
                [] d = "inflight" -> 1

Start(d, t) == IF Rolling(d) THEN t ELSE t - (t % Period)

\* Does a window that began at s count at t?
Active(d, s, t) == IF Rolling(d) THEN s >= t - Seconds(d) ELSE s = Start(d, t)

NoRow == [state |-> "none", win |-> 0, units |-> 0]
Unclaimed == [state |-> "none", owner |-> None]
Held == {"pending", "uncertain"}

Init ==
    /\ now = 0
    /\ phase = [c \in Calls |-> "new"]
    /\ created = [c \in Calls |-> 0]
    /\ row = [c \in Calls |-> [d \in Dims |-> NoRow]]
    /\ reserved = [d \in Dims |-> [s \in Time |-> 0]]
    /\ claim = [k \in Symbols \X Time |-> Unclaimed]
    /\ baselines = [d \in Dims |-> {}]
    /\ reading = None

-----------------------------------------------------------------------------
(* reserve_provider_quota                                                  *)

\* _release_expired_concurrency_leases
LeaseOver(c, t) ==
    row[c]["inflight"].state \in Held /\ created[c] + LeaseSeconds <= t

FreedLeases(t, s) ==
    Cardinality({c \in Calls : /\ LeaseOver(c, t)
                               /\ row[c]["inflight"].win = s})

\* _find_active_identity, the most recent one.
ActiveClaims(sym, t) ==
    {s \in Time : claim[<<sym, s>>] # Unclaimed /\ Active("symbols", s, t)}

WindowOf(c, d, t) ==
    IF d = "symbols" /\ ActiveClaims(SymbolOf[c], t) # {}
    THEN Max(ActiveClaims(SymbolOf[c], t))
    ELSE Start(d, t)

\* The units this reservation charges: a symbol that is claimed is free.
Charge(c, d, t) ==
    IF d = "symbols" /\ ActiveClaims(SymbolOf[c], t) # {} THEN 0 ELSE 1

\* The reserved units an admission counts: every active window of a rolling
\* dimension, but only its own window for a concurrency lease.
ReservedUnits(d, win, t) ==
    CASE d = "symbols" -> MapThenSumSet(LAMBDA s : reserved[d][s],
                                        {s \in Time : Active(d, s, t)})
      [] d = "requests" -> reserved[d][win]
      [] d = "inflight" -> Max({0, reserved[d][win] - FreedLeases(t, win)})

\* The call takes the time of its reservation before it has the scope lock.
Ask(c) ==
    /\ phase[c] = "new"
    /\ phase' = [phase EXCEPT ![c] = "asking"]
    /\ created' = [created EXCEPT ![c] = now]
    /\ UNCHANGED <<now, row, reserved, claim, baselines, reading>>

\* The ledger is not available: the call is blocked and nothing is written.
ReserveFails(c) ==
    /\ phase[c] = "asking"
    /\ reading = None
    /\ phase' = [phase EXCEPT ![c] = "denied"]
    /\ UNCHANGED <<now, ledger, reading>>

\* The scope lock, the expired leases, the window rows (locked from here on)
\* and the statement that sums the reserved units.
BeginReserve(c) ==
    LET t == created[c] IN
    /\ phase[c] = "asking"
    /\ reading = None
    /\ row' = [b \in Calls |->
                 IF LeaseOver(b, t)
                 THEN [row[b] EXCEPT !["inflight"].state = "lease_expired"]
                 ELSE row[b]]
    /\ reserved' = [reserved EXCEPT !["inflight"] =
                      [s \in Time |-> Max({0, @[s] - FreedLeases(t, s)})]]
    /\ reading' = [call |-> c,
                   win |-> [d \in Dims |-> WindowOf(c, d, t)],
                   charge |-> [d \in Dims |-> Charge(c, d, t)],
                   counted |-> [d \in Dims |->
                                  ReservedUnits(d, WindowOf(c, d, t), t)],
                   expired |-> {b \in Calls : LeaseOver(b, t)}]
    /\ UNCHANGED <<now, phase, created, claim, baselines>>

\* _baseline_query: the baselines that are active at t.
ActiveBaselines(d, t) ==
    {b \in baselines[d] :
        IF Rolling(d) THEN b.at \in (t - Seconds(d)) .. t
                      ELSE b.start = Start(d, t)}

Latest(B) == CHOOSE b \in B : \A x \in B : b.at >= x.at

\* _baseline_for_reservation: the latest active baseline, a local zero, or
\* the zero an exclusive scope derives from an older baseline.
BaselineFor(d, t) ==
    LET rollover == IF Rolling(d) THEN t - Seconds(d) ELSE Start(d, t)
        prior == {b \in baselines[d] : Rolling(d) \/ b.start < rollover}
    IN
    IF ActiveBaselines(d, t) # {}
    THEN Latest(ActiveBaselines(d, t))
    ELSE IF d \in LocalZero
    THEN [used |-> 0, at |-> t, start |-> Start(d, t), local |-> TRUE]
    ELSE IF /\ Exclusive
            /\ prior # {}
            /\ Rolling(d) => Latest(prior).at <= rollover
    THEN [used |-> 0, at |-> rollover, start |-> rollover, local |-> FALSE]
    ELSE None

\* A baseline is inserted; of two for the same instant the later row counts.
WithBaseline(B, b) ==
    {x \in B : x.at # b.at \/ x.start # b.start} \cup {b}

\* The sum of the units of some rows: a row has one unit or none.
Units(d, S) == Cardinality({c \in S : row[c][d].units = 1})

\* The settled reservations of the window that is current at t.
SettledIn(d, t) ==
    {c \in Calls :
        /\ row[c][d].state = "settled"
        /\ IF Rolling(d) THEN created[c] >= t - Seconds(d)
                         ELSE row[c][d].win = Start(d, t)}

\* Does the baseline leave it to the ledger to count the reservation of c?
Since(b, c) == b.local \/ created[c] >= b.at

\* Mutant: a local zero, too, counts only what was asked for after it.
SettledUnitsLater(d, b, t) ==
    Units(d, {c \in SettledIn(d, t) : created[c] >= b.at})

\* _settled_units_since_baseline
SettledUnits(d, b, t) == Units(d, {c \in SettledIn(d, t) : Since(b, c)})

\* Mutant: settled units are not counted against the limit.
FitsReservedOnly(d, units, counted, b, t) ==
    units = 0 \/ Limit[d] - counted >= units

Fits(d, units, counted, b, t) ==
    \/ units = 0
    \/ /\ d = "inflight"
       /\ Limit[d] - counted >= units
    \/ /\ d # "inflight"
       /\ Limit[d] - counted - b.used - SettledUnits(d, b, t) >= units

Usage == Dims \ {"inflight"}

\* The second statement, the decision and the writes of the transaction.
Reserve(c) ==
    LET t == created[c]
        base == [d \in Usage |-> BaselineFor(d, t)]
        fits == /\ \A d \in Usage : base[d] # None
                /\ \A d \in Dims :
                      Fits(d, reading.charge[d], reading.counted[d],
                           IF d \in Usage THEN base[d] ELSE None, t)
    IN
    /\ reading # None
    /\ reading.call = c
    /\ reading' = None
    /\ baselines' = [d \in Dims |->
                       IF /\ d \in Usage
                          /\ base["requests"] # None
                          /\ base[d] # None
                       THEN WithBaseline(baselines[d], base[d])
                       ELSE baselines[d]]
    /\ \/ /\ ~fits
          /\ phase' = [phase EXCEPT ![c] = "denied"]
          /\ UNCHANGED <<row, reserved, claim>>
       \/ /\ fits
          /\ phase' = [phase EXCEPT ![c] = "admitted"]
          /\ row' = [row EXCEPT ![c] =
                       [d \in Dims |-> [state |-> "pending",
                                        win |-> reading.win[d],
                                        units |-> reading.charge[d]]]]
          /\ reserved' = [d \in Dims |->
                            [reserved[d] EXCEPT ![reading.win[d]] =
                                @ + reading.charge[d]]]
          /\ claim' = IF reading.charge["symbols"] = 0 THEN claim
                      ELSE [claim EXCEPT
                              ![<<SymbolOf[c], reading.win["symbols"]>>] =
                                  [state |-> "pending", owner |-> c]]
    /\ UNCHANGED <<now, created>>

-----------------------------------------------------------------------------
(* settle_provider_quota and _coordinator_settlement                       *)

\* Mutant: a release takes the reviewed cost off, whatever was charged.
SettledRowRefunded(r, d, outcome) ==
    IF outcome = "unsent" /\ d # "inflight"
    THEN [r EXCEPT !.state = "not_sent", !.units = @ - 1]
    ELSE [r EXCEPT !.state = IF outcome = "ambiguous" THEN "uncertain"
                                                      ELSE "settled"]

\* What a settlement makes of a pending row.  A response debits the reviewed
\* cost of the operation, whatever the reservation charged; a refusal that
\* the provider does not count debits no request.
SettledRow(r, d, outcome) ==
    CASE outcome = "ambiguous" -> [r EXCEPT !.state = "uncertain"]
      [] outcome # "ambiguous" /\ d = "inflight" ->
            [r EXCEPT !.state = "settled"]
      [] outcome = "unsent" /\ d # "inflight" ->
            [r EXCEPT !.state = "not_sent", !.units = 0]
      [] outcome = "refused" /\ d = "requests" ->
            [r EXCEPT !.state = "settled", !.units = 0]
      [] OTHER -> [r EXCEPT !.state = "settled", !.units = 1]

\* Mutant: every row of the reservation is taken for pending.
PendingRowsAll(c) == {d \in Dims : row[c][d].state # "none"}

PendingRows(c) == {d \in Dims : row[c][d].state = "pending"}

\* The other reservations that count on the claim of call c.
Sharers(c) ==
    {b \in Calls \ {c} : /\ SymbolOf[b] = SymbolOf[c]
                         /\ row[b]["symbols"].win = row[c]["symbols"].win}

\* Mutant: a claim that was not sent is dropped whoever relies on it.
SettledClaimDropped(c, outcome) ==
    LET k == claim[<<SymbolOf[c], row[c]["symbols"].win>>] IN
    IF k.state # "pending" \/ "symbols" \notin PendingRows(c) THEN {k}
    ELSE IF outcome = "unsent"
    THEN IF k.owner = c THEN {Unclaimed} ELSE {k}
    ELSE {[state |-> IF outcome = "ambiguous" THEN "uncertain"
                                              ELSE "consumed",
           owner |-> None]}

\* What becomes of the claim; a set, because the code takes the first of
\* several rows in an order the model does not keep.
SettledClaim(c, outcome) ==
    LET k == claim[<<SymbolOf[c], row[c]["symbols"].win>>]
        in(S) == {b \in Sharers(c) : row[b]["symbols"].state \in S}
    IN
    IF k.state # "pending" \/ "symbols" \notin PendingRows(c) THEN {k}
    ELSE IF outcome # "unsent"
    THEN {[state |-> IF outcome = "ambiguous" THEN "uncertain"
                                              ELSE "consumed",
           owner |-> None]}
    ELSE IF k.owner # c THEN {k}
    ELSE IF in({"settled", "uncertain"}) # {}
    THEN {[state |-> IF row[b]["symbols"].state = "uncertain"
                     THEN "uncertain" ELSE "consumed",
           owner |-> None] : b \in in({"settled", "uncertain"})}
    ELSE IF in({"pending"}) # {}
    THEN {[state |-> "pending", owner |-> b] : b \in in({"pending"})}
    ELSE {Unclaimed}

\* The rows it needs are free: no reservation has them locked.
RowsFree(c) ==
    reading # None =>
        /\ c \notin reading.expired
        /\ \A d \in PendingRows(c) : row[c][d].win # reading.win[d]

Freed(c, d, outcome) ==
    IF d \in PendingRows(c) /\ outcome # "ambiguous"
    THEN row[c][d].units ELSE 0

Settle(c, outcome) ==
    /\ RowsFree(c)
    /\ row' = [row EXCEPT ![c] =
                 [d \in Dims |-> IF d \in PendingRows(c)
                                 THEN SettledRow(@[d], d, outcome)
                                 ELSE @[d]]]
    /\ reserved' = [d \in Dims |->
                      [reserved[d] EXCEPT ![row[c][d].win] =
                          Max({0, @ - Freed(c, d, outcome)})]]
    /\ \E k \in SettledClaim(c, outcome) :
          claim' = [claim EXCEPT
                      ![<<SymbolOf[c], row[c]["symbols"].win>>] = k]
    /\ UNCHANGED <<now, created, baselines, reading>>

-----------------------------------------------------------------------------
(* execute_provider_call after the admission                               *)

\* The token bucket refuses, or the request log cannot be written.
GiveUp(c) ==
    /\ phase[c] = "admitted"
    /\ Settle(c, "unsent")
    /\ phase' = [phase EXCEPT ![c] = "done"]

Send(c) ==
    /\ phase[c] = "admitted"
    /\ phase' = [phase EXCEPT ![c] = "sent"]
    /\ UNCHANGED <<now, ledger, reading>>

Answered(c) ==
    /\ phase[c] = "sent"
    /\ \E outcome \in {"response", "refused"} : Settle(c, outcome)
    /\ phase' = [phase EXCEPT ![c] = "answered"]

\* An empty result raises after it was settled, and the handler settles the
\* same reservation again.
SettledAgain(c) ==
    /\ phase[c] = "answered"
    /\ Settle(c, "response")
    /\ phase' = [phase EXCEPT ![c] = "done"]

\* No response was observed.
Ambiguous(c) ==
    /\ phase[c] = "sent"
    /\ Settle(c, "ambiguous")
    /\ phase' = [phase EXCEPT ![c] = "done"]

\* The process dies, or the ledger is not available to the settlement, which
\* is only logged: the reservation stays pending.
Unsettled(c) ==
    /\ phase[c] \in {"admitted", "sent"}
    /\ phase' = [phase EXCEPT ![c] = IF @ = "sent" THEN "answered" ELSE "done"]
    /\ UNCHANGED <<now, ledger, reading>>

-----------------------------------------------------------------------------
(* reconcile_provider_quota_baseline                                       *)

\* Reservations of the window that is current at t are pending or uncertain.
Unresolved(d, t) ==
    \E c \in Calls :
        /\ row[c][d].state \in Held
        /\ IF Rolling(d) THEN created[c] >= t - Seconds(d)
                         ELSE row[c][d].win = Start(d, t)

Snapshots == UNION {{<<d, b>> : b \in {x \in baselines[d] : ~x.local}} : d \in Usage}

\* used units were observed at the moment at; the call began at the moment t,
\* and may have waited for the scope lock since.  native: the provider says
\* that its count includes the calls made here before.
Reconcile(d, used, at, t, native) ==
    LET active == ActiveBaselines(d, t)
        b == Latest(active)
        stored == CASE active = {} -> used
                    [] active # {} /\ b.at = at -> Max({used, b.used})
                    [] active # {} /\ b.at < at /\ (native \/ Rolling(d)) ->
                          used
                    [] OTHER -> Max({used, b.used + SettledUnits(d, b, t)})
    IN
    /\ reading = None
    /\ at <= t
    /\ IF Rolling(d) THEN t - at <= Seconds(d) ELSE Start(d, at) = Start(d, t)
    /\ ~Unresolved(d, t)
    /\ \A x \in active : x.at <= at
    /\ Cardinality(Snapshots) < MaxSnapshots
    /\ baselines' = [baselines EXCEPT ![d] =
                       WithBaseline(@, [used |-> stored, at |-> at,
                                        start |-> Start(d, at),
                                        local |-> FALSE])]
    /\ UNCHANGED <<now, phase, created, row, reserved, claim, reading>>

Tick ==
    /\ now < MaxTime
    /\ now' = now + 1
    /\ UNCHANGED <<phase, ledger, reading>>

Next ==
    \/ \E c \in Calls : \/ Ask(c) \/ ReserveFails(c)
                        \/ BeginReserve(c) \/ Reserve(c)
                        \/ GiveUp(c) \/ Send(c) \/ Answered(c)
                        \/ SettledAgain(c) \/ Ambiguous(c) \/ Unsettled(c)
    \/ \E d \in Usage, t \in 0 .. now, at \in 0 .. now, native \in BOOLEAN :
          \E used \in 0 .. Limit[d] : Reconcile(d, used, at, t, native)
    \/ Tick

Spec == Init /\ [][Next]_vars

-----------------------------------------------------------------------------
(* Properties                                                              *)

Row == [state : {"none", "pending", "settled", "uncertain", "not_sent",
                 "lease_expired"},
        win : Time, units : {0, 1}]

Claim == [state : {"none", "pending", "consumed", "uncertain"},
          owner : Calls \cup {None}]

\* used_units, observed_at, window_started_at and "is it a local zero"; the zero
\* of a rolling window may lie before the first second of the clock.
Baseline == [used : Nat, at : Int, start : Int, local : BOOLEAN]

\* Types of the ledger's rows: no settlement takes a reservation or a counter
\* below zero.
TypeOK ==
    /\ now \in Time
    /\ phase \in [Calls -> {"new", "asking", "denied", "admitted", "sent",
                            "answered", "done"}]
    /\ created \in [Calls -> Time]
    /\ row \in [Calls -> [Dims -> Row]]
    /\ reserved \in [Dims -> [Time -> Nat]]
    /\ claim \in [Symbols \X Time -> Claim]
    /\ baselines \in [Dims -> SUBSET Baseline]
    /\ reading # None =>
          /\ reading.call \in Calls
          /\ reading.win \in [Dims -> Time]
          /\ reading.charge \in [Dims -> {0, 1}]
          /\ reading.expired \subseteq Calls

\* settle_provider_quota: the reserved_units counter of every window is the
\* sum of its reservations that are still pending or uncertain: no path of a
\* reservation - settled twice, given up, ambiguous, its lease expired before
\* or after - debits or frees a unit twice.
LedgerBalanced ==
    \A d \in Dims, s \in Time :
        reserved[d][s] = Units(d, {c \in Calls : /\ row[c][d].state \in Held
                                                 /\ row[c][d].win = s})

\* A window that no snapshot has counted halfway: its baseline is a local zero
\* or was taken as the window began.
CountedHere(s) ==
    \A b \in baselines["requests"] : b.start = s => b.local \/ b.at = s

\* reserve_provider_quota and _settled_units_since_baseline, "all settled
\* application reservations in the active quota window must count, including
\* entries predating that baseline": whatever is settled, ambiguous or under
\* way, and however baselines roll over, the calls charged to a window that
\* is counted by this ledger alone never exceed its limit.
RequestsWithinLimit ==
    \A s \in Time :
        CountedHere(s) =>
            Cardinality({c \in Calls : /\ row[c]["requests"].win = s
                                       /\ row[c]["requests"].units = 1}) <=
                Limit["requests"]

\* The reservations charged at t beside what the baseline has counted.
Charged(d, b, t) ==
    {c \in Calls :
        /\ row[c][d].units = 1
        /\ \/ row[c][d].state \in Held /\ Active(d, row[c][d].win, t)
           \/ c \in SettledIn(d, t) /\ Since(b, c)}

Admits(c) == phase[c] = "asking" /\ phase'[c] = "admitted"

\* A charged admission leaves the baseline and the charged reservations within
\* the limit.
WithinLimit(d) ==
    \A c \in Calls :
        LET B == ActiveBaselines(d, created[c])
            used == Latest(B).used + Cardinality(Charged(d, Latest(B), created[c]))
        IN Admits(c) /\ row'[c][d].units = 1 => used' <= Limit[d]

\* reserve_provider_quota: when an admission commits, what its baseline counts
\* and what the rows of all calls hold or have spent since is within the
\* limit, although the admission has summed the counters of reserved units
\* and the settled rows in two statements, between which others settle.
AdmissionWithinLimit == [][\A d \in Usage : WithinLimit(d)]_vars

\* settle_provider_quota: the claim of a symbol is never given up under a call
\* that was sent, or may have been sent, under it: the ledger keeps knowing
\* that the provider has counted the symbol.
SentIsClaimed ==
    \A c \in Calls :
        row[c]["symbols"].state \in {"pending", "settled", "uncertain"} =>
            claim[<<SymbolOf[c], row[c]["symbols"].win>>] # Unclaimed

\* reserve_provider_quota, "admission is based solely on currently reserved
\* in-flight leases": the leases that have neither been settled nor expired
\* never exceed the limit.
ConcurrencyCapped ==
    Cardinality({c \in Calls : /\ row[c]["inflight"].state \in Held
                               /\ ~LeaseOver(c, now)}) <= Limit["inflight"]

=============================================================================
