------------------------- MODULE ProviderQuotaProofs -------------------------
(***************************************************************************)
(* Proofs about ProviderQuota for any finite set of calls, any symbols,    *)
(* limits, windows and bounds: the safety properties of the quota runs, of *)
(* which the admissions' limit is proved for the counted dimension only.   *)
(***************************************************************************)
EXTENDS ProviderQuota, FiniteSetTheorems, WellFoundedInduction, TLAPS

----------------------------------------------------------------------------
(* The inductive invariant.                                                *)

\* Times come from the clock.
TimesOK ==
    /\ \A c \in Calls : created[c] <= now
    /\ \A d \in Dims : \A b \in baselines[d] : b.at <= now

\* A call that was not admitted has no rows.
StagesOK ==
    \A c \in Calls :
        phase[c] \in {"new", "asking", "denied"} => row[c] = [d \in Dims |-> NoRow]

\* A lease has its unit for good; a request is charged to the window in which
\* it was asked for, has a unit until it is settled, and afterwards only if
\* the provider has counted it.
RowOK(c) ==
    /\ row[c]["inflight"].state # "none" => row[c]["inflight"].units = 1
    /\ row[c]["requests"].state # "none" =>
          row[c]["requests"].win = Start("requests", created[c])
    /\ row[c]["requests"].state \in Held => row[c]["requests"].units = 1
    /\ row[c]["requests"].units = 1 =>
          row[c]["requests"].state \in {"pending", "uncertain", "settled"}

RowsOK == \A c \in Calls : RowOK(c)

\* The reservation under way has asked and has no rows yet; what it has read
\* of its windows still holds, because no settlement can touch them.
ReadingOK ==
    reading # None =>
        /\ phase[reading.call] = "asking"
        /\ reading.charge["requests"] = 1 /\ reading.charge["inflight"] = 1
        /\ reading.win["requests"] = Start("requests", created[reading.call])
        /\ reading.counted["requests"] = reserved["requests"][reading.win["requests"]]
        /\ reading.charge["symbols"] = 0 =>
              claim[<<SymbolOf[reading.call], reading.win["symbols"]>>] # Unclaimed

QuotaInv ==
    /\ TypeOK
    /\ TimesOK
    /\ StagesOK
    /\ RowsOK
    /\ ReadingOK
    /\ LedgerBalanced
    /\ SentIsClaimed

\* There is one baseline of a window for a moment.
UniqueBaselines ==
    \A x, y \in baselines["requests"] : x.at = y.at /\ x.start = y.start => x = y

RequestInv == QuotaInv /\ UniqueBaselines /\ RequestsWithinLimit

----------------------------------------------------------------------------
(* Lemmas about the operators of the model.                                *)

\* A bounded set of integers has a greatest member.
LEMMA GreatestExists ==
    ASSUME NEW S \in SUBSET Int, S # {}, NEW m \in Int, \A x \in S : x <= m
    PROVE  \E x \in S : \A y \in S : x >= y
<1> DEFINE D == {n \in Nat : m - n \in S}
           R == OpToRel(<, Nat)
<1>1. IsWellFoundedOn(R, Nat)
  BY NatLessThanWellFounded
<1>2. D \in SUBSET Nat /\ D # {}
  <2>1. PICK x \in S : TRUE
    OBVIOUS
  <2>2. m - x \in Nat /\ m - (m - x) = x
    BY <2>1
  <2> QED BY <2>1, <2>2
<1>3. \E n \in D : \A k \in D : ~(<<k, n>> \in R)
  <2> HIDE DEF R, D
  <2> QED BY <1>1, <1>2, WFMin, Zenon
<1>4. PICK n \in D : \A k \in D : ~(<<k, n>> \in R)
  BY <1>3
<1>5. m - n \in S
  BY <1>4
<1>6. ASSUME NEW y \in S PROVE m - n >= y
  <2>1. m - y \in Nat /\ m - (m - y) = y
    OBVIOUS
  <2>2. m - y \in D
    BY <2>1
  <2>3. <<m - y, n>> \notin R
    BY <1>4, <2>2
  <2>4. <<m - y, n>> \in Nat \X Nat
    BY <2>1
  <2>5. ~(m - y < n)
    BY <2>3, <2>4 DEF OpToRel
  <2> QED BY <2>1, <2>5
<1> QED BY <1>5, <1>6

\* What Max takes from a bounded set.
LEMMA MaxIsGreatest ==
    ASSUME NEW S \in SUBSET Int, S # {}, NEW m \in Int, \A x \in S : x <= m
    PROVE  Max(S) \in S /\ \A y \in S : Max(S) >= y
BY GreatestExists DEF Max

\* A counter that is not taken below zero.
LEMMA MaxOfZero ==
    ASSUME NEW n \in Int
    PROVE  Max({0, n}) = IF n >= 0 THEN n ELSE 0
<1>1. PICK m \in Int : m >= 0 /\ m >= n
  <2>1. CASE n >= 0
    BY <2>1
  <2>2. CASE ~(n >= 0)
    BY <2>2
  <2> QED BY <2>1, <2>2
<1>2. Max({0, n}) \in {0, n} /\ \A y \in {0, n} : Max({0, n}) >= y
  BY <1>1, MaxIsGreatest
<1> QED BY <1>2

\* A fixed window begins at a second of the clock, not after the moment.
LEMMA StartIsTime ==
    ASSUME NEW t \in Time, NEW d \in Dims
    PROVE  Start(d, t) \in Time /\ Start(d, t) <= t
<1>1. MaxTime \in Nat /\ Period \in Nat \ {0} /\ t \in 0 .. MaxTime
  BY QuotaAssumption DEF Time
<1>2. t % Period \in Nat /\ t % Period <= t
  BY <1>1
<1> QED BY <1>1, <1>2 DEF Start, Time

\* The latest of some baselines is one of them.
LEMMA LatestIsIn ==
    ASSUME NEW B \in SUBSET Baseline, B # {}, NEW m \in Int, \A b \in B : b.at <= m
    PROVE  Latest(B) \in B
<1> DEFINE S == {b.at : b \in B}
<1>1. S \in SUBSET Int /\ S # {}
  BY DEF Baseline
<1>2. \E x \in S : \A y \in S : x >= y
  <2>1. \A x \in S : x <= m
    OBVIOUS
  <2> HIDE DEF S
  <2> QED BY <1>1, <2>1, GreatestExists
<1>3. \E b \in B : \A x \in B : b.at >= x.at
  BY <1>2
<1> QED BY <1>3 DEF Latest

----------------------------------------------------------------------------
(* Counting rows.                                                          *)

\* The reservations that a window's counter stands for.
HeldUnits(d, s) ==
    {c \in Calls : /\ row[c][d].state \in Held
                   /\ row[c][d].win = s
                   /\ row[c][d].units = 1}

LEMMA HeldUnitsFinite ==
    ASSUME NEW d, NEW s
    PROVE  IsFiniteSet(HeldUnits(d, s)) /\ Cardinality(HeldUnits(d, s)) \in Nat
<1>1. HeldUnits(d, s) \in SUBSET Calls /\ IsFiniteSet(Calls)
  BY QuotaAssumption DEF HeldUnits
<1> QED BY <1>1, FS_Subset, FS_CardinalityType

\* The balance, before and after a step.
LEMMA BalancedIs ==
    ASSUME LedgerBalanced, NEW d \in Dims, NEW s \in Time
    PROVE  reserved[d][s] = Cardinality(HeldUnits(d, s))
<1>1. HeldUnits(d, s) = {c \in {b \in Calls : /\ row[b][d].state \in Held
                                             /\ row[b][d].win = s} : row[c][d].units = 1}
  BY DEF HeldUnits
<1> QED BY <1>1 DEF LedgerBalanced, Units

LEMMA BalancedAfter ==
    ASSUME \A d \in Dims, s \in Time : reserved'[d][s] = Cardinality(HeldUnits(d, s)')
    PROVE  LedgerBalanced'
<1>1. ASSUME NEW d \in Dims, NEW s \in Time
      PROVE  HeldUnits(d, s)' = {c \in {b \in Calls : /\ row'[b][d].state \in Held
                                                      /\ row'[b][d].win = s} : row'[c][d].units = 1}
  BY DEF HeldUnits
<1> QED BY <1>1 DEF LedgerBalanced, Units

----------------------------------------------------------------------------
(* Settlement.                                                             *)

Outcomes == {"unsent", "response", "refused", "ambiguous"}

\* What a settlement makes of a row.
LEMMA SettledRowIs ==
    ASSUME NEW r \in Row, r.state = "pending", NEW d \in Dims, NEW o \in Outcomes
    PROVE  /\ SettledRow(r, d, o) \in Row
           /\ SettledRow(r, d, o).win = r.win
           /\ o = "ambiguous" => /\ SettledRow(r, d, o).state = "uncertain"
                                 /\ SettledRow(r, d, o).units = r.units
           /\ o # "ambiguous" => SettledRow(r, d, o).state \in {"settled", "not_sent"}
           /\ SettledRow(r, d, o).state = "not_sent" =>
                  o = "unsent" /\ SettledRow(r, d, o).units = 0
           /\ o = "unsent" /\ d # "inflight" => SettledRow(r, d, o).state = "not_sent"
           /\ d = "inflight" => SettledRow(r, d, o).units = r.units
BY DEF SettledRow, Row, Outcomes, Dims

\* The rows after a settlement.
LEMMA SettleRows ==
    ASSUME TypeOK, NEW c \in Calls, NEW o \in Outcomes, Settle(c, o)
    PROVE  /\ row' \in [Calls -> [Dims -> Row]]
           /\ \A b \in Calls \ {c} : row'[b] = row[b]
           /\ \A d \in PendingRows(c) :
                 d \in Dims /\ row'[c][d] = SettledRow(row[c][d], d, o)
           /\ \A d \in Dims \ PendingRows(c) : row'[c][d] = row[c][d]
           /\ \A d \in Dims : row'[c][d].win = row[c][d].win
<1>1. row \in [Calls -> [Dims -> Row]]
  BY DEF TypeOK
<1> DEFINE new == [d \in Dims |-> IF d \in PendingRows(c) THEN SettledRow(row[c][d], d, o)
                                  ELSE row[c][d]]
<1>2. row' = [row EXCEPT ![c] = new]
  BY <1>1 DEF Settle
<1>3. PendingRows(c) \subseteq Dims
  BY DEF PendingRows
<1>4. ASSUME NEW d \in PendingRows(c)
      PROVE  SettledRow(row[c][d], d, o) \in Row /\ SettledRow(row[c][d], d, o).win = row[c][d].win
  <2>1. row[c][d] \in Row /\ row[c][d].state = "pending" /\ d \in Dims
    BY <1>1 DEF PendingRows
  <2> QED BY <2>1, SettledRowIs
<1>5. new \in [Dims -> Row]
  <2>1. ASSUME NEW d \in Dims PROVE new[d] \in Row
    BY <1>1, <1>4
  <2> QED BY <2>1
<1>6. row' \in [Calls -> [Dims -> Row]] /\ row'[c] = new /\ \A b \in Calls \ {c} : row'[b] = row[b]
  <2> HIDE DEF new
  <2> QED BY <1>1, <1>2, <1>5
<1> QED BY <1>3, <1>4, <1>6

\* The counters after a settlement: a row that leaves pending and uncertain
\* takes its unit with it, and no other.
LEMMA SettleCounters ==
    ASSUME TypeOK, LedgerBalanced, NEW c \in Calls, NEW o \in Outcomes, Settle(c, o),
           NEW d \in Dims, NEW s \in Time
    PROVE  /\ reserved'[d][s] = Cardinality(HeldUnits(d, s)')
           /\ reserved'[d][s] \in Nat
           /\ d \notin PendingRows(c) \/ row[c][d].win # s => reserved'[d][s] = reserved[d][s]
<1>1. row[c][d] \in Row /\ reserved \in [Dims -> [Time -> Nat]]
  BY DEF TypeOK
<1>2. /\ \A b \in Calls \ {c} : row'[b] = row[b]
      /\ d \in PendingRows(c) => row'[c][d] = SettledRow(row[c][d], d, o)
      /\ d \notin PendingRows(c) => row'[c][d] = row[c][d]
      /\ row'[c][d].win = row[c][d].win
  BY SettleRows
<1>3. reserved[d][s] = Cardinality(HeldUnits(d, s)) /\ reserved[d][s] \in Nat
  BY <1>1, BalancedIs
<1> DEFINE w == row[c][d].win
           f == Freed(c, d, o)
<1>4. w \in Time /\ row[c][d].units \in {0, 1} /\ f \in {0, 1}
  BY <1>1 DEF Row, Freed
<1>5. reserved'[d] = [reserved[d] EXCEPT ![w] = Max({0, reserved[d][w] - f})]
  BY <1>1, <1>4 DEF Settle
<1>6. reserved'[d][s] = IF s = w THEN Max({0, reserved[d][s] - f}) ELSE reserved[d][s]
  <2> HIDE DEF f, w
  <2> QED BY <1>1, <1>4, <1>5
<1>7. Max({0, reserved[d][s] - f}) = IF reserved[d][s] - f >= 0 THEN reserved[d][s] - f ELSE 0
  BY <1>3, <1>4, MaxOfZero
<1>8. CASE d \in PendingRows(c) /\ o # "ambiguous" /\ s = w /\ row[c][d].units = 1
  <2>1. row[c][d].state = "pending"
    BY <1>8 DEF PendingRows
  <2>2. row'[c][d].state \in {"settled", "not_sent"}
    BY <1>1, <1>2, <1>8, <2>1, SettledRowIs
  <2>3. c \in HeldUnits(d, s) /\ f = 1
    BY <1>8, <2>1 DEF HeldUnits, Held, Freed
  <2>4. HeldUnits(d, s)' = HeldUnits(d, s) \ {c}
    BY <1>2, <2>2 DEF HeldUnits, Held
  <2>5. Cardinality(HeldUnits(d, s) \ {c}) = Cardinality(HeldUnits(d, s)) - 1
        /\ Cardinality(HeldUnits(d, s) \ {c}) \in Nat
    BY <2>3, HeldUnitsFinite, FS_RemoveElement, FS_CardinalityType
  <2>6. reserved'[d][s] = Cardinality(HeldUnits(d, s)) - 1
    BY <1>3, <1>6, <1>7, <1>8, <2>3, <2>5
  <2> QED BY <2>4, <2>5, <2>6, <1>8
<1>9. CASE ~(d \in PendingRows(c) /\ o # "ambiguous" /\ s = w /\ row[c][d].units = 1)
  <2>1. s = w => f = 0
    BY <1>4, <1>9 DEF Freed
  <2>2. reserved'[d][s] = reserved[d][s]
    BY <1>3, <1>6, <1>7, <2>1
  <2>3. HeldUnits(d, s)' = HeldUnits(d, s)
    <3>1. ASSUME NEW b \in Calls PROVE b \in HeldUnits(d, s)' <=> b \in HeldUnits(d, s)
      <4>1. CASE b # c
        BY <1>2, <4>1 DEF HeldUnits
      <4>2. CASE b = c /\ (d \notin PendingRows(c) \/ s # w)
        BY <1>2, <4>2 DEF HeldUnits
      <4>3. CASE b = c /\ d \in PendingRows(c) /\ s = w /\ o = "ambiguous"
        <5>1. row[c][d].state = "pending"
          BY <4>3 DEF PendingRows
        <5>2. row'[c][d].state = "uncertain" /\ row'[c][d].units = row[c][d].units
          BY <1>1, <1>2, <4>3, <5>1, SettledRowIs
        <5> QED BY <1>2, <4>3, <5>1, <5>2 DEF HeldUnits, Held
      <4>4. CASE b = c /\ d \in PendingRows(c) /\ s = w /\ o # "ambiguous"
        <5>1. row[c][d].units # 1
          BY <1>9, <4>4
        <5>2. row[c][d].state = "pending"
          BY <4>4 DEF PendingRows
        <5>3. row'[c][d].state \in {"settled", "not_sent"}
          BY <1>1, <1>2, <4>4, <5>2, SettledRowIs
        <5> QED BY <4>4, <5>1, <5>3 DEF HeldUnits, Held
      <4> QED BY <4>1, <4>2, <4>3, <4>4
    <3>2. HeldUnits(d, s)' \subseteq Calls /\ HeldUnits(d, s) \subseteq Calls
      BY DEF HeldUnits
    <3> QED BY <3>1, <3>2
  <2> QED BY <1>3, <2>2, <2>3
<1> QED BY <1>8, <1>9

\* The claims after a settlement: only the claim its own pending row points at
\* changes, and it is given up only when nobody else counts on it.
LEMMA SettleClaims ==
    ASSUME TypeOK, NEW c \in Calls, NEW o \in Outcomes, Settle(c, o)
    PROVE  LET k == <<SymbolOf[c], row[c]["symbols"].win>> IN
           /\ claim' \in [Symbols \X Time -> Claim]
           /\ \A j \in Symbols \X Time : j # k => claim'[j] = claim[j]
           /\ "symbols" \notin PendingRows(c) => claim'[k] = claim[k]
           /\ claim'[k] = Unclaimed /\ claim[k] # Unclaimed =>
                 /\ o = "unsent" /\ "symbols" \in PendingRows(c)
                 /\ \A b \in Sharers(c) :
                       row[b]["symbols"].state \notin {"pending", "settled", "uncertain"}
<1> DEFINE k == <<SymbolOf[c], row[c]["symbols"].win>>
<1>1. row[c]["symbols"] \in Row /\ claim \in [Symbols \X Time -> Claim]
  BY DEF TypeOK, Dims
<1>2. k \in Symbols \X Time /\ claim[k] \in Claim
  BY <1>1, QuotaAssumption DEF Row
<1>3. PICK n \in SettledClaim(c, o) : claim' = [claim EXCEPT ![k] = n]
  BY DEF Settle
<1>4. /\ n \in Claim
      /\ "symbols" \notin PendingRows(c) => n = claim[k]
      /\ n = Unclaimed /\ claim[k] # Unclaimed =>
            /\ o = "unsent" /\ "symbols" \in PendingRows(c)
            /\ \A b \in Sharers(c) :
                  row[b]["symbols"].state \notin {"pending", "settled", "uncertain"}
  <2> DEFINE in(S) == {b \in Sharers(c) : row[b]["symbols"].state \in S}
  <2>1. CASE claim[k].state # "pending" \/ "symbols" \notin PendingRows(c)
    <3>1. n = claim[k]
      BY <1>3, <2>1 DEF SettledClaim
    <3> QED BY <1>2, <3>1
  <2>2. CASE ~(claim[k].state # "pending" \/ "symbols" \notin PendingRows(c)) /\ o # "unsent"
    <3>1. n = [state |-> IF o = "ambiguous" THEN "uncertain" ELSE "consumed", owner |-> None]
      BY <1>3, <2>2 DEF SettledClaim
    <3> QED BY <2>2, <3>1 DEF Claim, Unclaimed
  <2>3. CASE ~(claim[k].state # "pending" \/ "symbols" \notin PendingRows(c)) /\ o = "unsent"
             /\ claim[k].owner # c
    <3>1. n = claim[k]
      BY <1>3, <2>3 DEF SettledClaim
    <3> QED BY <1>2, <2>3, <3>1
  <2>4. CASE /\ ~(claim[k].state # "pending" \/ "symbols" \notin PendingRows(c)) /\ o = "unsent"
             /\ claim[k].owner = c
    <3>0. in({"settled", "uncertain"}) \subseteq Calls /\ in({"pending"}) \subseteq Calls
      BY DEF Sharers
    <3>1. CASE in({"settled", "uncertain"}) # {}
      <4>1. n \in {[state |-> IF row[b]["symbols"].state = "uncertain"
                              THEN "uncertain" ELSE "consumed",
                    owner |-> None] : b \in in({"settled", "uncertain"})}
        BY <1>3, <2>4, <3>1 DEF SettledClaim
      <4>2. n = [state |-> "uncertain", owner |-> None] \/ n = [state |-> "consumed", owner |-> None]
        BY <4>1
      <4> QED BY <2>4, <4>2 DEF Claim, Unclaimed
    <3>2. CASE in({"settled", "uncertain"}) = {} /\ in({"pending"}) # {}
      <4>1. n \in {[state |-> "pending", owner |-> b] : b \in in({"pending"})}
        BY <1>3, <2>4, <3>2 DEF SettledClaim
      <4>2. PICK b \in Calls : n = [state |-> "pending", owner |-> b]
        BY <3>0, <4>1
      <4> QED BY <2>4, <4>2 DEF Claim, Unclaimed
    <3>3. CASE in({"settled", "uncertain"}) = {} /\ in({"pending"}) = {}
      <4>1. n = Unclaimed
        BY <1>3, <2>4, <3>3 DEF SettledClaim
      <4>2. ASSUME NEW b \in Sharers(c)
            PROVE  row[b]["symbols"].state \notin {"pending", "settled", "uncertain"}
        BY <3>3
      <4> QED BY <2>4, <4>1, <4>2 DEF Claim, Unclaimed
    <3> QED BY <3>1, <3>2, <3>3
  <2> QED BY <2>1, <2>2, <2>3, <2>4
<1>5. claim'[k] = n /\ claim' \in [Symbols \X Time -> Claim]
      /\ \A j \in Symbols \X Time : j # k => claim'[j] = claim[j]
  <2> HIDE DEF k
  <2> QED BY <1>1, <1>2, <1>3, <1>4
<1> QED BY <1>4, <1>5

\* A settlement keeps the invariant.
LEMMA SettleKeeps ==
    ASSUME QuotaInv, NEW c \in Calls, NEW o \in Outcomes, Settle(c, o),
           phase[c] \in {"admitted", "sent", "answered"},
           NEW q \in {"answered", "done"}, phase' = [phase EXCEPT ![c] = q]
    PROVE  QuotaInv'
<1>0. TypeOK /\ LedgerBalanced
  BY DEF QuotaInv
<1>1. /\ row' \in [Calls -> [Dims -> Row]]
      /\ \A b \in Calls \ {c} : row'[b] = row[b]
      /\ \A d \in PendingRows(c) :
            d \in Dims /\ row'[c][d] = SettledRow(row[c][d], d, o)
      /\ \A d \in Dims \ PendingRows(c) : row'[c][d] = row[c][d]
      /\ \A d \in Dims : row'[c][d].win = row[c][d].win
  BY <1>0, SettleRows
<1>2. UNCHANGED <<now, created, baselines, reading>>
  BY DEF Settle
<1>3. \A d \in Dims, s \in Time :
          /\ reserved'[d][s] = Cardinality(HeldUnits(d, s)')
          /\ reserved'[d][s] \in Nat
          /\ d \notin PendingRows(c) \/ row[c][d].win # s => reserved'[d][s] = reserved[d][s]
  BY <1>0, SettleCounters
<1> DEFINE k == <<SymbolOf[c], row[c]["symbols"].win>>
<1>4. /\ claim' \in [Symbols \X Time -> Claim]
      /\ \A j \in Symbols \X Time : j # k => claim'[j] = claim[j]
      /\ "symbols" \notin PendingRows(c) => claim'[k] = claim[k]
      /\ claim'[k] = Unclaimed /\ claim[k] # Unclaimed =>
            /\ o = "unsent" /\ "symbols" \in PendingRows(c)
            /\ \A b \in Sharers(c) :
                  row[b]["symbols"].state \notin {"pending", "settled", "uncertain"}
  BY <1>0, SettleClaims
<1>5. /\ phase' \in [Calls -> {"new", "asking", "denied", "admitted", "sent", "answered", "done"}]
      /\ phase'[c] = q /\ \A b \in Calls \ {c} : phase'[b] = phase[b]
  BY <1>0 DEF TypeOK
<1>6. ASSUME NEW d \in PendingRows(c)
      PROVE  row[c][d] \in Row /\ row[c][d].state = "pending" /\ d \in Dims
  BY <1>0 DEF TypeOK, PendingRows
<1>7. TypeOK'
  <2>1. reserved' \in [Dims -> [Time -> Nat]]
    <3>1. reserved' = [d \in Dims |->
                         [reserved[d] EXCEPT ![row[c][d].win] =
                             Max({0, @ - Freed(c, d, o)})]]
      BY DEF Settle
    <3>2. ASSUME NEW d \in Dims PROVE reserved'[d] \in [Time -> Nat]
      <4>1. DOMAIN reserved'[d] = Time /\ reserved'[d] = [s \in Time |-> reserved'[d][s]]
        BY <1>0, <3>1 DEF TypeOK
      <4> QED BY <1>3, <4>1
    <3> QED BY <3>1, <3>2
  <2> QED BY <1>0, <1>1, <1>2, <1>4, <1>5, <2>1 DEF TypeOK
<1>8. TimesOK'
  BY <1>2 DEF QuotaInv, TimesOK
<1>9. StagesOK'
  BY <1>1, <1>5 DEF QuotaInv, StagesOK
<1>10. RowsOK'
  <2>0. \A b \in Calls : RowOK(b)
    BY DEF QuotaInv, RowsOK
  <2>1. \A b \in Calls \ {c} : RowOK(b)'
    BY <1>1, <1>2, <2>0 DEF RowOK
  <2>2. row'[c]["inflight"].state # "none" => row'[c]["inflight"].units = 1
    <3>1. CASE "inflight" \in PendingRows(c)
      <4>1. row'[c]["inflight"].units = row[c]["inflight"].units
        BY <1>1, <1>6, <3>1, SettledRowIs
      <4>2. row[c]["inflight"].state = "pending"
        BY <1>6, <3>1
      <4> QED BY <2>0, <4>1, <4>2 DEF RowOK
    <3>2. CASE "inflight" \notin PendingRows(c)
      <4>1. row'[c]["inflight"] = row[c]["inflight"]
        BY <1>1, <3>2 DEF Dims
      <4> QED BY <2>0, <4>1 DEF RowOK
    <3> QED BY <3>1, <3>2
  <2>3. /\ row'[c]["requests"].state # "none" =>
              row'[c]["requests"].win = Start("requests", created[c])
        /\ row'[c]["requests"].state \in Held => row'[c]["requests"].units = 1
        /\ row'[c]["requests"].units = 1 =>
              row'[c]["requests"].state \in {"pending", "uncertain", "settled"}
    <3>1. CASE "requests" \in PendingRows(c)
      <4>1. /\ row'[c]["requests"].state \in {"uncertain", "settled", "not_sent"}
            /\ row'[c]["requests"].state = "not_sent" => row'[c]["requests"].units = 0
            /\ row'[c]["requests"].state = "uncertain" =>
                  row'[c]["requests"].units = row[c]["requests"].units
        BY <1>1, <1>6, <3>1, SettledRowIs
      <4>2. /\ row[c]["requests"].win = Start("requests", created[c])
            /\ row[c]["requests"].units = 1
        <5>1. row[c]["requests"].state = "pending"
          BY <1>6, <3>1
        <5> QED BY <2>0, <5>1 DEF RowOK, Held
      <4>3. row'[c]["requests"].win = row[c]["requests"].win
        BY <1>1 DEF Dims
      <4> QED BY <4>1, <4>2, <4>3 DEF Held
    <3>2. CASE "requests" \notin PendingRows(c)
      <4>1. row'[c]["requests"] = row[c]["requests"]
        BY <1>1, <3>2 DEF Dims
      <4> QED BY <2>0, <4>1 DEF RowOK
    <3> QED BY <3>1, <3>2
  <2>4. RowOK(c)'
    BY <1>2, <2>2, <2>3 DEF RowOK
  <2> QED BY <2>1, <2>4 DEF RowsOK
<1>11. ReadingOK'
  <2> SUFFICES ASSUME reading # None PROVE ReadingOK'
    BY <1>2 DEF ReadingOK
  <2>1. /\ reading.call \in Calls /\ reading.win \in [Dims -> Time]
        /\ phase[reading.call] = "asking"
        /\ reading.charge["requests"] = 1 /\ reading.charge["inflight"] = 1
        /\ reading.win["requests"] = Start("requests", created[reading.call])
        /\ reading.counted["requests"] = reserved["requests"][reading.win["requests"]]
        /\ reading.charge["symbols"] = 0 =>
              claim[<<SymbolOf[reading.call], reading.win["symbols"]>>] # Unclaimed
    BY DEF QuotaInv, TypeOK, ReadingOK
  <2>2. reading.call # c
    BY <2>1
  <2>3. phase'[reading.call] = "asking"
    BY <1>5, <2>1, <2>2
  <2>4. \A d \in PendingRows(c) : row[c][d].win # reading.win[d]
    BY DEF Settle, RowsFree
  <2>5. reserved'["requests"][reading.win["requests"]] = reserved["requests"][reading.win["requests"]]
    BY <1>3, <2>1, <2>4 DEF Dims
  <2>6. claim'[<<SymbolOf[reading.call], reading.win["symbols"]>>]
          = claim[<<SymbolOf[reading.call], reading.win["symbols"]>>]
    <3> DEFINE j == <<SymbolOf[reading.call], reading.win["symbols"]>>
    <3>1. j \in Symbols \X Time
      BY <2>1, QuotaAssumption DEF Dims
    <3>2. CASE "symbols" \in PendingRows(c)
      <4>1. j # k
        BY <2>4, <3>2
      <4> QED BY <1>4, <3>1, <4>1
    <3>3. CASE "symbols" \notin PendingRows(c)
      BY <1>4, <3>1, <3>3
    <3> QED BY <3>2, <3>3
  <2> QED BY <1>2, <2>1, <2>3, <2>5, <2>6 DEF ReadingOK
<1>12. LedgerBalanced'
  BY <1>3, BalancedAfter
<1>13. SentIsClaimed'
  <2> SUFFICES ASSUME NEW b \in Calls,
                      row'[b]["symbols"].state \in {"pending", "settled", "uncertain"}
               PROVE  claim'[<<SymbolOf[b], row'[b]["symbols"].win>>] # Unclaimed
    BY DEF SentIsClaimed
  <2> DEFINE j == <<SymbolOf[b], row[b]["symbols"].win>>
  <2>1. row'[b]["symbols"].win = row[b]["symbols"].win /\ row[b]["symbols"] \in Row
    BY <1>0, <1>1 DEF TypeOK, Dims
  <2>2. row[b]["symbols"].state \in {"pending", "settled", "uncertain"}
    <3>1. CASE b # c
      BY <1>1, <3>1
    <3>2. CASE b = c /\ "symbols" \in PendingRows(c)
      BY <1>6, <3>2
    <3>3. CASE b = c /\ "symbols" \notin PendingRows(c)
      BY <1>1, <3>3 DEF Dims
    <3> QED BY <3>1, <3>2, <3>3
  <2>3. claim[j] # Unclaimed /\ j \in Symbols \X Time
    BY <2>1, <2>2, QuotaAssumption DEF QuotaInv, SentIsClaimed, Row
  <2>4. CASE j # k
    BY <1>4, <2>1, <2>3, <2>4
  <2>5. CASE j = k /\ b # c
    <3>1. b \in Sharers(c)
      BY <2>5 DEF Sharers
    <3>2. claim'[k] # Unclaimed
      BY <1>4, <2>2, <2>3, <2>5, <3>1
    <3> QED BY <2>1, <2>5, <3>2
  <2>6. CASE b = c
    <3>1. ASSUME claim'[k] = Unclaimed PROVE FALSE
      <4>1. o = "unsent" /\ "symbols" \in PendingRows(c)
        BY <1>4, <2>3, <2>6, <3>1
      <4>2. row'[c]["symbols"].state = "not_sent"
        BY <1>1, <1>6, <4>1, SettledRowIs
      <4> QED BY <2>6, <4>2
    <3> QED BY <2>1, <2>6, <3>1
  <2> QED BY <2>4, <2>5, <2>6
<1> QED BY <1>7, <1>8, <1>9, <1>10, <1>11, <1>12, <1>13 DEF QuotaInv

----------------------------------------------------------------------------
(* Reservation.                                                            *)

\* The rows after expired leases were released: only the leases change.
LEMMA ExpiredRows ==
    ASSUME TypeOK, NEW c \in Calls, BeginReserve(c)
    PROVE  /\ row' \in [Calls -> [Dims -> Row]]
           /\ \A b \in Calls : \A d \in Dims \ {"inflight"} : row'[b][d] = row[b][d]
           /\ \A b \in Calls : ~LeaseOver(b, created[c]) => row'[b] = row[b]
           /\ \A b \in Calls : LeaseOver(b, created[c]) =>
                 /\ row'[b]["inflight"].state = "lease_expired"
                 /\ row'[b]["inflight"].win = row[b]["inflight"].win
                 /\ row'[b]["inflight"].units = row[b]["inflight"].units
<1>1. row \in [Calls -> [Dims -> Row]] /\ "inflight" \in Dims
  BY DEF TypeOK, Dims
<1>2. row' = [b \in Calls |-> IF LeaseOver(b, created[c])
                              THEN [row[b] EXCEPT !["inflight"].state = "lease_expired"]
                              ELSE row[b]]
  BY DEF BeginReserve
<1>3. ASSUME NEW b \in Calls, LeaseOver(b, created[c])
      PROVE  /\ row'[b] \in [Dims -> Row]
             /\ \A d \in Dims \ {"inflight"} : row'[b][d] = row[b][d]
             /\ row'[b]["inflight"].state = "lease_expired"
             /\ row'[b]["inflight"].win = row[b]["inflight"].win
             /\ row'[b]["inflight"].units = row[b]["inflight"].units
  <2> DEFINE r == row[b]["inflight"]
             n == [r EXCEPT !.state = "lease_expired"]
  <2>1. r \in Row /\ row[b] \in [Dims -> Row]
    BY <1>1
  <2>2. n \in Row /\ n.state = "lease_expired" /\ n.win = r.win /\ n.units = r.units
    BY <2>1 DEF Row
  <2>3. row'[b] = [row[b] EXCEPT !["inflight"] = n]
    BY <1>1, <1>2, <1>3
  <2> HIDE DEF n
  <2>4. row'[b]["inflight"] = n
    BY <1>1, <2>1, <2>3
  <2> QED BY <1>1, <2>1, <2>2, <2>3, <2>4
<1>4. ASSUME NEW b \in Calls, ~LeaseOver(b, created[c]) PROVE row'[b] = row[b]
  BY <1>2, <1>4
<1>5. row' \in [Calls -> [Dims -> Row]]
  <2>1. \A b \in Calls : row'[b] \in [Dims -> Row]
    BY <1>1, <1>3, <1>4
  <2>2. row' = [b \in Calls |-> row'[b]]
    BY <1>2
  <2> QED BY <2>1, <2>2
<1> QED BY <1>3, <1>4, <1>5

\* The counters of the concurrency windows lose exactly the expired leases.
LEMMA ExpiredCounters ==
    ASSUME TypeOK, LedgerBalanced, RowsOK, NEW c \in Calls, BeginReserve(c),
           NEW d \in Dims, NEW s \in Time
    PROVE  /\ reserved'[d][s] = Cardinality(HeldUnits(d, s)')
           /\ reserved'[d][s] \in Nat
           /\ d # "inflight" => reserved'[d] = reserved[d]
<1> DEFINE t == created[c]
           Over == {b \in Calls : LeaseOver(b, t) /\ row[b]["inflight"].win = s}
           g == [u \in Time |-> Max({0, reserved["inflight"][u] - FreedLeases(t, u)})]
<1>1. reserved \in [Dims -> [Time -> Nat]] /\ "inflight" \in Dims
  BY DEF TypeOK, Dims
<1>2. reserved' = [reserved EXCEPT !["inflight"] = g]
  BY <1>1 DEF BeginReserve
<1>3. /\ d # "inflight" => reserved'[d] = reserved[d]
      /\ d = "inflight" => reserved'[d] = g
  <2> HIDE DEF g
  <2> QED BY <1>1, <1>2
<1>4. reserved[d][s] = Cardinality(HeldUnits(d, s)) /\ reserved[d][s] \in Nat
  BY <1>1, BalancedIs
<1>5. /\ \A b \in Calls : \A e \in Dims \ {"inflight"} : row'[b][e] = row[b][e]
      /\ \A b \in Calls : ~LeaseOver(b, t) => row'[b] = row[b]
      /\ \A b \in Calls : LeaseOver(b, t) => row'[b]["inflight"].state = "lease_expired"
  BY ExpiredRows
<1>6. CASE d # "inflight"
  <2>1. HeldUnits(d, s)' = HeldUnits(d, s)
    BY <1>5, <1>6 DEF HeldUnits
  <2> QED BY <1>3, <1>4, <1>6, <2>1
<1>7. CASE d = "inflight"
  <2>1. Over \subseteq HeldUnits(d, s)
    <3>1. ASSUME NEW b \in Over PROVE b \in HeldUnits(d, s)
      <4>1. row[b]["inflight"].state \in Held /\ row[b]["inflight"].win = s
        BY DEF LeaseOver
      <4>2. row[b]["inflight"].units = 1
        BY <4>1 DEF RowsOK, RowOK, Held
      <4> QED BY <1>7, <4>1, <4>2 DEF HeldUnits
    <3> QED BY <3>1
  <2>2. HeldUnits(d, s)' = HeldUnits(d, s) \ Over
    BY <1>5, <1>7 DEF HeldUnits, Held
  <2>3. HeldUnits(d, s) \cap Over = Over
    BY <2>1
  <2>4. /\ Cardinality(HeldUnits(d, s) \ Over) = Cardinality(HeldUnits(d, s)) - Cardinality(Over)
        /\ Cardinality(HeldUnits(d, s) \ Over) \in Nat /\ Cardinality(Over) \in Nat
    <3> HIDE DEF Over
    <3>1. IsFiniteSet(HeldUnits(d, s)) /\ IsFiniteSet(Over)
      BY <2>1, HeldUnitsFinite, FS_Subset
    <3> QED BY <2>3, <3>1, FS_Difference, FS_CardinalityType
  <2>5. FreedLeases(t, s) = Cardinality(Over)
    BY DEF FreedLeases
  <2>6. reserved'[d][s] = Max({0, reserved[d][s] - Cardinality(Over)})
    BY <1>3, <1>7, <2>5
  <2>7. reserved[d][s] - Cardinality(Over) \in Nat
    BY <1>4, <2>4
  <2>8. reserved'[d][s] = reserved[d][s] - Cardinality(Over)
    <3> HIDE DEF Over
    <3> QED BY <2>6, <2>7, MaxOfZero
  <2> QED BY <1>4, <1>7, <2>2, <2>4, <2>8
<1> QED BY <1>3, <1>6, <1>7

\* The window a reservation uses: a moment of the clock, and for a symbol
\* that costs nothing one in which the symbol is claimed.
LEMMA WindowIs ==
    ASSUME TypeOK, NEW c \in Calls, NEW d \in Dims, NEW t \in Time
    PROVE  /\ WindowOf(c, d, t) \in Time
           /\ Charge(c, d, t) \in {0, 1}
           /\ d # "symbols" => WindowOf(c, d, t) = Start(d, t) /\ Charge(c, d, t) = 1
           /\ Charge(c, d, t) = 0 => /\ d = "symbols"
                                     /\ claim[<<SymbolOf[c], WindowOf(c, d, t)>>] # Unclaimed
<1> DEFINE S == ActiveClaims(SymbolOf[c], t)
<1>1. CASE d = "symbols" /\ S # {}
  <2>1. S \in SUBSET Int /\ MaxTime \in Int /\ \A x \in S : x <= MaxTime
    BY QuotaAssumption DEF ActiveClaims, Time
  <2>2. Max(S) \in S
    <3> HIDE DEF S
    <3> QED BY <1>1, <2>1, MaxIsGreatest
  <2>3. WindowOf(c, d, t) = Max(S) /\ Charge(c, d, t) = 0
    BY <1>1 DEF WindowOf, Charge
  <2> QED BY <1>1, <2>2, <2>3 DEF ActiveClaims
<1>2. CASE ~(d = "symbols" /\ S # {})
  <2>1. WindowOf(c, d, t) = Start(d, t) /\ Charge(c, d, t) = 1
    BY <1>2 DEF WindowOf, Charge
  <2> QED BY <1>2, <2>1, StartIsTime
<1> QED BY <1>1, <1>2

\* The first half of a reservation keeps the invariant.
LEMMA BeginReserveKeeps ==
    ASSUME QuotaInv, NEW c \in Calls, BeginReserve(c)
    PROVE  QuotaInv'
<1> DEFINE t == created[c]
<1>0. TypeOK /\ LedgerBalanced /\ RowsOK
  BY DEF QuotaInv
<1>1. t \in Time /\ phase[c] = "asking"
  BY <1>0 DEF TypeOK, BeginReserve
<1>2. UNCHANGED <<now, phase, created, claim, baselines>>
  BY DEF BeginReserve
<1>3. /\ row' \in [Calls -> [Dims -> Row]]
      /\ \A b \in Calls : \A d \in Dims \ {"inflight"} : row'[b][d] = row[b][d]
      /\ \A b \in Calls : ~LeaseOver(b, t) => row'[b] = row[b]
      /\ \A b \in Calls : LeaseOver(b, t) =>
            /\ row'[b]["inflight"].state = "lease_expired"
            /\ row'[b]["inflight"].win = row[b]["inflight"].win
            /\ row'[b]["inflight"].units = row[b]["inflight"].units
  BY <1>0, ExpiredRows
<1>4. \A d \in Dims, s \in Time : /\ reserved'[d][s] = Cardinality(HeldUnits(d, s)')
                                  /\ reserved'[d][s] \in Nat
                                  /\ d # "inflight" => reserved'[d] = reserved[d]
  BY <1>0, ExpiredCounters
<1>5. reading' = [call |-> c,
                  win |-> [d \in Dims |-> WindowOf(c, d, t)],
                  charge |-> [d \in Dims |-> Charge(c, d, t)],
                  counted |-> [d \in Dims |-> ReservedUnits(d, WindowOf(c, d, t), t)],
                  expired |-> {b \in Calls : LeaseOver(b, t)}]
  BY DEF BeginReserve
<1>6. /\ reading'.call = c
      /\ reading'.win = [d \in Dims |-> WindowOf(c, d, t)]
      /\ reading'.charge = [d \in Dims |-> Charge(c, d, t)]
      /\ reading'.counted = [d \in Dims |-> ReservedUnits(d, WindowOf(c, d, t), t)]
      /\ reading'.expired \subseteq Calls
  BY <1>5
<1>7. \A d \in Dims :
         /\ WindowOf(c, d, t) \in Time
         /\ Charge(c, d, t) \in {0, 1}
         /\ d # "symbols" => WindowOf(c, d, t) = Start(d, t) /\ Charge(c, d, t) = 1
         /\ Charge(c, d, t) = 0 => /\ d = "symbols"
                                   /\ claim[<<SymbolOf[c], WindowOf(c, d, t)>>] # Unclaimed
  BY <1>0, <1>1, WindowIs
<1>8. TypeOK'
  <2>1. reserved' \in [Dims -> [Time -> Nat]]
    <3> DEFINE g == [s \in Time |-> Max({0, reserved["inflight"][s] - FreedLeases(t, s)})]
    <3>1. reserved \in [Dims -> [Time -> Nat]] /\ "inflight" \in Dims
      BY <1>0 DEF TypeOK, Dims
    <3>2. reserved' = [reserved EXCEPT !["inflight"] = g]
      BY <3>1 DEF BeginReserve
    <3>3. reserved'["inflight"] = g
      <4> HIDE DEF g
      <4> QED BY <3>1, <3>2
    <3>4. g \in [Time -> Nat]
      <4>1. ASSUME NEW s \in Time PROVE g[s] \in Nat
        BY <1>4, <3>1, <3>3
      <4> QED BY <4>1
    <3> QED BY <3>1, <3>2, <3>4
  <2>2. reading'.win \in [Dims -> Time] /\ reading'.charge \in [Dims -> {0, 1}]
    <3>1. [d \in Dims |-> WindowOf(c, d, t)] \in [Dims -> Time]
      BY <1>7
    <3>2. [d \in Dims |-> Charge(c, d, t)] \in [Dims -> {0, 1}]
      BY <1>7
    <3> QED BY <1>6, <3>1, <3>2
  <2> QED BY <1>0, <1>2, <1>3, <1>6, <2>1, <2>2 DEF TypeOK
<1>9. TimesOK'
  BY <1>2 DEF QuotaInv, TimesOK
<1>10. StagesOK'
  <2>1. ASSUME NEW b \in Calls, phase[b] \in {"new", "asking", "denied"}
        PROVE  row'[b] = [d \in Dims |-> NoRow]
    <3>1. row[b] = [d \in Dims |-> NoRow]
      BY <2>1 DEF QuotaInv, StagesOK
    <3>2. ~LeaseOver(b, t)
      BY <3>1 DEF LeaseOver, Held, NoRow, Dims
    <3> QED BY <1>3, <3>1, <3>2
  <2> QED BY <1>2, <2>1 DEF StagesOK
<1>11. RowsOK'
  <2>1. ASSUME NEW b \in Calls PROVE RowOK(b)'
    <3>1. RowOK(b)
      BY <1>0 DEF RowsOK
    <3>2. row'[b]["requests"] = row[b]["requests"]
      BY <1>3 DEF Dims
    <3>3. row'[b]["inflight"].state # "none" => row'[b]["inflight"].units = 1
      <4>1. CASE LeaseOver(b, t)
        <5>1. row[b]["inflight"].state # "none"
          BY <4>1 DEF LeaseOver, Held
        <5> QED BY <1>3, <3>1, <4>1, <5>1 DEF RowOK
      <4>2. CASE ~LeaseOver(b, t)
        BY <1>3, <3>1, <4>2 DEF RowOK
      <4> QED BY <4>1, <4>2
    <3> QED BY <1>2, <3>1, <3>2, <3>3 DEF RowOK
  <2> QED BY <2>1 DEF RowsOK
<1>12. ReadingOK'
  <2>1. {"requests", "symbols", "inflight"} = Dims
    BY DEF Dims
  <2>2. /\ reading'.charge["requests"] = 1 /\ reading'.charge["inflight"] = 1
        /\ reading'.win["requests"] = Start("requests", t)
        /\ reading'.charge["symbols"] = 0 => claim[<<SymbolOf[c], reading'.win["symbols"]>>] # Unclaimed
    BY <1>6, <1>7, <2>1
  <2>3. reading'.counted["requests"] = reserved'["requests"][reading'.win["requests"]]
    <3>1. reading'.counted["requests"] = reserved["requests"][WindowOf(c, "requests", t)]
      BY <1>6, <2>1 DEF ReservedUnits
    <3>2. reserved'["requests"] = reserved["requests"] /\ reading'.win["requests"] = WindowOf(c, "requests", t)
      BY <1>1, <1>4, <1>6, <2>1
    <3> QED BY <3>1, <3>2
  <2> QED BY <1>1, <1>2, <1>6, <2>2, <2>3 DEF ReadingOK
<1>13. LedgerBalanced'
  BY <1>4, BalancedAfter
<1>14. SentIsClaimed'
  <2>1. \A b \in Calls : row'[b]["symbols"] = row[b]["symbols"]
    BY <1>3 DEF Dims
  <2> QED BY <1>2, <2>1 DEF QuotaInv, SentIsClaimed
<1> QED BY <1>8, <1>9, <1>10, <1>11, <1>12, <1>13, <1>14 DEF QuotaInv

\* The baseline of a reservation is a baseline no later than the reservation.
LEMMA BaselineIs ==
    ASSUME TypeOK, TimesOK, NEW d \in Dims, NEW t \in Time, t <= now, BaselineFor(d, t) # None
    PROVE  /\ BaselineFor(d, t) \in Baseline
           /\ BaselineFor(d, t).at <= now
           /\ \/ /\ ActiveBaselines(d, t) # {}
                 /\ BaselineFor(d, t) = Latest(ActiveBaselines(d, t))
                 /\ BaselineFor(d, t) \in ActiveBaselines(d, t)
              \/ /\ ActiveBaselines(d, t) = {}
                 /\ ~Rolling(d) => BaselineFor(d, t).start = Start(d, t)
<1>1. ActiveBaselines(d, t) \in SUBSET Baseline /\ \A b \in ActiveBaselines(d, t) : b.at <= now
  BY DEF TypeOK, TimesOK, ActiveBaselines
<1>2. now \in Nat /\ t \in Nat /\ Start(d, t) \in Nat /\ Start(d, t) <= t
  BY StartIsTime, QuotaAssumption DEF TypeOK, Time
<1>3. Seconds(d) \in Nat
  BY QuotaAssumption DEF Seconds, Dims
<1>4. CASE ActiveBaselines(d, t) # {}
  <2>1. Latest(ActiveBaselines(d, t)) \in ActiveBaselines(d, t)
    BY <1>1, <1>2, <1>4, LatestIsIn
  <2>2. BaselineFor(d, t) = Latest(ActiveBaselines(d, t))
    BY <1>4 DEF BaselineFor
  <2> QED BY <1>1, <1>4, <2>1, <2>2
<1>5. CASE ActiveBaselines(d, t) = {} /\ d \in LocalZero
  <2>1. BaselineFor(d, t) = [used |-> 0, at |-> t, start |-> Start(d, t), local |-> TRUE]
    BY <1>5 DEF BaselineFor
  <2> QED BY <1>2, <1>5, <2>1 DEF Baseline
<1>6. CASE ActiveBaselines(d, t) = {} /\ d \notin LocalZero
  <2> DEFINE r == IF Rolling(d) THEN t - Seconds(d) ELSE Start(d, t)
  <2>1. BaselineFor(d, t) = [used |-> 0, at |-> r, start |-> r, local |-> FALSE]
    BY <1>6 DEF BaselineFor
  <2>2. r \in Int /\ r <= now
    BY <1>2, <1>3
  <2>3. ~Rolling(d) => BaselineFor(d, t).start = Start(d, t)
    BY <2>1
  <2> HIDE DEF r
  <2>4. BaselineFor(d, t) \in Baseline /\ BaselineFor(d, t).at <= now
    BY <2>1, <2>2 DEF Baseline
  <2> QED BY <1>6, <2>3, <2>4
<1> QED BY <1>4, <1>5, <1>6

\* The second half of a reservation: what it does in any case, and what it
\* writes when it admits the call.
AdmitWrites(c) ==
    /\ phase' = [phase EXCEPT ![c] = "admitted"]
    /\ row' = [row EXCEPT ![c] = [d \in Dims |-> [state |-> "pending",
                                                  win |-> reading.win[d],
                                                  units |-> reading.charge[d]]]]
    /\ reserved' = [d \in Dims |-> [reserved[d] EXCEPT ![reading.win[d]] =
                                      @ + reading.charge[d]]]
    /\ claim' = IF reading.charge["symbols"] = 0 THEN claim
                ELSE [claim EXCEPT ![<<SymbolOf[c], reading.win["symbols"]>>] =
                                      [state |-> "pending", owner |-> c]]

Denies(c) ==
    /\ phase' = [phase EXCEPT ![c] = "denied"]
    /\ UNCHANGED <<row, reserved, claim>>

LEMMA ReserveIs ==
    ASSUME NEW c \in Calls, Reserve(c)
    PROVE  /\ reading # None /\ reading.call = c /\ reading' = None
           /\ UNCHANGED <<now, created>>
           /\ \/ Denies(c)
              \/ /\ AdmitWrites(c)
                 /\ \A d \in Usage : BaselineFor(d, created[c]) # None
                 /\ Fits("requests", reading.charge["requests"], reading.counted["requests"],
                         BaselineFor("requests", created[c]), created[c])
BY DEF Reserve, Denies, AdmitWrites, Usage, Dims

\* The baselines after a reservation.
LEMMA ReserveBaselines ==
    ASSUME TypeOK, TimesOK, NEW c \in Calls, Reserve(c)
    PROVE  /\ baselines' \in [Dims -> SUBSET Baseline]
           /\ \A d \in Dims : \A b \in baselines'[d] :
                 \/ b \in baselines[d]
                 \/ /\ BaselineFor(d, created[c]) # None
                    /\ b = BaselineFor(d, created[c])
           /\ \A d \in Dims : \A b \in baselines'[d] : b.at <= now
<1>1. created[c] \in Time /\ created[c] <= now /\ baselines \in [Dims -> SUBSET Baseline]
  BY DEF TypeOK, TimesOK
<1>2. ASSUME NEW d \in Dims, NEW b \in baselines'[d], b \notin baselines[d]
      PROVE  BaselineFor(d, created[c]) # None /\ b = BaselineFor(d, created[c])
  BY <1>2 DEF Reserve, WithBaseline, Usage
<1>3. ASSUME NEW d \in Dims, NEW b \in baselines'[d]
      PROVE  b \in Baseline /\ b.at <= now
  <2>1. CASE b \in baselines[d]
    BY <1>1, <2>1 DEF TimesOK
  <2>2. CASE b \notin baselines[d]
    BY <1>1, <1>2, <2>2, BaselineIs
  <2> QED BY <2>1, <2>2
<1>4. \E F : baselines' = [d \in Dims |-> F[d]]
  <2>1. baselines' = [d \in Dims |-> baselines'[d]]
    BY DEF Reserve
  <2> QED BY <2>1
<1> QED BY <1>2, <1>3, <1>4

\* The counters after an admission: each window has one more row with what
\* was charged.
LEMMA AdmitCounters ==
    ASSUME QuotaInv, NEW c \in Calls, reading # None, reading.call = c, AdmitWrites(c),
           NEW d \in Dims, NEW s \in Time
    PROVE  /\ reserved'[d][s] = Cardinality(HeldUnits(d, s)')
           /\ reserved'[d][s] \in Nat
<1>1. /\ reserved \in [Dims -> [Time -> Nat]] /\ row \in [Calls -> [Dims -> Row]]
      /\ reading.win[d] \in Time /\ reading.charge[d] \in {0, 1}
  BY DEF QuotaInv, TypeOK
<1>2. row[c][d].state = "none"
  BY DEF QuotaInv, StagesOK, ReadingOK, NoRow
<1>3. /\ row'[c][d].state = "pending" /\ row'[c][d].win = reading.win[d]
      /\ row'[c][d].units = reading.charge[d]
      /\ \A b \in Calls \ {c} : row'[b] = row[b]
  BY <1>1 DEF AdmitWrites
<1>4. reserved'[d][s] = IF s = reading.win[d] THEN reserved[d][s] + reading.charge[d]
                        ELSE reserved[d][s]
  BY <1>1 DEF AdmitWrites
<1>5. reserved[d][s] = Cardinality(HeldUnits(d, s)) /\ c \notin HeldUnits(d, s)
  BY <1>2, BalancedIs DEF QuotaInv, HeldUnits, Held
<1>6. CASE s = reading.win[d] /\ reading.charge[d] = 1
  <2>1. HeldUnits(d, s)' = HeldUnits(d, s) \cup {c}
    BY <1>3, <1>6 DEF HeldUnits, Held
  <2>2. Cardinality(HeldUnits(d, s) \cup {c}) = Cardinality(HeldUnits(d, s)) + 1
    BY <1>5, HeldUnitsFinite, FS_AddElement
  <2> QED BY <1>1, <1>4, <1>5, <1>6, <2>1, <2>2
<1>7. CASE ~(s = reading.win[d] /\ reading.charge[d] = 1)
  <2>1. HeldUnits(d, s)' = HeldUnits(d, s)
    <3>1. ASSUME NEW b \in Calls PROVE b \in HeldUnits(d, s)' <=> b \in HeldUnits(d, s)
      <4>1. CASE b = c
        BY <1>3, <1>5, <1>7, <4>1 DEF HeldUnits
      <4>2. CASE b # c
        BY <1>3, <4>2 DEF HeldUnits
      <4> QED BY <4>1, <4>2
    <3>2. HeldUnits(d, s)' \subseteq Calls /\ HeldUnits(d, s) \subseteq Calls
      BY DEF HeldUnits
    <3> QED BY <3>1, <3>2
  <2>2. reserved'[d][s] = reserved[d][s]
    BY <1>1, <1>4, <1>7
  <2> QED BY <1>1, <1>5, <2>1, <2>2
<1> QED BY <1>6, <1>7

\* The second half of a reservation keeps the invariant.
LEMMA ReserveKeeps ==
    ASSUME QuotaInv, NEW c \in Calls, Reserve(c)
    PROVE  QuotaInv'
<1>0. /\ TypeOK /\ TimesOK /\ LedgerBalanced
      /\ reading # None /\ reading.call = c /\ reading' = None
      /\ UNCHANGED <<now, created>>
      /\ Denies(c) \/ AdmitWrites(c)
  BY ReserveIs DEF QuotaInv
<1>1. /\ baselines' \in [Dims -> SUBSET Baseline]
      /\ \A d \in Dims : \A b \in baselines'[d] : b.at <= now
  BY <1>0, ReserveBaselines
<1>2. phase[c] = "asking" /\ row[c] = [d \in Dims |-> NoRow]
  BY <1>0 DEF QuotaInv, StagesOK, ReadingOK
<1>3. TimesOK' /\ ReadingOK'
  BY <1>0, <1>1 DEF TimesOK, ReadingOK
<1>4. CASE Denies(c)
  <2>1. TypeOK'
    BY <1>0, <1>1, <1>4 DEF TypeOK, Denies
  <2>2. StagesOK'
    BY <1>0, <1>2, <1>4 DEF QuotaInv, TypeOK, StagesOK, Denies
  <2>3. RowsOK' /\ SentIsClaimed'
    BY <1>0, <1>4 DEF QuotaInv, RowsOK, RowOK, SentIsClaimed, Denies
  <2>4. LedgerBalanced'
    BY <1>0, <1>4 DEF LedgerBalanced, Units, Denies
  <2> QED BY <1>3, <2>1, <2>2, <2>3, <2>4 DEF QuotaInv
<1>5. CASE AdmitWrites(c)
  <2>1. \A d \in Dims, s \in Time : /\ reserved'[d][s] = Cardinality(HeldUnits(d, s)')
                                    /\ reserved'[d][s] \in Nat
    BY <1>0, <1>5, AdmitCounters
  <2>2. /\ row \in [Calls -> [Dims -> Row]] /\ reading.win \in [Dims -> Time]
        /\ reading.charge \in [Dims -> {0, 1}]
        /\ phase \in [Calls -> {"new", "asking", "denied", "admitted", "sent",
                                "answered", "done"}]
        /\ claim \in [Symbols \X Time -> Claim]
    BY <1>0 DEF TypeOK
  <2>3. /\ row'[c] = [d \in Dims |-> [state |-> "pending", win |-> reading.win[d],
                                      units |-> reading.charge[d]]]
        /\ \A b \in Calls \ {c} : row'[b] = row[b]
        /\ row' = [b \in Calls |-> row'[b]]
    BY <1>5, <2>2 DEF AdmitWrites
  <2>4. /\ phase'[c] = "admitted" /\ \A b \in Calls \ {c} : phase'[b] = phase[b]
        /\ phase' \in [Calls -> {"new", "asking", "denied", "admitted", "sent",
                                 "answered", "done"}]
    BY <1>5, <2>2 DEF AdmitWrites
  <2> DEFINE k == <<SymbolOf[c], reading.win["symbols"]>>
  <2>5. k \in Symbols \X Time
    BY <2>2, QuotaAssumption DEF Dims
  <2>6. /\ claim' \in [Symbols \X Time -> Claim]
        /\ claim'[k] # Unclaimed
        /\ \A j \in Symbols \X Time : j # k => claim'[j] = claim[j]
    <3>1. CASE reading.charge["symbols"] = 0
      <4>1. claim' = claim /\ claim[k] # Unclaimed
        BY <1>0, <1>5, <3>1 DEF AdmitWrites, QuotaInv, ReadingOK
      <4> QED BY <2>2, <4>1
    <3>2. CASE reading.charge["symbols"] # 0
      <4> DEFINE n == [state |-> "pending", owner |-> c]
      <4>1. claim' = [claim EXCEPT ![k] = n]
        BY <1>5, <3>2 DEF AdmitWrites
      <4>2. n \in Claim /\ n # Unclaimed
        BY DEF Claim, Unclaimed
      <4> HIDE DEF n, k
      <4> QED BY <2>2, <2>5, <4>1, <4>2
    <3> QED BY <3>1, <3>2
  <2>7. TypeOK'
    <3>1. row'[c] \in [Dims -> Row]
      <4>1. ASSUME NEW d \in Dims PROVE [state |-> "pending", win |-> reading.win[d],
                                         units |-> reading.charge[d]] \in Row
        BY <2>2 DEF Row
      <4> QED BY <2>3, <4>1
    <3>2. row' \in [Calls -> [Dims -> Row]]
      BY <2>2, <2>3, <3>1
    <3>3. reserved' \in [Dims -> [Time -> Nat]]
      <4>1. reserved' = [d \in Dims |-> [reserved[d] EXCEPT ![reading.win[d]] =
                                           @ + reading.charge[d]]]
        BY <1>5 DEF AdmitWrites
      <4>2. ASSUME NEW d \in Dims PROVE reserved'[d] \in [Time -> Nat]
        <5>1. reserved'[d] = [s \in Time |-> reserved'[d][s]]
          BY <1>0, <4>1 DEF TypeOK
        <5> QED BY <2>1, <5>1
      <4> QED BY <4>1, <4>2
    <3> QED BY <1>0, <1>1, <2>4, <2>6, <3>2, <3>3 DEF TypeOK
  <2>8. StagesOK'
    BY <2>3, <2>4 DEF QuotaInv, StagesOK
  <2>9. RowsOK'
    <3>1. ASSUME NEW b \in Calls \ {c} PROVE RowOK(b)'
      BY <1>0, <2>3 DEF QuotaInv, RowsOK, RowOK
    <3>2. /\ reading.charge["inflight"] = 1 /\ reading.charge["requests"] = 1
          /\ reading.win["requests"] = Start("requests", created[c])
      BY <1>0 DEF QuotaInv, ReadingOK
    <3>3. RowOK(c)'
      BY <1>0, <2>3, <3>2 DEF RowOK, Dims
    <3> QED BY <3>1, <3>3 DEF RowsOK
  <2>10. LedgerBalanced'
    BY <2>1, BalancedAfter
  <2>11. SentIsClaimed'
    <3> SUFFICES ASSUME NEW b \in Calls,
                        row'[b]["symbols"].state \in {"pending", "settled", "uncertain"}
                 PROVE  claim'[<<SymbolOf[b], row'[b]["symbols"].win>>] # Unclaimed
      BY DEF SentIsClaimed
    <3>1. CASE b = c
      <4>1. row'[c]["symbols"].win = reading.win["symbols"]
        BY <2>3 DEF Dims
      <4> QED BY <2>6, <3>1, <4>1
    <3>2. CASE b # c
      <4> DEFINE j == <<SymbolOf[b], row[b]["symbols"].win>>
      <4>1. row'[b] = row[b] /\ row[b]["symbols"] \in Row
        BY <2>2, <2>3, <3>2 DEF Dims
      <4>2. j \in Symbols \X Time /\ claim[j] # Unclaimed
        BY <4>1, QuotaAssumption DEF QuotaInv, SentIsClaimed, Row
      <4>3. claim'[j] # Unclaimed
        BY <2>6, <4>2
      <4> QED BY <4>1, <4>3
    <3> QED BY <3>1, <3>2
  <2> QED BY <1>3, <2>7, <2>8, <2>9, <2>10, <2>11 DEF QuotaInv
<1> QED BY <1>0, <1>4, <1>5

----------------------------------------------------------------------------
(* The other steps, and the unconditional results.                         *)

\* The units settled since a baseline are a number.
LEMMA UnitsIsNat ==
    ASSUME NEW d, NEW S \in SUBSET Calls
    PROVE  IsFiniteSet({c \in S : row[c][d].units = 1}) /\ Units(d, S) \in Nat
<1>1. {c \in S : row[c][d].units = 1} \in SUBSET Calls
  OBVIOUS
<1>2. IsFiniteSet({c \in S : row[c][d].units = 1})
  BY <1>1, QuotaAssumption, FS_Subset
<1> QED BY <1>2, FS_CardinalityType DEF Units

LEMMA SettledUnitsIsNat ==
    ASSUME NEW d, NEW b, NEW t
    PROVE  SettledUnits(d, b, t) \in Nat
<1>1. {c \in SettledIn(d, t) : Since(b, c)} \in SUBSET Calls
  BY DEF SettledIn
<1> QED BY <1>1, UnitsIsNat DEF SettledUnits

\* The greater of two counts.
LEMMA MaxOfTwo ==
    ASSUME NEW m \in Nat, NEW n \in Nat
    PROVE  Max({m, n}) \in Nat /\ Max({m, n}) >= m /\ Max({m, n}) >= n
<1>1. Max({m, n}) \in {m, n} /\ \A y \in {m, n} : Max({m, n}) >= y
  <2>1. {m, n} \in SUBSET Int /\ {m, n} # {} /\ m + n \in Int /\ \A x \in {m, n} : x <= m + n
    OBVIOUS
  <2> QED BY <2>1, MaxIsGreatest
<1> QED BY <1>1

\* What a reconciliation adds: a snapshot of a moment that has passed.
LEMMA ReconcileIs ==
    ASSUME TypeOK, TimesOK, NEW d \in Usage, NEW t \in 0 .. now, NEW at \in 0 .. now,
           NEW native \in BOOLEAN, NEW used \in 0 .. Limit[d],
           Reconcile(d, used, at, t, native)
    PROVE  \E n \in Nat :
              baselines' = [baselines EXCEPT ![d] =
                  WithBaseline(@, [used |-> n, at |-> at, start |-> Start(d, at),
                                   local |-> FALSE])]
<1> DEFINE active == ActiveBaselines(d, t)
           b == Latest(active)
           stored == CASE active = {} -> used
                       [] active # {} /\ b.at = at -> Max({used, b.used})
                       [] active # {} /\ b.at < at /\ (native \/ Rolling(d)) -> used
                       [] OTHER -> Max({used, b.used + SettledUnits(d, b, t)})
<1>1. d \in Dims /\ now \in Int /\ used \in Nat
  BY QuotaAssumption DEF TypeOK, Time, Usage
<1>2. baselines' = [baselines EXCEPT ![d] =
         WithBaseline(@, [used |-> stored, at |-> at, start |-> Start(d, at), local |-> FALSE])]
  BY DEF Reconcile
<1>3. active \in SUBSET Baseline /\ \A x \in active : x.at <= now
  BY <1>1 DEF TypeOK, TimesOK, ActiveBaselines
<1>4. active # {} => b.used \in Nat
  <2>1. active # {} => b \in active
    <3> HIDE DEF active
    <3> QED BY <1>1, <1>3, LatestIsIn
  <2> QED BY <1>3, <2>1 DEF Baseline
<1>5. SettledUnits(d, b, t) \in Nat
  BY SettledUnitsIsNat
<1>6. active # {} => /\ Max({used, b.used}) \in Nat
                     /\ Max({used, b.used + SettledUnits(d, b, t)}) \in Nat
  <2> HIDE DEF b
  <2>1. active # {} => b.used + SettledUnits(d, b, t) \in Nat
    BY <1>4, <1>5
  <2> QED BY <1>1, <1>4, <2>1, MaxOfTwo
<1>7. stored \in Nat
  <2> HIDE DEF active, b
  <2> QED BY <1>1, <1>6
<1> HIDE DEF stored
<1> QED BY <1>2, <1>7

\* A reconciliation keeps the invariant.
LEMMA ReconcileKeeps ==
    ASSUME QuotaInv, NEW d \in Usage, NEW t \in 0 .. now, NEW at \in 0 .. now,
           NEW native \in BOOLEAN, NEW used \in 0 .. Limit[d],
           Reconcile(d, used, at, t, native)
    PROVE  QuotaInv'
<1>1. UNCHANGED <<now, phase, created, row, reserved, claim, reading>>
  BY DEF Reconcile
<1>2. TypeOK /\ TimesOK /\ d \in Dims
  BY DEF QuotaInv, Usage
<1>3. PICK n \in Nat :
        baselines' = [baselines EXCEPT ![d] =
            WithBaseline(@, [used |-> n, at |-> at, start |-> Start(d, at), local |-> FALSE])]
  BY <1>2, ReconcileIs
<1> DEFINE new == [used |-> n, at |-> at, start |-> Start(d, at), local |-> FALSE]
<1>4. at \in Int /\ at <= now /\ Start(d, at) \in Int
  <2>1. now \in Time /\ MaxTime \in Nat
    BY <1>2, QuotaAssumption DEF TypeOK
  <2>2. at \in Time /\ at \in Int /\ at <= now
    BY <2>1 DEF Time
  <2>3. Start(d, at) \in Time
    BY <1>2, <2>2, StartIsTime
  <2> QED BY <2>1, <2>2, <2>3 DEF Time
<1>5. new \in Baseline /\ new.at <= now
  BY <1>4 DEF Baseline
<1>6. /\ baselines' \in [Dims -> SUBSET Baseline]
      /\ \A e \in Dims : \A b \in baselines'[e] : b \in baselines[e] \/ b = new
  <2> HIDE DEF new
  <2> QED BY <1>2, <1>3, <1>5 DEF TypeOK, WithBaseline, new
<1>7. TypeOK' /\ TimesOK'
  <2>1. \A e \in Dims : \A b \in baselines'[e] : b.at <= now
    BY <1>2, <1>4, <1>5, <1>6 DEF TimesOK
  <2> QED BY <1>1, <1>2, <1>6, <2>1 DEF TypeOK, TimesOK
<1>8. StagesOK' /\ RowsOK' /\ ReadingOK' /\ SentIsClaimed'
  BY <1>1 DEF QuotaInv, StagesOK, RowsOK, RowOK, ReadingOK, SentIsClaimed
<1>9. LedgerBalanced'
  BY <1>1 DEF QuotaInv, LedgerBalanced, Units
<1> QED BY <1>7, <1>8, <1>9 DEF QuotaInv

\* So do the steps that only move a call or the clock.
MovesCall(c) ==
    \/ Ask(c)
    \/ ReserveFails(c)
    \/ Send(c)
    \/ Unsettled(c)

LEMMA MoveKeeps ==
    ASSUME QuotaInv, NEW c \in Calls, MovesCall(c)
    PROVE  QuotaInv'
<1>1. UNCHANGED <<now, row, reserved, claim, baselines, reading>>
  BY DEF MovesCall, Ask, ReserveFails, Send, Unsettled, ledger
<1>2. PICK q : /\ phase' = [phase EXCEPT ![c] = q]
               /\ \/ phase[c] = "new" /\ q = "asking" /\ created' = [created EXCEPT ![c] = now]
                  \/ /\ phase[c] = "asking" /\ q = "denied" /\ reading = None
                     /\ created' = created
                  \/ /\ phase[c] \in {"admitted", "sent"} /\ q \in {"sent", "answered", "done"}
                     /\ created' = created
  <2>1. CASE Ask(c)
    BY <2>1 DEF Ask
  <2>2. CASE ReserveFails(c)
    BY <2>2 DEF ReserveFails, ledger
  <2>3. CASE Send(c)
    BY <2>3 DEF Send, ledger
  <2>4. CASE Unsettled(c)
    <3>1. phase' = [phase EXCEPT ![c] = IF phase[c] = "sent" THEN "answered" ELSE "done"]
      BY <2>4 DEF QuotaInv, TypeOK, Unsettled
    <3> QED BY <2>4, <3>1 DEF Unsettled, ledger
  <2> QED BY <2>1, <2>2, <2>3, <2>4 DEF MovesCall
<1>3. TypeOK /\ TimesOK /\ now \in Time /\ now \in Int
  BY QuotaAssumption DEF QuotaInv, TypeOK, Time
<1>4. /\ phase' \in [Calls -> {"new", "asking", "denied", "admitted", "sent", "answered", "done"}]
      /\ phase'[c] = q /\ \A b \in Calls \ {c} : phase'[b] = phase[b]
      /\ created' \in [Calls -> Time]
      /\ \A b \in Calls \ {c} : created'[b] = created[b]
      /\ created'[c] = created[c] \/ (created'[c] = now /\ phase[c] = "new")
  BY <1>2, <1>3 DEF TypeOK
<1>5. TypeOK'
  BY <1>1, <1>3, <1>4 DEF TypeOK
<1>6. TimesOK'
  <2>1. \A b \in Calls : created'[b] <= now
    BY <1>3, <1>4 DEF TimesOK
  <2> QED BY <1>1, <1>3, <2>1 DEF TimesOK
<1>7. StagesOK'
  BY <1>1, <1>2, <1>4 DEF QuotaInv, StagesOK
<1>8. RowsOK'
  <2>1. ASSUME NEW b \in Calls PROVE RowOK(b)'
    <3>1. CASE created'[b] = created[b]
      BY <1>1, <3>1 DEF QuotaInv, RowsOK, RowOK
    <3>2. CASE created'[b] # created[b]
      <4>1. b = c /\ phase[c] = "new"
        BY <1>4, <3>2
      <4>2. row[b] = [d \in Dims |-> NoRow]
        BY <4>1 DEF QuotaInv, StagesOK
      <4> QED BY <1>1, <4>2 DEF RowOK, NoRow, Dims, Held
    <3> QED BY <3>1, <3>2
  <2> QED BY <2>1 DEF RowsOK
<1>9. ReadingOK'
  <2> SUFFICES ASSUME reading # None PROVE ReadingOK'
    BY <1>1 DEF ReadingOK
  <2>1. reading.call \in Calls /\ phase[reading.call] = "asking"
    BY DEF QuotaInv, TypeOK, ReadingOK
  <2>2. reading.call # c
    BY <1>2, <2>1
  <2>3. phase'[reading.call] = "asking" /\ created'[reading.call] = created[reading.call]
    BY <1>4, <2>1, <2>2
  <2> QED BY <1>1, <2>3 DEF QuotaInv, ReadingOK
<1>10. SentIsClaimed'
  BY <1>1 DEF QuotaInv, SentIsClaimed
<1>11. LedgerBalanced'
  BY <1>1 DEF QuotaInv, LedgerBalanced, Units
<1> QED BY <1>5, <1>6, <1>7, <1>8, <1>9, <1>10, <1>11 DEF QuotaInv

LEMMA TickKeeps ==
    ASSUME QuotaInv, Tick
    PROVE  QuotaInv'
<1>1. UNCHANGED <<phase, created, row, reserved, claim, baselines, reading>>
  BY DEF Tick, ledger
<1>2. now' = now + 1 /\ now' \in Time /\ now \in Int
  BY QuotaAssumption DEF QuotaInv, TypeOK, Time, Tick
<1>3. TypeOK'
  BY <1>1, <1>2 DEF QuotaInv, TypeOK
<1>4. TimesOK'
  <2>1. \A c \in Calls : created[c] \in Int /\ created[c] <= now
    BY QuotaAssumption DEF QuotaInv, TypeOK, TimesOK, Time
  <2>2. \A d \in Dims : \A b \in baselines[d] : b.at \in Int /\ b.at <= now
    BY DEF QuotaInv, TypeOK, TimesOK, Baseline
  <2> QED BY <1>1, <1>2, <2>1, <2>2 DEF TimesOK
<1>5. StagesOK' /\ RowsOK' /\ ReadingOK' /\ SentIsClaimed'
  BY <1>1 DEF QuotaInv, StagesOK, RowsOK, RowOK, ReadingOK, SentIsClaimed
<1>6. LedgerBalanced'
  BY <1>1 DEF QuotaInv, LedgerBalanced, Units
<1> QED BY <1>3, <1>4, <1>5, <1>6 DEF QuotaInv

\* The steps of the ledger by what they do.
LEMMA QuotaSteps ==
    ASSUME Next
    PROVE  \/ \E c \in Calls :
                 \/ MovesCall(c) \/ BeginReserve(c) \/ Reserve(c)
                 \/ /\ phase[c] \in {"admitted", "sent", "answered"}
                    /\ \E o \in Outcomes : Settle(c, o)
                    /\ \E q \in {"answered", "done"} : phase' = [phase EXCEPT ![c] = q]
           \/ \E d \in Usage, t \in 0 .. now, at \in 0 .. now, native \in BOOLEAN :
                 \E used \in 0 .. Limit[d] : Reconcile(d, used, at, t, native)
           \/ Tick
<1>1. ASSUME NEW c \in Calls,
             GiveUp(c) \/ Answered(c) \/ SettledAgain(c) \/ Ambiguous(c)
      PROVE  /\ phase[c] \in {"admitted", "sent", "answered"}
             /\ \E o \in Outcomes : Settle(c, o)
             /\ \E q \in {"answered", "done"} : phase' = [phase EXCEPT ![c] = q]
  <2>1. CASE GiveUp(c)
    BY <2>1 DEF GiveUp, Outcomes
  <2>2. CASE Answered(c)
    BY <2>2 DEF Answered, Outcomes
  <2>3. CASE SettledAgain(c)
    BY <2>3 DEF SettledAgain, Outcomes
  <2>4. CASE Ambiguous(c)
    BY <2>4 DEF Ambiguous, Outcomes
  <2> QED BY <1>1, <2>1, <2>2, <2>3, <2>4
<1>2. ASSUME NEW c \in Calls,
             \/ Ask(c) \/ ReserveFails(c) \/ BeginReserve(c) \/ Reserve(c)
             \/ GiveUp(c) \/ Send(c) \/ Answered(c)
             \/ SettledAgain(c) \/ Ambiguous(c) \/ Unsettled(c)
      PROVE  \/ MovesCall(c) \/ BeginReserve(c) \/ Reserve(c)
             \/ /\ phase[c] \in {"admitted", "sent", "answered"}
                /\ \E o \in Outcomes : Settle(c, o)
                /\ \E q \in {"answered", "done"} : phase' = [phase EXCEPT ![c] = q]
  BY <1>1, <1>2 DEF MovesCall
<1> QED BY <1>2 DEF Next

\* Every step keeps the invariant.
LEMMA QuotaStep == QuotaInv /\ [Next]_vars => QuotaInv'
<1> SUFFICES ASSUME QuotaInv, [Next]_vars PROVE QuotaInv'
  OBVIOUS
<1>1. CASE Next
  <2>1. ASSUME NEW c \in Calls, MovesCall(c) PROVE QuotaInv'
    BY <2>1, MoveKeeps
  <2>2. ASSUME NEW c \in Calls, BeginReserve(c) PROVE QuotaInv'
    BY <2>2, BeginReserveKeeps
  <2>3. ASSUME NEW c \in Calls, Reserve(c) PROVE QuotaInv'
    BY <2>3, ReserveKeeps
  <2>4. ASSUME NEW c \in Calls, phase[c] \in {"admitted", "sent", "answered"},
               NEW o \in Outcomes, Settle(c, o),
               NEW q \in {"answered", "done"}, phase' = [phase EXCEPT ![c] = q]
        PROVE  QuotaInv'
    BY <2>4, SettleKeeps
  <2>5. ASSUME NEW d \in Usage, NEW t \in 0 .. now, NEW at \in 0 .. now,
               NEW native \in BOOLEAN, NEW used \in 0 .. Limit[d],
               Reconcile(d, used, at, t, native)
        PROVE  QuotaInv'
    BY <2>5, ReconcileKeeps
  <2>6. CASE Tick
    BY <2>6, TickKeeps
  <2> QED BY <1>1, <2>1, <2>2, <2>3, <2>4, <2>5, <2>6, QuotaSteps
<1>2. CASE UNCHANGED vars
  <2>1. UNCHANGED <<now, phase, created, row, reserved, claim, baselines, reading>>
    BY <1>2 DEF vars
  <2>2. TypeOK' /\ TimesOK' /\ StagesOK' /\ RowsOK' /\ ReadingOK' /\ SentIsClaimed'
    BY <2>1 DEF QuotaInv, TypeOK, TimesOK, StagesOK, RowsOK, RowOK, ReadingOK, SentIsClaimed
  <2>3. LedgerBalanced'
    BY <2>1 DEF QuotaInv, LedgerBalanced, Units
  <2> QED BY <2>2, <2>3 DEF QuotaInv
<1> QED BY <1>1, <1>2

\* The initial states satisfy the invariant.
LEMMA QuotaInit == Init => QuotaInv
<1> SUFFICES ASSUME Init PROVE QuotaInv
  OBVIOUS
<1>1. MaxTime \in Nat /\ 0 \in Time
  BY QuotaAssumption DEF Time
<1>2. NoRow \in Row /\ Unclaimed \in Claim
  BY <1>1 DEF NoRow, Row, Unclaimed, Claim
<1>3. \A c \in Calls : row[c] = [d \in Dims |-> NoRow]
  BY DEF Init
<1>4. TypeOK
  <2>1. row \in [Calls -> [Dims -> Row]]
    BY <1>2 DEF Init
  <2>2. claim \in [Symbols \X Time -> Claim]
    BY <1>2 DEF Init
  <2> QED BY <1>1, <2>1, <2>2 DEF Init, TypeOK
<1>5. TimesOK /\ StagesOK /\ ReadingOK
  BY <1>1 DEF Init, TimesOK, StagesOK, ReadingOK, Time
<1>6. \A c \in Calls : \A d \in Dims :
         row[c][d].state = "none" /\ row[c][d].units = 0
  BY <1>3 DEF NoRow
<1>7. RowsOK /\ SentIsClaimed
  BY <1>6 DEF RowsOK, RowOK, SentIsClaimed, Dims, Held
<1>8. LedgerBalanced
  <2>1. ASSUME NEW d \in Dims, NEW s \in Time
        PROVE  reserved[d][s] = Units(d, {c \in Calls : /\ row[c][d].state \in Held
                                                       /\ row[c][d].win = s})
    <3>1. {b \in {c \in Calls : row[c][d].state \in Held /\ row[c][d].win = s} :
              row[b][d].units = 1} = {}
      BY <1>6
    <3> QED BY <3>1, FS_EmptySet DEF Init, Units
  <2> QED BY <2>1 DEF LedgerBalanced
<1> QED BY <1>4, <1>5, <1>7, <1>8 DEF QuotaInv

\* The inductive invariant holds of every behaviour of the ledger
\* (provider_quota_coordinator.py), settlements racing reservations and
\* reconciliations at any time included.
THEOREM QuotaInvariant == Spec => []QuotaInv
BY QuotaInit, QuotaStep, PTL DEF Spec

\* provider_quota_coordinator.py: rows, claims and baselines keep their shape,
\* and no counter or unit falls below zero.
THEOREM QuotaType == Spec => []TypeOK
BY QuotaInvariant, PTL DEF QuotaInv

\* settle_provider_quota: no path of a reservation - settled twice, given up,
\* ambiguous, its lease expired - debits or frees a unit twice.
THEOREM QuotaBalanced == Spec => []LedgerBalanced
BY QuotaInvariant, PTL DEF QuotaInv

\* settle_provider_quota: the claim of a symbol is never given up under a call
\* that was sent or may have been sent.
THEOREM QuotaClaimed == Spec => []SentIsClaimed
BY QuotaInvariant, PTL DEF QuotaInv

----------------------------------------------------------------------------
(* The limit of a counted dimension.                                       *)

\* The calls charged to a window.
WindowCalls(s) == {c \in Calls : /\ row[c]["requests"].win = s
                                 /\ row[c]["requests"].units = 1}

LEMMA SubsetCount ==
    ASSUME NEW S \in SUBSET Calls, NEW T \in SUBSET S
    PROVE  /\ IsFiniteSet(S) /\ Cardinality(S) \in Nat
           /\ IsFiniteSet(T) /\ Cardinality(T) \in Nat
           /\ Cardinality(T) <= Cardinality(S)
<1>1. IsFiniteSet(S)
  BY QuotaAssumption, FS_Subset
<1> QED BY <1>1, FS_Subset, FS_CardinalityType

LEMMA UnionCount ==
    ASSUME NEW S \in SUBSET Calls, NEW T \in SUBSET Calls, NEW U \in SUBSET (S \cup T)
    PROVE  /\ Cardinality(U) <= Cardinality(S) + Cardinality(T)
           /\ Cardinality(S) \in Nat /\ Cardinality(T) \in Nat /\ Cardinality(U) \in Nat
<1>1. /\ IsFiniteSet(S) /\ IsFiniteSet(T) /\ IsFiniteSet(S \cap T)
      /\ Cardinality(S) \in Nat /\ Cardinality(T) \in Nat /\ Cardinality(S \cap T) \in Nat
  BY SubsetCount
<1>2. Cardinality(S \cup T) = Cardinality(S) + Cardinality(T) - Cardinality(S \cap T)
  BY <1>1, FS_Union
<1>3. Cardinality(U) <= Cardinality(S \cup T) /\ Cardinality(U) \in Nat
      /\ Cardinality(S \cup T) \in Nat
  BY SubsetCount
<1> QED BY <1>1, <1>2, <1>3

\* A baseline is added without losing another one of a different moment.
LEMMA WithBaselineUnique ==
    ASSUME NEW B, NEW b, \A x, y \in B : x.at = y.at /\ x.start = y.start => x = y
    PROVE  /\ \A x, y \in WithBaseline(B, b) : x.at = y.at /\ x.start = y.start => x = y
           /\ b \in WithBaseline(B, b)
           /\ \A x \in B : x \in WithBaseline(B, b) \/ (x.at = b.at /\ x.start = b.start)
BY DEF WithBaseline

\* The baseline that an admission used is the latest of its window when it
\* commits, and a window that a snapshot has counted halfway stays one.
LEMMA ReserveKeepsBaselines ==
    ASSUME QuotaInv, UniqueBaselines, NEW c \in Calls, Reserve(c)
    PROVE  /\ UniqueBaselines'
           /\ \A s \in Time : CountedHere(s)' => CountedHere(s)
           /\ BaselineFor("requests", created[c]) # None =>
                 Latest(ActiveBaselines("requests", created[c]))' =
                     BaselineFor("requests", created[c])
<1> DEFINE t == created[c]
           B == baselines["requests"]
           b == BaselineFor("requests", t)
           A == ActiveBaselines("requests", t)
<1>0. TypeOK /\ TimesOK /\ "requests" \in Dims /\ "requests" \in Usage /\ ~Rolling("requests")
  BY DEF QuotaInv, Dims, Usage, Rolling
<1>1. t \in Time /\ t <= now
  BY <1>0 DEF TypeOK, TimesOK
<1>2. baselines'["requests"] = IF b # None THEN WithBaseline(B, b) ELSE B
  BY <1>0 DEF Reserve
<1>3. created'[c] = t
  BY DEF Reserve
<1>4. A = {x \in B : x.start = Start("requests", t)}
  BY <1>0 DEF ActiveBaselines
<1>5. ActiveBaselines("requests", t)' = {x \in baselines'["requests"] : x.start = Start("requests", t)}
  BY <1>0, <1>3 DEF ActiveBaselines
<1>6. CASE b = None
  BY <1>2, <1>6 DEF UniqueBaselines, CountedHere
<1>7. CASE b # None
  <2>1. /\ b.start = Start("requests", t)
        /\ \/ A # {} /\ b = Latest(A) /\ b \in A
           \/ A = {}
    <3>1. \/ A # {} /\ b = Latest(A) /\ b \in A
          \/ A = {} /\ b.start = Start("requests", t)
      BY <1>0, <1>1, <1>7, BaselineIs
    <3> QED BY <1>4, <3>1
  <2> HIDE DEF b, A, B
  <2>2. baselines'["requests"] = WithBaseline(B, b)
    BY <1>2, <1>7
  <2>3. /\ \A x, y \in WithBaseline(B, b) : x.at = y.at /\ x.start = y.start => x = y
        /\ b \in WithBaseline(B, b)
        /\ \A x \in B : x \in WithBaseline(B, b) \/ (x.at = b.at /\ x.start = b.start)
    BY WithBaselineUnique DEF UniqueBaselines, B
  <2>4. UniqueBaselines'
    BY <2>2, <2>3 DEF UniqueBaselines
  <2>5. \A x \in B : x \in WithBaseline(B, b)
    <3>1. ASSUME NEW x \in B, x \notin WithBaseline(B, b) PROVE FALSE
      <4>1. x.at = b.at /\ x.start = b.start
        BY <2>3, <3>1
      <4>2. x \in A
        BY <1>4, <2>1, <4>1
      <4>3. b \in B
        BY <1>4, <2>1, <4>2
      <4>4. x = b
        BY <4>1, <4>3 DEF UniqueBaselines, B
      <4> QED BY <2>3, <3>1, <4>4
    <3> QED BY <3>1
  <2>6. \A s \in Time : CountedHere(s)' => CountedHere(s)
    BY <2>2, <2>5 DEF CountedHere, B
  <2>7. ActiveBaselines("requests", t)' = A \cup {b}
    <3>1. ASSUME NEW x \in WithBaseline(B, b) PROVE x \in B \/ x = b
      BY DEF WithBaseline
    <3> QED BY <1>4, <1>5, <2>1, <2>2, <2>3, <2>5, <3>1
  <2>8. Latest(A \cup {b}) = b
    <3>1. CASE A = {}
      <4>1. A \cup {b} = {b}
        BY <3>1
      <4>2. \E x \in {b} : \A y \in {b} : x.at >= y.at
        <5>1. b \in Baseline
          BY <1>0, <1>1, <1>7, BaselineIs DEF b
        <5>2. b.at >= b.at
          BY <5>1 DEF Baseline
        <5> QED BY <5>2
      <4> QED BY <4>1, <4>2 DEF Latest
    <3>2. CASE b \in A /\ b = Latest(A)
      <4>1. A \cup {b} = A
        BY <3>2
      <4> QED BY <3>2, <4>1
    <3> QED BY <2>1, <3>1, <3>2
  <2>9. Latest(ActiveBaselines("requests", created[c]))' = b
    <3>1. Latest(ActiveBaselines("requests", created[c]))' = Latest(ActiveBaselines("requests", t)')
      BY <1>3 DEF Latest
    <3> QED BY <2>7, <2>8, <3>1
  <2> QED BY <2>4, <2>6, <2>9 DEF b
<1> QED BY <1>6, <1>7

\* An admission leaves its baseline and the requests charged beside it within
\* the limit.
LEMMA AdmissionFits ==
    ASSUME QuotaInv, UniqueBaselines, NEW c \in Calls, Reserve(c), AdmitWrites(c),
           NEW t, t = created[c], NEW b, b = BaselineFor("requests", t)
    PROVE  /\ b # None
           /\ b.start = reading.win["requests"]
           /\ b \in baselines'["requests"]
           /\ b.used \in Nat
           /\ Cardinality(Charged("requests", b, t)') \in Nat
           /\ b.used + Cardinality(Charged("requests", b, t)') <= Limit["requests"]
<1> DEFINE s == reading.win["requests"]
           H == HeldUnits("requests", s)
           S == {x \in {y \in SettledIn("requests", t) : Since(b, y)} :
                    row[x]["requests"].units = 1}
           C == Charged("requests", b, t)'
<1>0. TypeOK /\ TimesOK /\ LedgerBalanced /\ "requests" \in Dims /\ "requests" \in Usage
      /\ ~Rolling("requests")
  BY DEF QuotaInv, Dims, Usage, Rolling
<1>1. /\ reading # None /\ reading.call = c /\ UNCHANGED created
      /\ b # None
      /\ Fits("requests", reading.charge["requests"], reading.counted["requests"], b, t)
  <2>1. ~Denies(c)
    BY <1>0 DEF TypeOK, Denies, AdmitWrites
  <2> QED BY <1>0, <2>1, ReserveIs
<1>2. t \in Time /\ t <= now /\ Limit["requests"] \in Nat
  BY <1>0, QuotaAssumption DEF TypeOK, TimesOK
<1>3. /\ reading.charge["requests"] = 1 /\ s = Start("requests", t) /\ s \in Time
      /\ reading.counted["requests"] = reserved["requests"][s]
  BY <1>0, <1>1 DEF QuotaInv, ReadingOK, TypeOK
<1>4. b \in Baseline /\ b.start = s
  <2>1. /\ b \in Baseline
        /\ b \in ActiveBaselines("requests", t) \/ b.start = Start("requests", t)
    BY <1>0, <1>1, <1>2, BaselineIs
  <2> QED BY <1>0, <1>3, <2>1 DEF ActiveBaselines
<1>5. b \in baselines'["requests"]
  <2>1. baselines'["requests"] = WithBaseline(baselines["requests"], b)
    BY <1>0, <1>1 DEF Reserve
  <2> QED BY <2>1 DEF WithBaseline
<1>6. b.used \in Nat
  <2> QED BY <1>4 DEF Baseline
<1>7. reserved["requests"][s] = Cardinality(H) /\ Cardinality(H) \in Nat
  BY <1>0, <1>3, BalancedIs, HeldUnitsFinite
<1>8. SettledUnits("requests", b, t) = Cardinality(S)
  BY DEF SettledUnits, Units
<1>9. Limit["requests"] - Cardinality(H) - b.used - Cardinality(S) >= 1
  <2>1. Limit["requests"] - reading.counted["requests"] - b.used
           - SettledUnits("requests", b, t) >= 1
    <3> QED BY <1>1, <1>3 DEF Fits
  <2> HIDE DEF H, S
  <2> QED BY <1>3, <1>7, <1>8, <2>1
<1>10. H \in SUBSET Calls /\ S \in SUBSET Calls /\ {c} \in SUBSET Calls
  BY DEF HeldUnits, SettledIn
<1>11. \A x \in Calls \ {c} : row'[x] = row[x]
  BY <1>0 DEF AdmitWrites, TypeOK
<1>12. C \in SUBSET ((H \cup S) \cup {c})
  <2>1. ASSUME NEW x \in C, x # c PROVE x \in H \cup S
    <3>1. /\ x \in Calls /\ row'[x]["requests"].units = 1
          /\ \/ row'[x]["requests"].state \in Held /\ Active("requests", row'[x]["requests"].win, t)
             \/ x \in SettledIn("requests", t)' /\ Since(b, x)'
      BY <1>1 DEF Charged
    <3>2. row[x] = row'[x] /\ created'[x] = created[x]
      BY <1>1, <1>11, <2>1, <3>1
    <3>3. CASE row'[x]["requests"].state \in Held /\ Active("requests", row'[x]["requests"].win, t)
      BY <1>0, <1>3, <3>1, <3>2, <3>3 DEF Active, HeldUnits
    <3>4. CASE x \in SettledIn("requests", t)' /\ Since(b, x)'
      <4>1. x \in SettledIn("requests", t)
        BY <1>0, <1>1, <3>1, <3>2, <3>4 DEF SettledIn
      <4>2. Since(b, x)
        BY <3>2, <3>4 DEF Since
      <4> QED BY <3>1, <3>2, <4>1, <4>2
    <3> QED BY <3>1, <3>3, <3>4
  <2> QED BY <2>1
<1> HIDE DEF H, S, C, s
<1>13. /\ Cardinality(H \cup S) <= Cardinality(H) + Cardinality(S)
       /\ Cardinality(H) \in Nat /\ Cardinality(S) \in Nat /\ Cardinality(H \cup S) \in Nat
  BY <1>10, UnionCount
<1>14. /\ Cardinality(C) <= Cardinality(H \cup S) + Cardinality({c})
       /\ Cardinality(C) \in Nat
  BY <1>10, <1>12, UnionCount
<1>15. Cardinality({c}) = 1
  BY FS_Singleton
<1>16. b.used + Cardinality(C) <= Limit["requests"]
  BY <1>2, <1>6, <1>9, <1>13, <1>14, <1>15
<1> QED BY <1>1, <1>4, <1>5, <1>6, <1>14, <1>16 DEF C, s

\* A step that charges no more to the windows and loses no snapshot.
LEMMA QuietLimit ==
    ASSUME RequestsWithinLimit,
           \A s \in Time : CountedHere(s)' => CountedHere(s),
           \A s \in Time : WindowCalls(s)' \subseteq WindowCalls(s)
    PROVE  RequestsWithinLimit'
<1>1. ASSUME NEW s \in Time, CountedHere(s)'
      PROVE  Cardinality(WindowCalls(s)') <= Limit["requests"]
  <2>1. WindowCalls(s) \in SUBSET Calls /\ WindowCalls(s)' \in SUBSET WindowCalls(s)
    BY DEF WindowCalls
  <2>2. Cardinality(WindowCalls(s)) <= Limit["requests"] /\ Limit["requests"] \in Nat
    BY <1>1, QuotaAssumption DEF RequestsWithinLimit, WindowCalls, Dims
  <2>3. /\ Cardinality(WindowCalls(s)') <= Cardinality(WindowCalls(s))
        /\ Cardinality(WindowCalls(s)') \in Nat /\ Cardinality(WindowCalls(s)) \in Nat
    BY <2>1, SubsetCount
  <2> QED BY <2>2, <2>3
<1> QED BY <1>1 DEF RequestsWithinLimit, WindowCalls

\* Reservations: an admission charges one more call to its window, and counts
\* all the others unless a snapshot has counted some of them.
LEMMA ReserveLimit ==
    ASSUME RequestInv, NEW c \in Calls, Reserve(c)
    PROVE  UniqueBaselines' /\ RequestsWithinLimit'
<1> DEFINE w == reading.win["requests"]
<1> PICK t : t = created[c]
  OBVIOUS
<1> PICK b : b = BaselineFor("requests", t)
  OBVIOUS
<1>0. /\ QuotaInv /\ UniqueBaselines /\ RequestsWithinLimit /\ QuotaInv'
      /\ TypeOK /\ "requests" \in Dims /\ ~Rolling("requests")
  BY ReserveKeeps DEF RequestInv, QuotaInv, Dims, Rolling
<1>1. UniqueBaselines' /\ \A s \in Time : CountedHere(s)' => CountedHere(s)
  BY <1>0, ReserveKeepsBaselines
<1>2. reading # None /\ reading.call = c /\ UNCHANGED created /\ (Denies(c) \/ AdmitWrites(c))
  BY ReserveIs
<1>3. CASE Denies(c)
  <2>1. \A s \in Time : WindowCalls(s)' \subseteq WindowCalls(s)
    BY <1>3 DEF Denies, WindowCalls
  <2> QED BY <1>0, <1>1, <2>1, QuietLimit
<1>4. CASE AdmitWrites(c)
  <2>1. /\ \A x \in Calls \ {c} : row'[x] = row[x]
        /\ row'[c]["requests"].win = w
    BY <1>0, <1>4 DEF AdmitWrites, TypeOK
  <2>2. w = Start("requests", t) /\ w \in Time
    BY <1>0, <1>2 DEF QuotaInv, ReadingOK, TypeOK
  <2>3. /\ b.start = w /\ b \in baselines'["requests"] /\ b.used \in Nat
        /\ Cardinality(Charged("requests", b, t)') \in Nat
        /\ b.used + Cardinality(Charged("requests", b, t)') <= Limit["requests"]
    BY <1>0, <1>4, AdmissionFits
  <2>4. ASSUME NEW s \in Time, CountedHere(s)'
        PROVE  Cardinality(WindowCalls(s)') <= Limit["requests"]
    <3>1. CASE s # w
      <4>1. WindowCalls(s)' \in SUBSET WindowCalls(s) /\ WindowCalls(s) \in SUBSET Calls
        BY <2>1, <3>1 DEF WindowCalls
      <4>2. Cardinality(WindowCalls(s)) <= Limit["requests"] /\ Limit["requests"] \in Nat
        BY <1>0, <1>1, <2>4, QuotaAssumption DEF RequestsWithinLimit, WindowCalls
      <4>3. /\ Cardinality(WindowCalls(s)') <= Cardinality(WindowCalls(s))
            /\ Cardinality(WindowCalls(s)') \in Nat /\ Cardinality(WindowCalls(s)) \in Nat
        BY <4>1, SubsetCount
      <4> QED BY <4>2, <4>3
    <3>2. CASE s = w
      <4>1. b.local \/ b.at = w
        BY <2>3, <2>4, <3>2 DEF CountedHere
      <4>2. ASSUME NEW x \in WindowCalls(s)' PROVE x \in Charged("requests", b, t)'
        <5>1. /\ x \in Calls /\ row'[x]["requests"].win = w /\ row'[x]["requests"].units = 1
          BY <3>2, <4>2 DEF WindowCalls
        <5>2. /\ row'[x]["requests"].state \in {"pending", "uncertain", "settled"}
              /\ w = Start("requests", created'[x])
          BY <1>0, <5>1 DEF QuotaInv, RowsOK, RowOK
        <5>3. Since(b, x)'
          <6>1. created'[x] \in Time /\ MaxTime \in Nat
            BY <1>0, <5>1, QuotaAssumption DEF QuotaInv, TypeOK
          <6>2. created'[x] >= w
            <7>1. /\ Start("requests", created'[x]) <= created'[x]
                  /\ Start("requests", created'[x]) \in Time
              BY <1>0, <6>1, StartIsTime
            <7> QED BY <5>2, <6>1, <7>1 DEF Time
          <6> QED BY <4>1, <6>2 DEF Since
        <5>4. CASE row'[x]["requests"].state = "settled"
          BY <1>0, <1>2, <2>2, <5>1, <5>3, <5>4 DEF Charged, SettledIn
        <5>5. CASE row'[x]["requests"].state \in Held
          BY <1>0, <1>2, <2>2, <5>1, <5>5 DEF Charged, Active
        <5> QED BY <5>2, <5>4, <5>5 DEF Held
      <4>3. Charged("requests", b, t)' \in SUBSET Calls
        BY DEF Charged
      <4>4. /\ Cardinality(WindowCalls(s)') <= Cardinality(Charged("requests", b, t)')
            /\ Cardinality(WindowCalls(s)') \in Nat
        BY <4>2, <4>3, SubsetCount
      <4>5. Limit["requests"] \in Nat
        BY <1>0, QuotaAssumption
      <4> QED BY <2>3, <4>4, <4>5
    <3> QED BY <3>1, <3>2
  <2> QED BY <1>1, <2>4 DEF RequestsWithinLimit, WindowCalls
<1> QED BY <1>2, <1>3, <1>4

\* Settlements: a settled request keeps its unit or loses it.
LEMMA SettleLimit ==
    ASSUME RequestInv, NEW c \in Calls, NEW o \in Outcomes, Settle(c, o)
    PROVE  UniqueBaselines' /\ RequestsWithinLimit'
<1>0. QuotaInv /\ TypeOK /\ UniqueBaselines /\ RequestsWithinLimit /\ "requests" \in Dims
  BY DEF RequestInv, QuotaInv, Dims
<1>1. /\ \A b \in Calls \ {c} : row'[b] = row[b]
      /\ "requests" \notin PendingRows(c) => row'[c]["requests"] = row[c]["requests"]
      /\ row'[c]["requests"].win = row[c]["requests"].win
  BY <1>0, SettleRows
<1>2. "requests" \in PendingRows(c) => row[c]["requests"].units = 1
  BY <1>0 DEF PendingRows, QuotaInv, RowsOK, RowOK, Held
<1>3. baselines' = baselines
  BY DEF Settle
<1>4. \A s \in Time : WindowCalls(s)' \subseteq WindowCalls(s)
  <2>1. ASSUME NEW s \in Time, NEW x \in WindowCalls(s)' PROVE x \in WindowCalls(s)
    <3>1. CASE x # c
      BY <1>1, <3>1 DEF WindowCalls
    <3>2. CASE x = c
      BY <1>1, <1>2, <3>2 DEF WindowCalls
    <3> QED BY <3>1, <3>2
  <2> QED BY <2>1
<1>5. UniqueBaselines' /\ \A s \in Time : CountedHere(s)' => CountedHere(s)
  BY <1>0, <1>3 DEF UniqueBaselines, CountedHere
<1> QED BY <1>0, <1>4, <1>5, QuietLimit

\* Reconciliations: the snapshot of a later moment than the beginning of the
\* window marks it, and one of its beginning replaces only another such one.
LEMMA ReconcileLimit ==
    ASSUME RequestInv, NEW d \in Usage, NEW t \in 0 .. now, NEW at \in 0 .. now,
           NEW native \in BOOLEAN, NEW used \in 0 .. Limit[d],
           Reconcile(d, used, at, t, native)
    PROVE  UniqueBaselines' /\ RequestsWithinLimit'
<1>0. /\ QuotaInv /\ TypeOK /\ TimesOK /\ UniqueBaselines /\ RequestsWithinLimit
      /\ "requests" \in Dims /\ d \in Dims
  BY DEF RequestInv, QuotaInv, Dims, Usage
<1>1. \A s \in Time : WindowCalls(s)' \subseteq WindowCalls(s)
  BY DEF Reconcile, WindowCalls
<1>2. PICK n \in Nat :
        baselines' = [baselines EXCEPT ![d] =
            WithBaseline(@, [used |-> n, at |-> at, start |-> Start(d, at), local |-> FALSE])]
  BY <1>0, ReconcileIs
<1> DEFINE new == [used |-> n, at |-> at, start |-> Start(d, at), local |-> FALSE]
           B == baselines["requests"]
<1>3. new.at = at /\ new.start = Start(d, at) /\ ~new.local
  OBVIOUS
<1>4. CASE d # "requests"
  <2>1. baselines'["requests"] = baselines["requests"]
    BY <1>0, <1>2, <1>4 DEF TypeOK
  <2>2. UniqueBaselines' /\ \A s \in Time : CountedHere(s)' => CountedHere(s)
    BY <1>0, <2>1 DEF UniqueBaselines, CountedHere
  <2> QED BY <1>0, <1>1, <2>2, QuietLimit
<1>5. CASE d = "requests"
  <2>1. baselines'["requests"] = WithBaseline(B, new)
    BY <1>0, <1>2, <1>5 DEF TypeOK
  <2> HIDE DEF new, B
  <2>2. /\ \A x, y \in WithBaseline(B, new) : x.at = y.at /\ x.start = y.start => x = y
        /\ new \in WithBaseline(B, new)
        /\ \A x \in B : x \in WithBaseline(B, new) \/ (x.at = new.at /\ x.start = new.start)
    BY <1>0, WithBaselineUnique DEF UniqueBaselines, B
  <2>3. UniqueBaselines'
    BY <2>1, <2>2 DEF UniqueBaselines
  <2>4. ASSUME NEW s \in Time, CountedHere(s)' PROVE CountedHere(s)
    <3>1. \A x \in WithBaseline(B, new) : x.start = s => x.local \/ x.at = s
      BY <2>1, <2>4 DEF CountedHere
    <3>2. ASSUME NEW x \in B, x.start = s PROVE x.local \/ x.at = s
      <4>1. CASE x \in WithBaseline(B, new)
        BY <3>1, <3>2, <4>1
      <4>2. CASE x.at = new.at /\ x.start = new.start
        BY <1>3, <2>2, <3>1, <3>2, <4>2
      <4> QED BY <2>2, <4>1, <4>2
    <3> QED BY <3>2 DEF CountedHere, B
  <2> QED BY <1>0, <1>1, <2>3, <2>4, QuietLimit
<1> QED BY <1>4, <1>5

\* Every step keeps the limit.
LEMMA RequestStep == RequestInv /\ [Next]_vars => RequestInv'
<1> SUFFICES ASSUME RequestInv, [Next]_vars PROVE RequestInv'
  OBVIOUS
<1>0. /\ QuotaInv /\ UniqueBaselines /\ RequestsWithinLimit /\ QuotaInv' /\ TypeOK
  BY QuotaStep DEF RequestInv, QuotaInv
<1> SUFFICES UniqueBaselines' /\ RequestsWithinLimit'
  BY <1>0 DEF RequestInv
<1>1. ASSUME baselines' = baselines,
             \A x \in Calls : row'[x]["requests"] = row[x]["requests"]
      PROVE  UniqueBaselines' /\ RequestsWithinLimit'
  <2>1. UniqueBaselines' /\ \A s \in Time : CountedHere(s)' => CountedHere(s)
    BY <1>0, <1>1 DEF UniqueBaselines, CountedHere
  <2>2. \A s \in Time : WindowCalls(s)' \subseteq WindowCalls(s)
    BY <1>1 DEF WindowCalls
  <2> QED BY <1>0, <2>1, <2>2, QuietLimit
<1>2. ASSUME NEW c \in Calls, MovesCall(c) PROVE UniqueBaselines' /\ RequestsWithinLimit'
  BY <1>1, <1>2 DEF MovesCall, Ask, ReserveFails, Send, Unsettled, ledger
<1>3. ASSUME NEW c \in Calls, BeginReserve(c) PROVE UniqueBaselines' /\ RequestsWithinLimit'
  <2>1. baselines' = baselines
    BY <1>3 DEF BeginReserve
  <2>2. \A x \in Calls : row'[x]["requests"] = row[x]["requests"]
    <3>1. "requests" \in Dims \ {"inflight"}
      BY DEF Dims
    <3> QED BY <1>0, <1>3, <3>1, ExpiredRows
  <2> QED BY <1>1, <2>1, <2>2
<1>4. ASSUME NEW c \in Calls, Reserve(c) PROVE UniqueBaselines' /\ RequestsWithinLimit'
  BY <1>4, ReserveLimit
<1>5. ASSUME NEW c \in Calls, NEW o \in Outcomes, Settle(c, o)
      PROVE  UniqueBaselines' /\ RequestsWithinLimit'
  BY <1>5, SettleLimit
<1>6. ASSUME NEW d \in Usage, NEW t \in 0 .. now, NEW at \in 0 .. now,
             NEW native \in BOOLEAN, NEW used \in 0 .. Limit[d],
             Reconcile(d, used, at, t, native)
      PROVE  UniqueBaselines' /\ RequestsWithinLimit'
  BY <1>6, ReconcileLimit
<1>7. CASE Tick \/ UNCHANGED vars
  BY <1>1, <1>7 DEF Tick, vars, ledger
<1> QED BY <1>2, <1>3, <1>4, <1>5, <1>6, <1>7, QuotaSteps

\* The initial states keep the limit.
LEMMA RequestInit == Init => RequestInv
<1> SUFFICES ASSUME Init PROVE UniqueBaselines /\ RequestsWithinLimit
  BY QuotaInit DEF RequestInv
<1>1. "requests" \in Dims /\ baselines["requests"] = {}
  BY DEF Init, Dims
<1>2. ASSUME NEW s \in Time PROVE Cardinality(WindowCalls(s)) <= Limit["requests"]
  <2>1. WindowCalls(s) = {}
    BY <1>1 DEF Init, NoRow, WindowCalls
  <2>2. Limit["requests"] \in Nat
    BY <1>1, QuotaAssumption
  <2>3. Cardinality({}) = 0
    BY FS_EmptySet
  <2> QED BY <2>1, <2>2, <2>3
<1> QED BY <1>1, <1>2 DEF UniqueBaselines, RequestsWithinLimit, WindowCalls

\* reserve_provider_quota: the calls charged to one window of a counted
\* dimension never exceed its limit, however settlements, ambiguous outcomes,
\* roll-overs, local zeros and reconciliations are interleaved, in every
\* window that no snapshot of the provider has counted halfway.
THEOREM QuotaLimit == Spec => []RequestsWithinLimit
<1>1. RequestInv => RequestsWithinLimit
  BY DEF RequestInv
<1> QED BY <1>1, RequestInit, RequestStep, PTL DEF Spec

\* Only the second half of its reservation admits a call.
LEMMA OnlyReserveAdmits ==
    ASSUME QuotaInv, Next, NEW c \in Calls, Admits(c)
    PROVE  Reserve(c) /\ AdmitWrites(c)
<1>0. TypeOK /\ phase[c] = "asking" /\ phase'[c] = "admitted"
  BY DEF QuotaInv, Admits
<1>1. ASSUME NEW x \in Calls, MovesCall(x) PROVE FALSE
  <2>1. \E q \in {"asking", "denied", "sent", "answered", "done"} : phase' = [phase EXCEPT ![x] = q]
    <3>1. CASE Ask(x) \/ ReserveFails(x) \/ Send(x)
      BY <3>1 DEF Ask, ReserveFails, Send
    <3>2. CASE Unsettled(x)
      <4>1. phase' = [phase EXCEPT ![x] = IF phase[x] = "sent" THEN "answered" ELSE "done"]
        BY <1>0, <3>2 DEF TypeOK, Unsettled
      <4> QED BY <4>1
    <3> QED BY <1>1, <3>1, <3>2 DEF MovesCall
  <2> QED BY <1>0, <2>1 DEF TypeOK
<1>2. ASSUME NEW x \in Calls, NEW q \in {"answered", "done"}, phase' = [phase EXCEPT ![x] = q]
      PROVE  FALSE
  BY <1>0, <1>2 DEF TypeOK
<1>3. ASSUME phase' = phase PROVE FALSE
  BY <1>0, <1>3
<1>4. ASSUME NEW x \in Calls, Reserve(x) PROVE Reserve(c) /\ AdmitWrites(c)
  <2>1. Denies(x) \/ AdmitWrites(x)
    BY <1>4, ReserveIs
  <2>2. CASE Denies(x)
    BY <1>0, <2>2 DEF Denies, TypeOK
  <2>3. CASE AdmitWrites(x)
    <3>1. x = c
      BY <1>0, <2>3 DEF AdmitWrites, TypeOK
    <3> QED BY <1>4, <2>3, <3>1
  <2> QED BY <2>1, <2>2, <2>3
<1>5. ASSUME NEW x \in Calls, BeginReserve(x) PROVE FALSE
  BY <1>3, <1>5 DEF BeginReserve
<1>6. ASSUME NEW d \in Usage, NEW t \in 0 .. now, NEW at \in 0 .. now,
             NEW native \in BOOLEAN, NEW used \in 0 .. Limit[d],
             Reconcile(d, used, at, t, native)
      PROVE  FALSE
  BY <1>3, <1>6 DEF Reconcile
<1>7. CASE Tick
  BY <1>3, <1>7 DEF Tick
<1> QED BY <1>1, <1>2, <1>4, <1>5, <1>6, <1>7, QuotaSteps

\* reserve_provider_quota: when an admission commits, the requests that its
\* baseline has counted and those the rows hold or have spent since are
\* within the limit, whatever was settled between its two statements and
\* whatever snapshots were stored before.
THEOREM QuotaAdmission == Spec => [][WithinLimit("requests")]_vars
<1>1. ASSUME RequestInv, [Next]_vars PROVE [WithinLimit("requests")]_vars
  <2> SUFFICES ASSUME Next PROVE WithinLimit("requests")
    BY <1>1
  <2> SUFFICES ASSUME NEW c \in Calls, Admits(c)
               PROVE  (Latest(ActiveBaselines("requests", created[c])).used
                        + Cardinality(Charged("requests",
                              Latest(ActiveBaselines("requests", created[c])), created[c])))'
                      <= Limit["requests"]
    BY DEF WithinLimit
  <2>1. QuotaInv /\ UniqueBaselines
    BY <1>1 DEF RequestInv
  <2>2. Reserve(c) /\ AdmitWrites(c)
    BY <2>1, OnlyReserveAdmits
  <2>3. PICK t : t = created[c]
    OBVIOUS
  <2>4. PICK b : b = BaselineFor("requests", t)
    OBVIOUS
  <2>5. /\ b # None
        /\ b.used + Cardinality(Charged("requests", b, t)') <= Limit["requests"]
    BY <2>1, <2>2, <2>3, <2>4, AdmissionFits
  <2>6. Latest(ActiveBaselines("requests", created[c]))' = b
    BY <2>1, <2>2, <2>3, <2>4, <2>5, ReserveKeepsBaselines
  <2>7. created'[c] = t
    BY <2>2, <2>3 DEF Reserve
  <2>8. Charged("requests", Latest(ActiveBaselines("requests", created[c])), created[c])' =
           Charged("requests", b, t)'
    BY <2>6, <2>7 DEF Charged
  <2> QED BY <2>5, <2>6, <2>8
<1> QED BY <1>1, RequestInit, RequestStep, PTL DEF Spec
=============================================================================
