------------------------- MODULE RefreshQueueProofs -------------------------
(***************************************************************************)
(* Proofs about RefreshQueue for any set of request keys, any finite set   *)
(* of concurrent tasks and any number of faults: the safety invariants and *)
(* the action property of the refresh_queue run.                           *)
(***************************************************************************)
EXTENDS RefreshQueue, FiniteSetTheorems, TLAPS

----------------------------------------------------------------------------
(* The inductive invariant.                                                *)

\* A row has at most one writer (the row lock).
OneLocker ==
    \A v, w \in Workers : v # w => DOMAIN txn[v] \cap DOMAIN txn[w] = {}

\* Only rows that exist are locked, and no transaction deletes one.
LockedExists ==
    \A w \in Workers : \A j \in DOMAIN txn[w] :
        row[j].status # "absent" /\ txn[w][j].status # "absent"

\* A lease has a token, committed or not.
LeasedHasToken ==
    /\ \A j \in Jobs : row[j].status = "leased" => row[j].token # NoToken
    /\ \A w \in Workers : \A j \in DOMAIN txn[w] :
          txn[w][j].status = "leased" => txn[w][j].token # NoToken

Working == {"lock", "fetch", "retry", "deferred"} \cup Completed

\* A task remembers leases of its unfinished batch only, works on a job of
\* the batch, and is idle without one.
BatchOK ==
    \A w \in Workers :
        /\ step[w] = "idle" => batch[w] = {}
        /\ step[w] \in Working => cur[w] \in batch[w]
        /\ \A j \in Jobs : held[w][j] # NoToken => j \in batch[w]

\* uuid4: no two tasks remember the same lease of a key.
UniqueTokens ==
    \A v, w \in Workers, j \in Jobs :
        v # w /\ held[v][j] = held[w][j] => held[v][j] = NoToken

\* An enqueue call that read no row, as one for a key enqueued once always
\* does, finds none when it inserts.
EnqueueOK ==
    enq # None =>
        /\ enq.job \notin Recurring => enq.read = Absent
        /\ enq.read = Absent => row[enq.job] = Absent

\* What is completed as observed or about to be has bars, committed or not.
BarsOK ==
    /\ ObservedHasBars
    /\ \A w \in Workers : \A j \in DOMAIN txn[w] :
          txn[w][j].status = "observed" => j \in bars
    /\ \A w \in Workers : step[w] = "observed" => cur[w] \in bars

\* The holder of a running lease sees it in the row, and nobody else has
\* the row locked.
LiveOK ==
    \A j \in Jobs \ Recurring : \A w \in LiveHolders(j) :
        /\ Locker(j) \subseteq {w}
        /\ Seen(w, j).status = "leased"
        /\ Seen(w, j).token = held[w][j]

RefreshInv ==
    /\ TypeOK
    /\ OneLocker
    /\ LockedExists
    /\ LeasedHasToken
    /\ BatchOK
    /\ UniqueTokens
    /\ EnqueueOK
    /\ BarsOK
    /\ LiveOK

----------------------------------------------------------------------------
(* Lemmas about the operators of the model.                                *)

\* A transaction's writes are rows of some of the keys.
LEMMA WritesIntro ==
    ASSUME NEW D \in SUBSET Jobs, NEW t \in [D -> Row]
    PROVE  t \in Writes
BY DEF Writes

LEMMA WritesElim ==
    ASSUME NEW t \in Writes
    PROVE  DOMAIN t \in SUBSET Jobs /\ \A j \in DOMAIN t : t[j] \in Row
<1>1. PICK D \in SUBSET Jobs : t \in [D -> Row]
  BY DEF Writes
<1> QED BY <1>1

\* A transaction that wrote nothing.
LEMMA EmptyWrites == Empty \in Writes /\ DOMAIN Empty = {}
<1>1. DOMAIN Empty = {} /\ Empty \in [{} -> Row]
  BY DEF Empty
<1> QED BY <1>1, WritesIntro

\* The steps of a task that is not idle or between two jobs.
LEMMA StepNames ==
    {"idle", "next", "lock", "fetch", "retry", "deferred"} \cup Completed
        = {"idle", "next"} \cup Working
BY DEF Working

\* What a task sees of a row is a row.
LEMMA SeenIsRow ==
    ASSUME TypeOK, NEW w \in Workers, NEW j \in Jobs
    PROVE  Seen(w, j) \in Row
<1>1. txn[w] \in Writes /\ row[j] \in Row
  BY DEF TypeOK
<1> QED BY <1>1, WritesElim DEF Seen

\* The writes after one more.
LEMMA WriteIs ==
    ASSUME TypeOK, NEW w \in Workers, NEW j \in Jobs, NEW r \in Row
    PROVE  /\ Write(w, j, r) \in Writes
           /\ DOMAIN Write(w, j, r) = DOMAIN txn[w] \cup {j}
           /\ Write(w, j, r)[j] = r
           /\ \A k \in DOMAIN txn[w] : k # j => Write(w, j, r)[k] = txn[w][k]
<1>1. txn[w] \in Writes
  BY DEF TypeOK
<1>2. DOMAIN txn[w] \in SUBSET Jobs /\ \A k \in DOMAIN txn[w] : txn[w][k] \in Row
  BY <1>1, WritesElim
<1> DEFINE D == DOMAIN txn[w] \cup {j}
<1>3. D \in SUBSET Jobs /\ Write(w, j, r) \in [D -> Row]
  BY <1>2 DEF Write
<1>4. Write(w, j, r) \in Writes
  <2> HIDE DEF D
  <2> QED BY <1>3, WritesIntro
<1> QED BY <1>4 DEF Write

\* The tokens outnumber the leases that a claim must avoid, because the
\* claiming task itself remembers none: there is a fresh one.
LEMMA FreshIsNew ==
    ASSUME RefreshInv, NEW w \in Workers, NEW j \in Jobs, step[w] = "idle"
    PROVE  /\ Fresh(j) \in Tokens /\ Fresh(j) # NoToken
           /\ Fresh(j) # row[j].token
           /\ \A v \in Workers : held[v][j] # Fresh(j)
<1>1. held[w][j] = NoToken
  BY DEF RefreshInv, BatchOK
<1>2. IsFiniteSet(Workers) /\ Cardinality(Workers) \in Nat
  BY RefreshAssumption, FS_CardinalityType
<1>3. PICK n \in Nat : n = Cardinality(Workers)
  BY <1>2
<1>4. PICK f \in [Workers -> Tokens \cup {NoToken}] :
          \A v \in Workers : f[v] = IF v = w THEN row[j].token ELSE held[v][j]
  <2>1. held \in [Workers -> [Jobs -> Tokens \cup {NoToken}]] /\ row[j] \in Row
    BY DEF RefreshInv, TypeOK
  <2>2. row[j].token \in Tokens \cup {NoToken}
    BY <2>1 DEF Row
  <2>3. [v \in Workers |-> IF v = w THEN row[j].token ELSE held[v][j]]
            \in [Workers -> Tokens \cup {NoToken}]
    BY <2>1, <2>2
  <2> QED BY <2>3
<1> DEFINE Taken == {f[v] : v \in Workers}
<1>5. IsFiniteSet(Taken) /\ Cardinality(Taken) <= n
  <2>1. f \in Surjection(Workers, Taken)
    BY DEF Surjection
  <2> HIDE DEF Taken
  <2> QED BY <1>2, <1>3, <2>1, FS_Surjection
<1>6. Tokens = 1 .. n + 1 /\ Cardinality(Tokens) = n + 1
  <2>1. Tokens = 1 .. n + 1
    BY <1>3 DEF Tokens
  <2>2. 1 \in Int /\ n + 1 \in Int /\ ~(1 > n + 1) /\ (n + 1) - 1 + 1 = n + 1
    OBVIOUS
  <2>3. Cardinality(1 .. n + 1) = (n + 1) - 1 + 1
    BY <2>2, FS_Interval
  <2> QED BY <2>1, <2>2, <2>3
<1>7. ~(Tokens \subseteq Taken)
  <2>1. ASSUME Tokens \subseteq Taken PROVE FALSE
    <3>1. Cardinality(Tokens) <= Cardinality(Taken)
      BY <1>5, <2>1, FS_Subset
    <3>2. Cardinality(Taken) \in Nat
      BY <1>5, FS_CardinalityType
    <3> HIDE DEF Taken
    <3> QED BY <1>5, <1>6, <3>1, <3>2
  <2> QED BY <2>1
<1>8. PICK t \in Tokens : t \notin Taken
  BY <1>7
<1>9. t # NoToken
  BY <1>6, <1>8 DEF NoToken
<1>10. t # row[j].token
  BY <1>4, <1>8
<1>11. ASSUME NEW v \in Workers PROVE held[v][j] # t
  <2>1. CASE v = w
    BY <1>1, <1>9, <2>1
  <2>2. CASE v # w
    BY <1>4, <1>8, <2>2
  <2> QED BY <2>1, <2>2
<1>12. /\ Fresh(j) \in Tokens /\ Fresh(j) # row[j].token
       /\ \A v \in Workers : held[v][j] # Fresh(j)
  BY <1>8, <1>10, <1>11 DEF Fresh
<1>13. NoToken \notin Tokens
  BY <1>6 DEF NoToken
<1> QED BY <1>12, <1>13

\* One locker at most, as a cardinality.
LEMMA LockerCardinality ==
    ASSUME OneLocker, NEW j \in Jobs
    PROVE  Cardinality(Locker(j)) <= 1
<1>1. CASE Locker(j) = {}
  BY <1>1, FS_EmptySet
<1>2. CASE Locker(j) # {}
  <2>1. PICK w \in Workers : w \in Locker(j)
    BY <1>2 DEF Locker
  <2>2. Locker(j) = {w}
    BY <2>1 DEF Locker, OneLocker
  <2> QED BY <2>2, FS_Singleton
<1> QED BY <1>1, <1>2

\* The initial states satisfy the invariant.
LEMMA RefreshInit == Init => RefreshInv
<1> SUFFICES ASSUME Init PROVE RefreshInv
  OBVIOUS
<1>1. \A w \in Workers : txn[w] = Empty /\ DOMAIN txn[w] = {}
  BY EmptyWrites DEF Init
<1>2. \A j \in Jobs : Absent \in Row /\ row[j] = Absent
  BY DEF Init, Absent, Row
<1>3. OneLocker /\ LockedExists /\ LeasedHasToken
  BY <1>1, <1>2 DEF OneLocker, LockedExists, LeasedHasToken, Absent
<1>4. TypeOK
  <2>1. txn \in [Workers -> Writes] /\ row \in [Jobs -> Row]
    BY <1>2, EmptyWrites DEF Init
  <2>2. \A j \in Jobs : Cardinality(Locker(j)) <= 1
    BY <1>3, LockerCardinality
  <2>3. \A w \in Workers, j \in Jobs : Seen(w, j).status = "leased" => Seen(w, j).token # NoToken
    BY <1>3 DEF Seen, LeasedHasToken
  <2>4. /\ advisory \in [Workers -> SUBSET Jobs] /\ batch \in [Workers -> SUBSET Jobs]
        /\ held \in [Workers -> [Jobs -> Tokens \cup {NoToken}]]
        /\ cur \in [Workers -> Jobs \cup {None}]
        /\ step \in [Workers -> {"idle", "next"} \cup Working]
        /\ expired \subseteq Jobs \X Tokens
        /\ bars \subseteq Jobs /\ enq = None
    BY DEF Init, Working
  <2>5. enqueues \in 0 .. MaxEnqueues /\ faults \in 0 .. MaxFaults
    BY RefreshAssumption DEF Init
  <2> QED BY <2>1, <2>2, <2>3, <2>4, <2>5, StepNames DEF TypeOK
<1>5. BatchOK /\ UniqueTokens /\ EnqueueOK
  BY DEF Init, BatchOK, UniqueTokens, EnqueueOK, Working, Completed
<1>6. BarsOK
  BY <1>1, <1>2 DEF Init, BarsOK, ObservedHasBars, Absent
<1>7. LiveOK
  BY DEF Init, LiveOK, LiveHolders
<1> QED BY <1>3, <1>4, <1>5, <1>6, <1>7 DEF RefreshInv

----------------------------------------------------------------------------
(* The steps, by what they do to the rows and the transactions.            *)

\* w commits (FetchAndSave, BootstrapConstituent, RecomputeAndSave,
\* CommitBatch).
Commits(w) ==
    /\ row' = Committed(w)
    /\ txn' = [txn EXCEPT ![w] = Empty]
    /\ advisory' = [advisory EXCEPT ![w] = {}]
    /\ UNCHANGED <<expired, batch, held, cur, enq, enqueues, faults>>
    /\ \/ /\ step[w] = "fetch" /\ bars' \in {bars, bars \cup {cur[w]}}
          /\ \E s \in {"fetch", "observed", "empty"} :
                step' = [step EXCEPT ![w] = s] /\ (s = "observed" => cur[w] \in bars')
       \/ step[w] = "next" /\ step' = [step EXCEPT ![w] = "idle"]
          /\ batch[w] = {} /\ bars' = bars

\* w moves on in its loop without touching a row.
Moves(w) ==
    /\ UNCHANGED <<row, txn, expired, batch, held, bars, enq, enqueues>>
    /\ \E s \in Working :
          step' = [step EXCEPT ![w] = s] /\ (s = "observed" => cur'[w] \in bars)
    /\ \E j \in batch[w] : cur' = [cur EXCEPT ![w] = j]
    /\ step[w] # "idle"
    /\ \E A \in SUBSET Jobs : advisory' = [advisory EXCEPT ![w] = A]
    /\ faults' \in 0 .. MaxFaults

\* The session of w closes.
Ends(w) == TaskEnds(w) /\ faults' \in 0 .. MaxFaults

\* A fault within the bound.
LEMMA FaultCounted ==
    ASSUME TypeOK, faults < MaxFaults, faults' = faults + 1
    PROVE  faults' \in 0 .. MaxFaults
BY RefreshAssumption DEF TypeOK

\* What the invariant says of one task at work.
LEMMA TaskFacts ==
    ASSUME RefreshInv, NEW w \in Workers
    PROVE  /\ step[w] \in Working => cur[w] \in batch[w]
           /\ batch[w] \subseteq Jobs
           /\ cur = [cur EXCEPT ![w] = cur[w]]
           /\ advisory[w] \in SUBSET Jobs
           /\ advisory = [advisory EXCEPT ![w] = advisory[w]]
           /\ txn[w] \in Writes /\ DOMAIN txn[w] \subseteq Jobs
           /\ held[w] \in [Jobs -> Tokens \cup {NoToken}]
<1>1. cur \in [Workers -> Jobs \cup {None}] /\ batch \in [Workers -> SUBSET Jobs]
      /\ advisory \in [Workers -> SUBSET Jobs] /\ txn \in [Workers -> Writes]
      /\ held \in [Workers -> [Jobs -> Tokens \cup {NoToken}]]
  BY DEF RefreshInv, TypeOK
<1>2. DOMAIN txn[w] \subseteq Jobs
  BY <1>1, WritesElim
<1> QED BY <1>1, <1>2 DEF RefreshInv, BatchOK

\* Every step is one of these.
LEMMA StepCases ==
    ASSUME RefreshInv, [Next]_vars
    PROVE  \/ \E j \in Jobs : EnqueueRead(j)
           \/ EnqueueFlush
           \/ \E w \in Workers : Moves(w) \/ Commits(w) \/ Ends(w) \/ Finish(w)
                                 \/ \E S \in SUBSET Jobs : Claim(w, S)
           \/ Time
           \/ UNCHANGED vars
<1>1. ASSUME NEW w \in Workers, NEW j \in Jobs, NextJob(w, j) PROVE Moves(w)
  <2>1. j \in batch[w] /\ cur' = [cur EXCEPT ![w] = j] /\ step' = [step EXCEPT ![w] = "lock"]
        /\ step[w] # "idle" /\ UNCHANGED <<row, txn, expired, batch, held, bars, enq, enqueues>>
        /\ advisory' = advisory /\ faults' = faults
    BY <1>1 DEF NextJob, queue
  <2>2. faults' \in 0 .. MaxFaults
    BY <2>1 DEF RefreshInv, TypeOK
  <2>3. \E A \in SUBSET Jobs : advisory' = [advisory EXCEPT ![w] = A]
    BY <2>1, TaskFacts
  <2>4. \E s \in Working : step' = [step EXCEPT ![w] = s] /\ (s = "observed" => cur'[w] \in bars)
    <3>1. "lock" \in Working
      BY DEF Working
    <3> QED BY <2>1, <3>1
  <2> QED BY <2>1, <2>2, <2>3, <2>4 DEF Moves
<1>2. ASSUME NEW w \in Workers, step[w] \in {"lock", "fetch"},
             NEW s \in {"fetch", "retry", "deferred"} \cup Completed,
             step' = [step EXCEPT ![w] = s], s = "observed" => cur[w] \in bars,
             UNCHANGED <<row, txn, expired, batch, held, bars, enq, enqueues>>, cur' = cur,
             NEW A \in SUBSET Jobs, advisory' = [advisory EXCEPT ![w] = A],
             faults' \in 0 .. MaxFaults
      PROVE  Moves(w)
  <2>1. cur[w] \in batch[w] /\ cur' = [cur EXCEPT ![w] = cur[w]]
    BY <1>2, TaskFacts DEF Working
  <2>2. \E j \in batch[w] : cur' = [cur EXCEPT ![w] = j]
    BY <2>1
  <2>3. \E u \in Working :
            step' = [step EXCEPT ![w] = u] /\ (u = "observed" => cur'[w] \in bars)
    BY <1>2 DEF Working
  <2>4. step[w] # "idle" /\ \E B \in SUBSET Jobs : advisory' = [advisory EXCEPT ![w] = B]
    BY <1>2
  <2> QED BY <1>2, <2>2, <2>3, <2>4 DEF Moves
<1>3. ASSUME NEW w \in Workers, RefreshLock(w) PROVE Moves(w)
  <2>1. cur[w] \in Jobs /\ advisory[w] \in SUBSET Jobs
    BY <1>3, TaskFacts DEF RefreshLock, Working
  <2>2. faults' \in 0 .. MaxFaults
    BY <1>3 DEF RefreshLock, RefreshInv, TypeOK
  <2>3. PICK A \in SUBSET Jobs : advisory' = [advisory EXCEPT ![w] = A]
    BY <1>3, <2>1 DEF RefreshLock
  <2> QED BY <1>2, <1>3, <2>2, <2>3 DEF RefreshLock, queue
<1>4. ASSUME NEW w \in Workers, FetchFromStore(w) \/ RecomputeNothing(w) PROVE Moves(w)
  <2>1. faults' \in 0 .. MaxFaults
    BY <1>4 DEF FetchFromStore, RecomputeNothing, RefreshInv, TypeOK
  <2>2. advisory' = [advisory EXCEPT ![w] = advisory[w]] /\ advisory[w] \in SUBSET Jobs
    BY <1>4, TaskFacts DEF FetchFromStore, RecomputeNothing
  <2>3. PICK s \in Completed : step' = [step EXCEPT ![w] = s] /\ (s = "observed" => cur[w] \in bars)
    BY <1>4 DEF FetchFromStore, RecomputeNothing, DataStatus, Completed
  <2>4. step[w] = "fetch" /\ cur' = cur
        /\ UNCHANGED <<row, txn, expired, batch, held, bars, enq, enqueues>>
    BY <1>4 DEF FetchFromStore, RecomputeNothing, queue
  <2> QED BY <1>2, <2>1, <2>2, <2>3, <2>4
<1>5. ASSUME NEW w \in Workers, NEW outcome \in {"retry", "deferred"}, FetchRaises(w, outcome)
      PROVE  Moves(w)
  <2>1. faults' \in 0 .. MaxFaults
    BY <1>5, FaultCounted DEF FetchRaises, RefreshInv
  <2>2. advisory' = [advisory EXCEPT ![w] = advisory[w]] /\ advisory[w] \in SUBSET Jobs
    BY <1>5, TaskFacts DEF FetchRaises
  <2> QED BY <1>2, <1>5, <2>1, <2>2 DEF FetchRaises, queue
<1>6. ASSUME NEW w \in Workers, \/ FetchAndSave(w) \/ RecomputeAndSave(w)
                                \/ BootstrapConstituent(w) \/ CommitBatch(w)
      PROVE  Commits(w)
  <2>1. CASE FetchAndSave(w) \/ RecomputeAndSave(w)
    <3>1. step[w] = "fetch" /\ Save(w) /\ UNCHANGED <<expired, batch, held, cur, enq, enqueues, faults>>
      BY <2>1 DEF FetchAndSave, RecomputeAndSave
    <3>2. \E s \in {"fetch", "observed", "empty"} :
              step' = [step EXCEPT ![w] = s] /\ (s = "observed" => cur[w] \in bars')
      BY <3>1 DEF Save, DataStatus
    <3> QED BY <3>1, <3>2 DEF Save, Commit, Commits
  <2>2. CASE BootstrapConstituent(w)
    <3>1. step' = [step EXCEPT ![w] = "fetch"]
      BY <2>2 DEF BootstrapConstituent, RefreshInv, TypeOK
    <3> QED BY <2>2, <3>1 DEF BootstrapConstituent, Commit, Commits
  <2>3. CASE CommitBatch(w)
    BY <2>3 DEF CommitBatch, Commit, Commits
  <2> QED BY <1>6, <2>1, <2>2, <2>3
<1>7. ASSUME NEW w \in Workers, SaveFails(w) \/ TaskDies(w) \/ DeadlockVictim(w) PROVE Ends(w)
  <2>1. CASE SaveFails(w) \/ TaskDies(w)
    BY <2>1, FaultCounted DEF SaveFails, TaskDies, Ends, RefreshInv
  <2>2. CASE DeadlockVictim(w)
    BY <2>2 DEF DeadlockVictim, Ends, RefreshInv, TypeOK
  <2> QED BY <1>7, <2>1, <2>2
<1>8. ASSUME NEW w \in Workers, Process(w)
      PROVE  Moves(w) \/ Commits(w) \/ Finish(w) \/ \E S \in SUBSET Jobs : Claim(w, S)
  BY <1>1, <1>3, <1>4, <1>6, <1>8 DEF Process
<1>9. ASSUME NEW w \in Workers, Fault(w) \/ DeadlockVictim(w) PROVE Moves(w) \/ Ends(w)
  BY <1>5, <1>7, <1>9 DEF Fault
<1> QED BY <1>8, <1>9 DEF Next

\* What the flush of an enqueue call writes.
LEMMA EnqueuedRowIs ==
    ASSUME NEW read \in Row, NEW current \in Row
    PROVE  /\ EnqueuedRow(read, current) \in Row
           /\ EnqueuedRow(read, current).status = "leased" =>
                 current.status = "leased"
                 /\ EnqueuedRow(read, current).token = current.token
           /\ EnqueuedRow(read, current).status = "observed" => current.status = "observed"
<1>1. CASE read = Absent
  BY <1>1 DEF EnqueuedRow, Row, NoToken
<1>2. CASE read # Absent
  <2>1. PICK d \in BOOLEAN : d = (current.due \/ ~read.due)
    BY DEF Row
  <2>2. PICK s : s = IF read.status = "deferred" THEN "queued" ELSE current.status
    OBVIOUS
  <2>3. EnqueuedRow(read, current) = [current EXCEPT !.status = s, !.due = d]
    BY <1>2, <2>1, <2>2 DEF EnqueuedRow
  <2>4. s \in {"absent", "queued", "leased", "retry", "deferred"} \cup Completed
    BY <2>2 DEF Row
  <2>5. EnqueuedRow(read, current) \in Row
    BY <2>1, <2>3, <2>4 DEF Row
  <2>6. EnqueuedRow(read, current).status = s /\ EnqueuedRow(read, current).token = current.token
    BY <2>3 DEF Row
  <2> QED BY <2>2, <2>5, <2>6
<1> QED BY <1>1, <1>2

\* What a finished job leaves in its row.
LEMMA FinishedRowIs ==
    ASSUME NEW outcome \in Completed \cup {"retry", "deferred"}, NEW r \in Row
    PROVE  /\ FinishedRow(outcome, r) \in Row
           /\ FinishedRow(outcome, r).status \notin {"absent", "leased"}
           /\ FinishedRow(outcome, r).status = outcome
<1>1. PICK d \in BOOLEAN : d = (r.due /\ outcome \in Completed)
  BY DEF Row
<1>2. FinishedRow(outcome, r) =
          [status |-> outcome, due |-> d, token |-> NoToken]
  BY <1>1 DEF FinishedRow
<1> QED BY <1>2 DEF Row, Completed

\* The flush, with the values it uses.
LEMMA FlushFacts ==
    ASSUME RefreshInv, EnqueueFlush
    PROVE  \E j \in Jobs, read \in Row :
              /\ enq # None /\ enq.job = j /\ enq.read = read /\ Locker(j) = {}
              /\ row' = [row EXCEPT ![j] = EnqueuedRow(read, row[j])]
              /\ row[j] \in Row
<1>1. enq \in [job : Jobs, read : Row] /\ row \in [Jobs -> Row]
  BY DEF RefreshInv, TypeOK, EnqueueFlush
<1>2. PICK j \in Jobs, read \in Row : enq.job = j /\ enq.read = read
  BY <1>1
<1>3. enq # None /\ Locker(j) = {} /\ row' = [row EXCEPT ![j] = EnqueuedRow(read, row[j])]
  BY <1>2 DEF EnqueueFlush
<1> QED BY <1>1, <1>2, <1>3

\* A key nobody has locked.
LEMMA Unlocked ==
    ASSUME NEW j, Locker(j) = {}, NEW w \in Workers
    PROVE  j \notin DOMAIN txn[w]
BY DEF Locker

\* A commit or the end of a session empties one transaction.
Emptied(w) ==
    /\ txn' \in [Workers -> Writes]
    /\ DOMAIN txn'[w] = {}
    /\ \A v \in Workers : v # w => txn'[v] = txn[v]
    /\ \A v \in Workers : DOMAIN txn'[v] \subseteq DOMAIN txn[v]
    /\ \A v \in Workers : \A k \in DOMAIN txn'[v] : txn'[v][k] = txn[v][k]

LEMMA TxnEmptied ==
    ASSUME RefreshInv, NEW w \in Workers, txn' = [txn EXCEPT ![w] = Empty]
    PROVE  Emptied(w)
<1>1. txn \in [Workers -> Writes]
  BY DEF RefreshInv, TypeOK
<1>2. txn'[w] = Empty /\ \A v \in Workers : v # w => txn'[v] = txn[v]
  BY <1>1
<1>3. txn' \in [Workers -> Writes]
  BY <1>1, EmptyWrites
<1>4. DOMAIN txn'[w] = {}
  BY <1>2, EmptyWrites
<1> QED BY <1>2, <1>3, <1>4 DEF Emptied

\* A claim, with the values it uses.
ClaimEffect(w, S) ==
    /\ txn'[w] \in Writes /\ DOMAIN txn'[w] = S
    /\ \A v \in Workers : v # w => txn'[v] = txn[v]
    /\ \A j \in S : /\ txn'[w][j].status = "leased" /\ txn'[w][j].token = Fresh(j)
                    /\ Fresh(j) \in Tokens /\ Fresh(j) # NoToken
                    /\ Fresh(j) # row[j].token
                    /\ \A v \in Workers : held[v][j] # Fresh(j)
                    /\ Locker(j) = {} /\ row[j].status # "absent"
                    /\ row[j].status = "leased" => <<j, row[j].token>> \in expired
    /\ txn' \in [Workers -> Writes]
    /\ DOMAIN txn[w] \cap S = {}

LEMMA ClaimFacts ==
    ASSUME RefreshInv, NEW w \in Workers, NEW S \in SUBSET Jobs, Claim(w, S)
    PROVE  ClaimEffect(w, S)
<1>1. txn \in [Workers -> Writes] /\ row \in [Jobs -> Row]
  BY DEF RefreshInv, TypeOK
<1>2. ASSUME NEW j \in S
      PROVE  /\ Fresh(j) \in Tokens /\ Fresh(j) # NoToken /\ Fresh(j) # row[j].token
             /\ \A v \in Workers : held[v][j] # Fresh(j)
             /\ Locker(j) = {} /\ row[j].status # "absent"
             /\ row[j].status = "leased" => <<j, row[j].token>> \in expired
  <2>1. j \in Jobs /\ step[w] = "idle" /\ j \in Claimable
    BY DEF Claim
  <2>2. Locker(j) = {} /\ row[j].status # "absent"
        /\ (row[j].status = "leased" => <<j, row[j].token>> \in expired)
    BY <2>1 DEF Claimable, Free
  <2> QED BY <2>1, <2>2, FreshIsNew
<1>3. PICK t : t = [j \in S |-> [row[j] EXCEPT !.status = "leased", !.token = Fresh(j)]]
  OBVIOUS
<1>4. txn' = [txn EXCEPT ![w] = t]
  BY <1>3 DEF Claim
<1>5. ASSUME NEW j \in S
      PROVE  t[j] \in Row /\ t[j].status = "leased" /\ t[j].token = Fresh(j)
  <2>1. row[j] \in Row /\ t[j] = [row[j] EXCEPT !.status = "leased", !.token = Fresh(j)]
    BY <1>1, <1>3
  <2> QED BY <1>2, <2>1 DEF Row
<1>6. t \in [S -> Row]
  BY <1>3, <1>5
<1>7. t \in Writes /\ DOMAIN t = S
  BY <1>6, WritesIntro
<1>8. txn'[w] = t /\ (\A v \in Workers : v # w => txn'[v] = txn[v]) /\ txn' \in [Workers -> Writes]
  BY <1>1, <1>4, <1>7
<1>9. DOMAIN txn[w] \cap S = {}
  BY <1>2, Unlocked
<1> QED BY <1>2, <1>5, <1>7, <1>8, <1>9 DEF ClaimEffect

\* The end of a job, with the values it uses.
LEMMA FinishFacts ==
    ASSUME RefreshInv, NEW w \in Workers, Finish(w)
    PROVE  \E j \in Jobs :
              /\ j = cur[w] /\ j \in batch[w] /\ Locker(j) \subseteq {w}
              /\ held' = [held EXCEPT ![w][j] = NoToken]
              /\ batch' = [batch EXCEPT ![w] = batch[w] \ {j}]
              /\ \A v \in Workers : v # w => txn'[v] = txn[v]
              /\ txn' \in [Workers -> Writes]
              /\ \/ txn' = txn /\ ~Owns(w, j)
                 \/ /\ Owns(w, j)
                    /\ DOMAIN txn'[w] = DOMAIN txn[w] \cup {j}
                    /\ \A k \in DOMAIN txn[w] : k # j => txn'[w][k] = txn[w][k]
                    /\ txn'[w][j].status \notin {"absent", "leased"}
                    /\ txn'[w][j].status = "observed" => step[w] = "observed"
<1>1. txn \in [Workers -> Writes]
  BY DEF RefreshInv, TypeOK
<1>2. cur[w] \in batch[w] /\ batch[w] \subseteq Jobs
  BY TaskFacts DEF Finish, Working
<1>3. PICK j \in Jobs : j = cur[w] /\ j \in batch[w]
  BY <1>2
<1>4. /\ Locker(j) \subseteq {w} /\ held' = [held EXCEPT ![w][j] = NoToken]
      /\ batch' = [batch EXCEPT ![w] = batch[w] \ {j}]
  BY <1>3 DEF Finish
<1>5. CASE ~Owns(w, j)
  <2>1. txn' = txn
    BY <1>3, <1>5 DEF Finish
  <2> QED BY <1>1, <1>3, <1>4, <1>5, <2>1
<1>6. CASE Owns(w, j)
  <2>1. step[w] \in Completed \cup {"retry", "deferred"} /\ Seen(w, j) \in Row
    BY SeenIsRow DEF Finish, RefreshInv
  <2>2. PICK r : r = FinishedRow(step[w], Seen(w, j))
    OBVIOUS
  <2>3. r \in Row /\ r.status \notin {"absent", "leased"}
        /\ (r.status = "observed" => step[w] = "observed")
    BY <2>1, <2>2, FinishedRowIs
  <2>4. txn' = [txn EXCEPT ![w] = Write(w, j, r)]
    BY <1>3, <1>6, <2>2 DEF Finish
  <2>5. /\ Write(w, j, r) \in Writes /\ DOMAIN Write(w, j, r) = DOMAIN txn[w] \cup {j}
        /\ Write(w, j, r)[j] = r
        /\ \A k \in DOMAIN txn[w] : k # j => Write(w, j, r)[k] = txn[w][k]
    BY <2>3, WriteIs DEF RefreshInv
  <2>6. txn'[w] = Write(w, j, r) /\ (\A v \in Workers : v # w => txn'[v] = txn[v])
        /\ txn' \in [Workers -> Writes]
    BY <1>1, <2>4, <2>5
  <2> QED BY <1>3, <1>4, <1>6, <2>3, <2>5, <2>6
<1> QED BY <1>5, <1>6

----------------------------------------------------------------------------
(* Every step keeps the invariant, conjunct by conjunct.                   *)

\* Row locks and what is written under them.
LEMMA LocksStep ==
    ASSUME RefreshInv, [Next]_vars
    PROVE  OneLocker' /\ LockedExists' /\ LeasedHasToken'
<1>0. TypeOK /\ OneLocker /\ LockedExists /\ LeasedHasToken
  BY DEF RefreshInv
<1> USE <1>0
<1>1. row \in [Jobs -> Row]
  BY DEF TypeOK
<1>2. ASSUME txn' = txn, row' = row
      PROVE  OneLocker' /\ LockedExists' /\ LeasedHasToken'
  BY <1>2 DEF OneLocker, LockedExists, LeasedHasToken
<1>3. ASSUME NEW j \in Jobs, Locker(j) = {}, txn' = txn, NEW r, row' = [row EXCEPT ![j] = r],
             r.status = "leased" => r.token # NoToken
      PROVE  OneLocker' /\ LockedExists' /\ LeasedHasToken'
  <2>1. \A w \in Workers : \A k \in DOMAIN txn[w] : k # j
    BY <1>3, Unlocked
  <2>2. row'[j] = r /\ \A k \in Jobs : k # j => row'[k] = row[k]
    BY <1>1, <1>3
  <2>3. \A w \in Workers : DOMAIN txn[w] \subseteq Jobs
    BY TaskFacts
  <2> QED BY <1>3, <2>1, <2>2, <2>3 DEF OneLocker, LockedExists, LeasedHasToken
<1>4. CASE EnqueueFlush
  <2>1. PICK j \in Jobs, read \in Row :
           Locker(j) = {} /\ row' = [row EXCEPT ![j] = EnqueuedRow(read, row[j])] /\ row[j] \in Row
    BY <1>4, FlushFacts
  <2>2. EnqueuedRow(read, row[j]).status = "leased" => EnqueuedRow(read, row[j]).token # NoToken
    BY <2>1, EnqueuedRowIs DEF LeasedHasToken
  <2>3. txn' = txn
    BY <1>4 DEF EnqueueFlush
  <2> QED BY <1>3, <2>1, <2>2, <2>3
<1>5. ASSUME NEW w \in Workers, Commits(w)
      PROVE  OneLocker' /\ LockedExists' /\ LeasedHasToken'
  <2>0. Emptied(w)
    BY <1>5, TxnEmptied DEF Commits
  <2>1. txn' = [txn EXCEPT ![w] = Empty] /\ row' = [j \in Jobs |-> Seen(w, j)]
    BY <1>5 DEF Commits, Committed
  <2>2. OneLocker'
    BY <2>0 DEF Emptied, OneLocker
  <2>3. LockedExists'
    <3>1. ASSUME NEW v \in Workers, NEW k \in DOMAIN txn'[v]
          PROVE  row'[k].status # "absent" /\ txn'[v][k].status # "absent"
      <4>1. v # w /\ k \in DOMAIN txn[v] /\ k \in Jobs /\ txn'[v][k] = txn[v][k]
        BY <2>0, TaskFacts DEF Emptied
      <4>2. row'[k] = row[k]
        BY <2>1, <4>1 DEF Seen, OneLocker
      <4> QED BY <4>1, <4>2 DEF LockedExists
    <3> QED BY <3>1 DEF LockedExists
  <2>4. LeasedHasToken'
    <3>1. \A j \in Jobs : row'[j].status = "leased" => row'[j].token # NoToken
      BY <2>1 DEF LeasedHasToken, Seen
    <3>2. \A v \in Workers : \A j \in DOMAIN txn'[v] :
              txn'[v][j].status = "leased" => txn'[v][j].token # NoToken
      BY <2>0 DEF Emptied, LeasedHasToken
    <3> QED BY <3>1, <3>2 DEF LeasedHasToken
  <2> QED BY <2>2, <2>3, <2>4
<1>6. ASSUME NEW w \in Workers, Ends(w)
      PROVE  OneLocker' /\ LockedExists' /\ LeasedHasToken'
  <2>1. txn' = [txn EXCEPT ![w] = Empty] /\ row' = row
    BY <1>6 DEF Ends, TaskEnds
  <2>2. Emptied(w)
    BY <2>1, TxnEmptied
  <2> QED BY <2>1, <2>2 DEF Emptied, OneLocker, LockedExists, LeasedHasToken
<1>7. ASSUME NEW w \in Workers, NEW S \in SUBSET Jobs, Claim(w, S)
      PROVE  OneLocker' /\ LockedExists' /\ LeasedHasToken'
  <2>0. ClaimEffect(w, S)
    BY <1>7, ClaimFacts
  <2>1. row' = row
    BY <1>7 DEF Claim
  <2>2. OneLocker'
    <3>1. ASSUME NEW v \in Workers, v # w PROVE DOMAIN txn'[v] \cap S = {}
      BY <2>0, <3>1, Unlocked DEF ClaimEffect
    <3> QED BY <2>0, <3>1 DEF ClaimEffect, OneLocker
  <2>3. LockedExists' /\ LeasedHasToken'
    BY <2>0, <2>1 DEF ClaimEffect, LockedExists, LeasedHasToken
  <2> QED BY <2>2, <2>3
<1>8. ASSUME NEW w \in Workers, Finish(w)
      PROVE  OneLocker' /\ LockedExists' /\ LeasedHasToken'
  <2>1. row' = row
    BY <1>8 DEF Finish
  <2>2. PICK j \in Jobs :
              /\ Locker(j) \subseteq {w}
              /\ \A v \in Workers : v # w => txn'[v] = txn[v]
              /\ \/ txn' = txn
                 \/ /\ Owns(w, j)
                    /\ DOMAIN txn'[w] = DOMAIN txn[w] \cup {j}
                    /\ \A k \in DOMAIN txn[w] : k # j => txn'[w][k] = txn[w][k]
                    /\ txn'[w][j].status \notin {"absent", "leased"}
    BY <1>8, FinishFacts
  <2>3. CASE txn' = txn
    BY <1>2, <2>1, <2>3
  <2>4. CASE /\ Owns(w, j)
             /\ DOMAIN txn'[w] = DOMAIN txn[w] \cup {j}
             /\ \A k \in DOMAIN txn[w] : k # j => txn'[w][k] = txn[w][k]
             /\ txn'[w][j].status \notin {"absent", "leased"}
    <3>1. \A v \in Workers : v # w => j \notin DOMAIN txn[v]
      BY <2>2 DEF Locker
    <3>2. OneLocker'
      BY <2>2, <2>4, <3>1 DEF OneLocker
    <3>3. row[j].status # "absent"
      BY <2>4 DEF Owns, Seen, LockedExists
    <3>4. LockedExists'
      BY <2>1, <2>2, <2>4, <3>3 DEF LockedExists
    <3>5. LeasedHasToken'
      BY <2>1, <2>2, <2>4 DEF LeasedHasToken
    <3> QED BY <3>2, <3>4, <3>5
  <2> QED BY <2>2, <2>3, <2>4
<1>9. CASE Time
  <2>1. ASSUME NEW j \in Jobs, BecomeDue(j) PROVE OneLocker' /\ LockedExists' /\ LeasedHasToken'
    <3>1. row' = [row EXCEPT ![j] = [row[j] EXCEPT !.due = TRUE]] /\ txn' = txn /\ Locker(j) = {}
      BY <2>1 DEF BecomeDue
    <3>2. PICK r : r = [row[j] EXCEPT !.due = TRUE]
      OBVIOUS
    <3>3. r.status = row[j].status /\ r.token = row[j].token
      BY <1>1, <3>2 DEF Row
    <3> QED BY <1>3, <3>1, <3>2, <3>3 DEF LeasedHasToken
  <2>2. ASSUME NEW j \in Jobs, NEW t \in Tokens, Expire(j, t) PROVE txn' = txn /\ row' = row
    BY <2>2 DEF Expire
  <2> QED BY <1>2, <1>9, <2>1, <2>2 DEF Time
<1>10. ASSUME NEW j \in Jobs, EnqueueRead(j) PROVE txn' = txn /\ row' = row
  BY <1>10 DEF EnqueueRead, queue
<1>11. ASSUME NEW w \in Workers, Moves(w) PROVE txn' = txn /\ row' = row
  BY <1>11 DEF Moves
<1>12. ASSUME UNCHANGED vars PROVE txn' = txn /\ row' = row
  BY <1>12 DEF vars
<1> QED BY <1>2, <1>4, <1>5, <1>6, <1>7, <1>8, <1>9, <1>10, <1>11, <1>12, StepCases

\* Batches, remembered leases and their tokens.
LEMMA BatchStep ==
    ASSUME RefreshInv, [Next]_vars
    PROVE  BatchOK' /\ UniqueTokens'
<1>0. TypeOK /\ BatchOK /\ UniqueTokens
  BY DEF RefreshInv
<1> USE <1>0
<1>1. /\ batch \in [Workers -> SUBSET Jobs] /\ cur \in [Workers -> Jobs \cup {None}]
      /\ held \in [Workers -> [Jobs -> Tokens \cup {NoToken}]]
      /\ step \in [Workers -> {"idle", "next"} \cup Working]
  BY StepNames DEF TypeOK
<1>2. ASSUME UNCHANGED <<batch, held, cur, step>> PROVE BatchOK' /\ UniqueTokens'
  BY <1>2 DEF BatchOK, UniqueTokens
<1>3. ASSUME NEW w \in Workers, Moves(w) PROVE BatchOK' /\ UniqueTokens'
  <2>1. PICK s \in Working :
            step' = [step EXCEPT ![w] = s]
    BY <1>3 DEF Moves
  <2>2. PICK j \in batch[w] : cur' = [cur EXCEPT ![w] = j]
    BY <1>3 DEF Moves
  <2>3. batch' = batch /\ held' = held
    BY <1>3 DEF Moves
  <2> QED BY <1>1, <2>1, <2>2, <2>3 DEF BatchOK, UniqueTokens, Working, Completed
<1>4. ASSUME NEW w \in Workers, Commits(w) PROVE BatchOK' /\ UniqueTokens'
  <2>1. UNCHANGED <<batch, held, cur>>
    BY <1>4 DEF Commits
  <2>2. \/ step[w] = "fetch" /\ \E s \in {"fetch", "observed", "empty"} : step' = [step EXCEPT ![w] = s]
        \/ step[w] = "next" /\ step' = [step EXCEPT ![w] = "idle"] /\ batch[w] = {}
    BY <1>4 DEF Commits
  <2> QED BY <1>1, <2>1, <2>2 DEF BatchOK, UniqueTokens, Working, Completed
<1>5. ASSUME NEW w \in Workers, Ends(w) PROVE BatchOK' /\ UniqueTokens'
  <2>1. /\ batch' = [batch EXCEPT ![w] = {}] /\ step' = [step EXCEPT ![w] = "idle"]
        /\ held' = [held EXCEPT ![w] = [j \in Jobs |-> NoToken]]
        /\ cur' = [cur EXCEPT ![w] = None]
    BY <1>5 DEF Ends, TaskEnds
  <2>2. BatchOK'
    BY <1>1, <2>1 DEF BatchOK, Working, Completed
  <2>3. UniqueTokens'
    BY <1>1, <2>1 DEF UniqueTokens
  <2> QED BY <2>2, <2>3
<1>6. ASSUME NEW w \in Workers, NEW S \in SUBSET Jobs, Claim(w, S) PROVE BatchOK' /\ UniqueTokens'
  <2>1. /\ batch' = [batch EXCEPT ![w] = S] /\ step' = [step EXCEPT ![w] = "next"] /\ cur' = cur
        /\ held' = [held EXCEPT ![w] = [j \in Jobs |-> IF j \in S THEN Fresh(j) ELSE NoToken]]
    BY <1>6 DEF Claim
  <2>2. BatchOK'
    BY <1>1, <2>1 DEF BatchOK, Working, Completed
  <2>3. \A j \in S : \A v \in Workers : held[v][j] # Fresh(j)
    <3>1. ClaimEffect(w, S)
      BY <1>6, ClaimFacts
    <3> QED BY <3>1 DEF ClaimEffect
  <2>4. UniqueTokens'
    BY <1>1, <2>1, <2>3 DEF UniqueTokens
  <2> QED BY <2>2, <2>4
<1>7. ASSUME NEW w \in Workers, Finish(w) PROVE BatchOK' /\ UniqueTokens'
  <2>1. PICK j \in Jobs : /\ held' = [held EXCEPT ![w][j] = NoToken]
                          /\ batch' = [batch EXCEPT ![w] = batch[w] \ {j}]
    BY <1>7, FinishFacts
  <2>2. step' = [step EXCEPT ![w] = "next"] /\ cur' = [cur EXCEPT ![w] = None]
    BY <1>7 DEF Finish
  <2>3. BatchOK'
    BY <1>1, <2>1, <2>2 DEF BatchOK, Working, Completed
  <2>4. UniqueTokens'
    BY <1>1, <2>1 DEF UniqueTokens
  <2> QED BY <2>3, <2>4
<1>8. ASSUME \/ \E j \in Jobs : EnqueueRead(j)
             \/ EnqueueFlush \/ Time \/ UNCHANGED vars
      PROVE  UNCHANGED <<batch, held, cur, step>>
  BY <1>8 DEF EnqueueRead, EnqueueFlush, Time, BecomeDue, Expire, vars, loop
<1> QED BY <1>2, <1>3, <1>4, <1>5, <1>6, <1>7, <1>8, StepCases

\* A row that is committed by w is the one w sees, and a row that w has not
\* locked is left as it was.
LEMMA CommitFacts ==
    ASSUME NEW w \in Workers, row' = Committed(w), NEW j \in Jobs
    PROVE  row'[j] = Seen(w, j) /\ (j \notin DOMAIN txn[w] => row'[j] = row[j])
BY DEF Committed, Seen

\* Enqueue calls that found no row.
LEMMA EnqueueStep ==
    ASSUME RefreshInv, [Next]_vars
    PROVE  EnqueueOK'
<1>0. TypeOK /\ OneLocker /\ LockedExists /\ EnqueueOK
  BY DEF RefreshInv
<1>1. enq # None => enq.job \in Jobs
  BY <1>0 DEF TypeOK
<1>2. ASSUME UNCHANGED <<enq, row>> PROVE EnqueueOK'
  BY <1>0, <1>2 DEF EnqueueOK
<1>3. ASSUME NEW j \in Jobs, EnqueueRead(j) PROVE EnqueueOK'
  <2>1. enq' = [job |-> j, read |-> row[j]] /\ row' = row /\ (row[j] = Absent \/ j \in Recurring)
    BY <1>3 DEF EnqueueRead, queue
  <2>2. enq'.job = j /\ enq'.read = row[j]
    BY <2>1
  <2> QED BY <2>1, <2>2 DEF EnqueueOK
<1>4. ASSUME EnqueueFlush PROVE EnqueueOK'
  BY <1>4 DEF EnqueueFlush, EnqueueOK
<1>5. ASSUME NEW w \in Workers, Commits(w) PROVE EnqueueOK'
  <2>1. enq' = enq /\ row' = Committed(w)
    BY <1>5 DEF Commits
  <2>2. ASSUME enq # None, enq.read = Absent PROVE row'[enq.job] = Absent
    <3>1. enq.job \in Jobs /\ row[enq.job] = Absent
      BY <1>0, <1>1, <2>2 DEF EnqueueOK
    <3>2. enq.job \notin DOMAIN txn[w]
      BY <1>0, <3>1 DEF LockedExists, Absent
    <3> QED BY <2>1, <3>1, <3>2, CommitFacts
  <2> QED BY <1>0, <2>1, <2>2 DEF EnqueueOK
<1>6. ASSUME NEW j \in Jobs, BecomeDue(j) PROVE EnqueueOK'
  <2>1. enq' = enq /\ row[j] # Absent /\ row' = [row EXCEPT ![j].due = TRUE]
    BY <1>6 DEF BecomeDue
  <2> QED BY <1>0, <1>1, <2>1 DEF EnqueueOK, TypeOK
<1>7. ASSUME \/ \E w \in Workers : \/ Moves(w) \/ Ends(w) \/ Finish(w)
                                   \/ \E S \in SUBSET Jobs : Claim(w, S)
             \/ \E j \in Jobs, t \in Tokens : Expire(j, t)
             \/ UNCHANGED vars
      PROVE  UNCHANGED <<enq, row>>
  BY <1>7 DEF Moves, Ends, TaskEnds, Finish, Claim, Expire, vars
<1> QED BY <1>2, <1>3, <1>4, <1>5, <1>6, <1>7, StepCases DEF Time

\* Bars behind what is completed.
LEMMA BarsStep ==
    ASSUME RefreshInv, [Next]_vars
    PROVE  BarsOK'
<1>0. TypeOK /\ OneLocker /\ BarsOK
  BY DEF RefreshInv
<1>1. /\ row \in [Jobs -> Row] /\ bars \subseteq Jobs
      /\ cur \in [Workers -> Jobs \cup {None}]
      /\ step \in [Workers -> {"idle", "next"} \cup Working]
  BY <1>0, StepNames DEF TypeOK
<1>2. ASSUME NEW w \in Workers, Moves(w) PROVE BarsOK'
  <2>1. PICK s \in Working :
            step' = [step EXCEPT ![w] = s] /\ (s = "observed" => cur'[w] \in bars)
    BY <1>2 DEF Moves
  <2>2. PICK j \in batch[w] : cur' = [cur EXCEPT ![w] = j]
    BY <1>2 DEF Moves
  <2>3. row' = row /\ txn' = txn /\ bars' = bars
    BY <1>2 DEF Moves
  <2>4. ASSUME NEW v \in Workers, step'[v] = "observed" PROVE cur'[v] \in bars'
    BY <1>0, <1>1, <2>1, <2>2, <2>3, <2>4 DEF BarsOK
  <2> QED BY <1>0, <2>3, <2>4 DEF BarsOK, ObservedHasBars
<1>3. ASSUME NEW w \in Workers, Commits(w) PROVE BarsOK'
  <2>1. /\ cur' = cur /\ row' = Committed(w)
        /\ \/ /\ step[w] = "fetch" /\ bars' \in {bars, bars \cup {cur[w]}}
              /\ \E s \in {"fetch", "observed", "empty"} :
                    step' = [step EXCEPT ![w] = s] /\ (s = "observed" => cur[w] \in bars')
           \/ step[w] = "next" /\ step' = [step EXCEPT ![w] = "idle"] /\ bars' = bars
    BY <1>3 DEF Commits
  <2>3. bars \subseteq bars'
    BY <2>1
  <2>4. Emptied(w)
    BY <1>3, TxnEmptied DEF Commits
  <2>5. ObservedHasBars'
    <3>1. ASSUME NEW j \in Jobs, row'[j].status = "observed" PROVE j \in bars'
      <4>1. Seen(w, j).status = "observed"
        BY <2>1, <3>1, CommitFacts
      <4>2. j \in bars
        BY <1>0, <4>1 DEF Seen, BarsOK, ObservedHasBars
      <4> QED BY <2>3, <4>2
    <3> QED BY <3>1 DEF ObservedHasBars
  <2>6. ASSUME NEW v \in Workers, NEW j \in DOMAIN txn'[v], txn'[v][j].status = "observed"
        PROVE  j \in bars'
    <3>1. j \in DOMAIN txn[v] /\ txn'[v][j] = txn[v][j] /\ j \in Jobs
      BY <2>4, TaskFacts DEF Emptied
    <3> QED BY <1>0, <2>3, <2>6, <3>1 DEF BarsOK
  <2>7. ASSUME NEW v \in Workers, step'[v] = "observed" PROVE cur'[v] \in bars'
    <3>1. CASE v = w
      BY <1>1, <2>1, <2>7, <3>1
    <3>2. CASE v # w
      <4>1. step[v] = "observed" /\ cur'[v] = cur[v]
        BY <1>1, <2>1, <2>7, <3>2
      <4> QED BY <1>0, <2>3, <4>1 DEF BarsOK
    <3> QED BY <3>1, <3>2
  <2> QED BY <2>5, <2>6, <2>7 DEF BarsOK
<1>4. ASSUME bars' = bars, row' = row, NEW w \in Workers, NEW s \in {"idle", "next"},
             step' = [step EXCEPT ![w] = s], \A v \in Workers : v # w => cur'[v] = cur[v],
             \A v \in Workers : v # w => txn'[v] = txn[v],
             \A j \in DOMAIN txn'[w] : txn'[w][j].status = "observed" => j \in bars
      PROVE  BarsOK'
  <2>1. \A v \in Workers : step'[v] = "observed" => cur'[v] \in bars'
    BY <1>0, <1>1, <1>4 DEF BarsOK
  <2> QED BY <1>0, <1>4, <2>1 DEF BarsOK, ObservedHasBars
<1>5. ASSUME NEW w \in Workers, Ends(w) PROVE BarsOK'
  <2>1. Emptied(w)
    BY <1>5, TxnEmptied DEF Ends, TaskEnds
  <2>2. \A v \in Workers : v # w => cur'[v] = cur[v]
    BY <1>1, <1>5 DEF Ends, TaskEnds
  <2>3. bars' = bars /\ row' = row /\ step' = [step EXCEPT ![w] = "idle"]
    BY <1>5 DEF Ends, TaskEnds
  <2> QED BY <1>4, <2>1, <2>2, <2>3 DEF Emptied
<1>6. ASSUME NEW w \in Workers, NEW S \in SUBSET Jobs, Claim(w, S) PROVE BarsOK'
  <2>1. ClaimEffect(w, S)
    BY <1>6, ClaimFacts
  <2>2. bars' = bars /\ row' = row /\ step' = [step EXCEPT ![w] = "next"] /\ cur' = cur
    BY <1>6 DEF Claim
  <2> QED BY <1>4, <2>1, <2>2 DEF ClaimEffect
<1>7. ASSUME NEW w \in Workers, Finish(w) PROVE BarsOK'
  <2>1. bars' = bars /\ row' = row /\ step' = [step EXCEPT ![w] = "next"]
        /\ (\A v \in Workers : v # w => cur'[v] = cur[v])
    BY <1>1, <1>7 DEF Finish
  <2>2. PICK j \in Jobs :
              /\ j = cur[w]
              /\ \A v \in Workers : v # w => txn'[v] = txn[v]
              /\ \/ txn' = txn
                 \/ /\ DOMAIN txn'[w] = DOMAIN txn[w] \cup {j}
                    /\ \A k \in DOMAIN txn[w] : k # j => txn'[w][k] = txn[w][k]
                    /\ txn'[w][j].status = "observed" => step[w] = "observed"
    BY <1>7, FinishFacts
  <2>3. \A k \in DOMAIN txn'[w] : txn'[w][k].status = "observed" => k \in bars
    BY <1>0, <2>2 DEF BarsOK
  <2> QED BY <1>4, <2>1, <2>2, <2>3
<1>8. ASSUME bars' = bars, txn' = txn, UNCHANGED <<step, cur>>,
             \A j \in Jobs : row'[j].status = "observed" => row[j].status = "observed"
      PROVE  BarsOK'
  BY <1>0, <1>8 DEF BarsOK, ObservedHasBars
<1>9. ASSUME EnqueueFlush PROVE BarsOK'
  <2>1. PICK j \in Jobs, read \in Row :
           row' = [row EXCEPT ![j] = EnqueuedRow(read, row[j])] /\ row[j] \in Row
    BY <1>9, FlushFacts
  <2>2. EnqueuedRow(read, row[j]).status = "observed" => row[j].status = "observed"
    BY <2>1, EnqueuedRowIs
  <2>3. bars' = bars /\ txn' = txn /\ UNCHANGED <<step, cur>>
    BY <1>9 DEF EnqueueFlush, loop
  <2> QED BY <1>1, <1>8, <2>1, <2>2, <2>3
<1>10. ASSUME NEW j \in Jobs, BecomeDue(j) PROVE BarsOK'
  <2>1. bars' = bars /\ txn' = txn /\ UNCHANGED <<step, cur>>
        /\ row' = [row EXCEPT ![j] = [row[j] EXCEPT !.due = TRUE]]
    BY <1>10 DEF BecomeDue, loop
  <2>2. [row[j] EXCEPT !.due = TRUE].status = row[j].status
    BY <1>1 DEF Row
  <2> QED BY <1>1, <1>8, <2>1, <2>2
<1>11. ASSUME \/ \E j \in Jobs : EnqueueRead(j)
              \/ \E j \in Jobs, t \in Tokens : Expire(j, t)
              \/ UNCHANGED vars
       PROVE  bars' = bars /\ txn' = txn /\ UNCHANGED <<step, cur>> /\ row' = row
  BY <1>11 DEF EnqueueRead, Expire, vars, queue, loop
<1> QED BY <1>2, <1>3, <1>5, <1>6, <1>7, <1>8, <1>9, <1>10, <1>11, StepCases DEF Time

\* A lease w remembers for j is in the row w sees, which nobody else locks.
LeaseSeen(w, j) ==
    /\ Locker(j) \subseteq {w}
    /\ Seen(w, j).status = "leased"
    /\ Seen(w, j).token = held[w][j]

Live(w, j) == held[w][j] # NoToken /\ <<j, held[w][j]>> \notin expired

\* The same lease is seen as long as the row, the lock and the memory stay.
LEMMA SeenKept ==
    ASSUME NEW w \in Workers, NEW j, LeaseSeen(w, j), held'[w][j] = held[w][j],
           j \in DOMAIN txn'[w] <=> j \in DOMAIN txn[w],
           j \in DOMAIN txn[w] => txn'[w][j] = txn[w][j],
           row'[j].status = row[j].status, row'[j].token = row[j].token,
           \A v \in Workers : v # w => (j \in DOMAIN txn'[v] => j \in DOMAIN txn[v])
    PROVE  LeaseSeen(w, j)'
<1>1. Locker(j)' \subseteq {w}
  BY DEF LeaseSeen, Locker
<1>2. Seen(w, j)' = IF j \in DOMAIN txn[w] THEN txn[w][j] ELSE row'[j]
  BY DEF Seen
<1> QED BY <1>1, <1>2 DEF LeaseSeen, Seen

\* Running leases.
LEMMA LiveStep ==
    ASSUME RefreshInv, [Next]_vars
    PROVE  LiveOK'
<1> SUFFICES ASSUME NEW j \in Jobs \ Recurring, NEW w \in Workers, Live(w, j)'
             PROVE  LeaseSeen(w, j)'
  BY DEF LiveOK, LiveHolders, Live, LeaseSeen
<1>0. TypeOK /\ OneLocker /\ UniqueTokens /\ EnqueueOK
  BY DEF RefreshInv
<1>1. Live(w, j) => LeaseSeen(w, j)
  BY DEF RefreshInv, LiveOK, LiveHolders, Live, LeaseSeen
<1>2. /\ row \in [Jobs -> Row] /\ txn \in [Workers -> Writes]
      /\ held \in [Workers -> [Jobs -> Tokens \cup {NoToken}]]
  BY <1>0 DEF TypeOK
<1>3. ASSUME UNCHANGED <<row, txn, held>>, expired \subseteq expired' PROVE LeaseSeen(w, j)'
  <2>1. Live(w, j)
    BY <1>3 DEF Live
  <2> QED BY <1>1, <1>3, <2>1, SeenKept
<1>4. ASSUME NEW i \in Jobs, NEW r, UNCHANGED <<txn, held, expired>>,
             row' = [row EXCEPT ![i] = r],
             i = j => r.status = row[j].status /\ r.token = row[j].token
      PROVE  LeaseSeen(w, j)'
  <2>1. Live(w, j)
    BY <1>4 DEF Live
  <2>2. row'[j].status = row[j].status /\ row'[j].token = row[j].token
    BY <1>2, <1>4
  <2> QED BY <1>1, <1>4, <2>1, <2>2, SeenKept
<1>5. ASSUME EnqueueFlush PROVE LeaseSeen(w, j)'
  <2>1. PICK i \in Jobs, read \in Row :
            /\ enq # None /\ enq.job = i /\ enq.read = read /\ Locker(i) = {}
            /\ row' = [row EXCEPT ![i] = EnqueuedRow(read, row[i])]
    BY <1>5, FlushFacts
  <2>2. UNCHANGED <<txn, held, expired>>
    BY <1>5 DEF EnqueueFlush, loop
  <2>3. i # j
    <3>1. ASSUME i = j PROVE FALSE
      <4>1. row[j] = Absent
        BY <1>0, <2>1, <3>1 DEF EnqueueOK
      <4>2. LeaseSeen(w, j)
        BY <1>1, <2>2 DEF Live
      <4>3. Seen(w, j) = row[j]
        BY <2>1, <3>1, Unlocked DEF Seen
      <4> QED BY <4>1, <4>2, <4>3 DEF LeaseSeen, Absent
    <3> QED BY <3>1
  <2> QED BY <1>4, <2>1, <2>2, <2>3
<1>6. ASSUME NEW i \in Jobs, BecomeDue(i) PROVE LeaseSeen(w, j)'
  <2>1. PICK r : r = [row[i] EXCEPT !.due = TRUE]
    OBVIOUS
  <2>2. r.status = row[i].status /\ r.token = row[i].token
    BY <1>2, <2>1 DEF Row
  <2>3. UNCHANGED <<txn, held, expired>> /\ row' = [row EXCEPT ![i] = r]
    BY <1>6, <2>1 DEF BecomeDue, loop
  <2> QED BY <1>4, <2>2, <2>3
<1>7. ASSUME NEW v \in Workers, Commits(v) PROVE LeaseSeen(w, j)'
  <2>1. Emptied(v) /\ row' = Committed(v) /\ UNCHANGED <<held, expired>>
    BY <1>7, TxnEmptied DEF Commits
  <2>2. Live(w, j) /\ LeaseSeen(w, j)
    BY <1>1, <2>1 DEF Live
  <2>3. CASE v = w
    <3>1. Locker(j)' \subseteq Locker(j)
      BY <2>1 DEF Locker, Emptied
    <3>2. Seen(w, j)' = Seen(w, j)
      <4>1. j \notin DOMAIN txn'[w]
        BY <2>1, <2>3 DEF Emptied
      <4>2. Seen(w, j)' = row'[j]
        BY <4>1 DEF Seen
      <4> QED BY <2>1, <2>3, <4>2, CommitFacts
    <3> QED BY <2>1, <2>2, <3>1, <3>2 DEF LeaseSeen
  <2>4. CASE v # w
    <3>1. j \notin DOMAIN txn[v]
      BY <2>2, <2>4 DEF LeaseSeen, Locker
    <3>2. row'[j] = row[j]
      BY <2>1, <3>1, CommitFacts
    <3>3. txn'[w] = txn[w] /\ \A u \in Workers : DOMAIN txn'[u] \subseteq DOMAIN txn[u]
      BY <2>1, <2>4 DEF Emptied
    <3> QED BY <2>1, <2>2, <3>2, <3>3, SeenKept
  <2> QED BY <2>3, <2>4
<1>8. ASSUME NEW v \in Workers, Ends(v) PROVE LeaseSeen(w, j)'
  <2>1. Emptied(v) /\ UNCHANGED <<row, expired>>
        /\ held' = [held EXCEPT ![v] = [i \in Jobs |-> NoToken]]
    BY <1>8, TxnEmptied DEF Ends, TaskEnds
  <2>2. v # w
    BY <1>2, <2>1 DEF Live
  <2>3. held'[w] = held[w]
    BY <1>2, <2>1, <2>2
  <2>4. Live(w, j)
    BY <2>1, <2>3 DEF Live
  <2>5. txn'[w] = txn[w] /\ \A u \in Workers : DOMAIN txn'[u] \subseteq DOMAIN txn[u]
    BY <2>1, <2>2 DEF Emptied
  <2> QED BY <1>1, <2>1, <2>3, <2>4, <2>5, SeenKept
<1>9. ASSUME NEW v \in Workers, NEW S \in SUBSET Jobs, Claim(v, S) PROVE LeaseSeen(w, j)'
  <2>1. ClaimEffect(v, S)
    BY <1>9, ClaimFacts
  <2>2. row' = row /\ expired' = expired \ {<<i, Fresh(i)>> : i \in S}
        /\ held' = [held EXCEPT ![v] = [i \in Jobs |-> IF i \in S THEN Fresh(i) ELSE NoToken]]
    BY <1>9 DEF Claim
  <2>3. CASE v = w
    <3>1. held'[w][j] = IF j \in S THEN Fresh(j) ELSE NoToken
      BY <1>2, <2>2, <2>3
    <3>2. j \in S /\ held'[w][j] = Fresh(j)
      BY <3>1 DEF Live
    <3>3. Locker(j) = {} /\ DOMAIN txn'[w] = S /\ txn'[w][j].status = "leased"
          /\ txn'[w][j].token = Fresh(j) /\ \A u \in Workers : u # w => txn'[u] = txn[u]
      BY <2>1, <2>3, <3>2 DEF ClaimEffect
    <3>4. Locker(j)' \subseteq {w}
      BY <3>3 DEF Locker
    <3>5. Seen(w, j)' = txn'[w][j]
      BY <3>2, <3>3 DEF Seen
    <3> QED BY <3>2, <3>3, <3>4, <3>5 DEF LeaseSeen
  <2>4. CASE v # w
    <3>1. held'[w] = held[w]
      BY <1>2, <2>2, <2>4
    <3>2. Live(w, j)
      <4>1. ASSUME <<j, held[w][j]>> \in {<<i, Fresh(i)>> : i \in S} PROVE FALSE
        <5>1. PICK i \in S : <<j, held[w][j]>> = <<i, Fresh(i)>>
          BY <4>1
        <5>2. i = j /\ held[w][j] = Fresh(j)
          BY <5>1
        <5> QED BY <2>1, <5>2 DEF ClaimEffect
      <4> QED BY <2>2, <3>1, <4>1 DEF Live
    <3>3. LeaseSeen(w, j)
      BY <1>1, <3>2
    <3>4. j \notin S
      <4>1. ASSUME j \in S PROVE FALSE
        <5>1. Locker(j) = {} /\ (row[j].status = "leased" => <<j, row[j].token>> \in expired)
          BY <2>1, <4>1 DEF ClaimEffect
        <5>2. Seen(w, j) = row[j]
          BY <5>1, Unlocked DEF Seen
        <5> QED BY <3>2, <3>3, <5>1, <5>2 DEF LeaseSeen, Live
      <4> QED BY <4>1
    <3>5. txn'[w] = txn[w] /\ \A u \in Workers : u # w => (j \in DOMAIN txn'[u] => j \in DOMAIN txn[u])
      BY <2>1, <2>4, <3>4 DEF ClaimEffect
    <3> QED BY <2>2, <3>1, <3>3, <3>5, SeenKept
  <2> QED BY <2>3, <2>4
<1>10. ASSUME NEW v \in Workers, Finish(v) PROVE LeaseSeen(w, j)'
  <2>1. PICK i \in Jobs :
              /\ Locker(i) \subseteq {v}
              /\ held' = [held EXCEPT ![v][i] = NoToken]
              /\ \A u \in Workers : u # v => txn'[u] = txn[u]
              /\ \/ txn' = txn
                 \/ /\ Owns(v, i)
                    /\ DOMAIN txn'[v] = DOMAIN txn[v] \cup {i}
                    /\ \A k \in DOMAIN txn[v] : k # i => txn'[v][k] = txn[v][k]
    BY <1>10, FinishFacts
  <2>2. row' = row /\ expired' = expired
    BY <1>10 DEF Finish
  <2>3. ~(w = v /\ j = i)
    BY <1>2, <2>1 DEF Live
  <2>4. held'[w][j] = held[w][j]
    BY <1>2, <2>1, <2>3
  <2>5. Live(w, j) /\ LeaseSeen(w, j)
    BY <1>1, <2>2, <2>4 DEF Live
  <2>6. ASSUME j = i, Owns(v, i) PROVE FALSE
    <3>1. v # w /\ Locker(j) = {}
      BY <2>1, <2>3, <2>5, <2>6 DEF LeaseSeen
    <3>2. Seen(v, j) = row[j] /\ Seen(w, j) = row[j]
      BY <3>1, Unlocked DEF Seen
    <3>3. held[v][j] = held[w][j]
      BY <2>5, <2>6, <3>2 DEF Owns, LeaseSeen
    <3> QED BY <1>0, <2>5, <3>1, <3>3 DEF UniqueTokens, Live
  <2>7. /\ j \in DOMAIN txn'[w] <=> j \in DOMAIN txn[w]
        /\ j \in DOMAIN txn[w] => txn'[w][j] = txn[w][j]
        /\ \A u \in Workers : u # w => (j \in DOMAIN txn'[u] => j \in DOMAIN txn[u])
    BY <2>1, <2>6
  <2> QED BY <2>2, <2>4, <2>5, <2>7, SeenKept
<1>11. ASSUME \/ \E i \in Jobs : EnqueueRead(i)
              \/ \E v \in Workers : Moves(v)
              \/ \E i \in Jobs, t \in Tokens : Expire(i, t)
              \/ UNCHANGED vars
       PROVE  UNCHANGED <<row, txn, held>> /\ expired \subseteq expired'
  BY <1>11 DEF EnqueueRead, Moves, Expire, vars, queue, loop
<1> QED BY <1>3, <1>5, <1>6, <1>7, <1>8, <1>9, <1>10, <1>11, StepCases DEF Time

\* The types of the row, the transactions and the expired leases.
LEMMA RowTypeStep ==
    ASSUME RefreshInv, [Next]_vars
    PROVE  row' \in [Jobs -> Row] /\ txn' \in [Workers -> Writes]
           /\ expired' \subseteq Jobs \X Tokens
<1>0. TypeOK
  BY DEF RefreshInv
<1>1. row \in [Jobs -> Row] /\ txn \in [Workers -> Writes] /\ expired \subseteq Jobs \X Tokens
  BY <1>0 DEF TypeOK
<1>2. ASSUME NEW w \in Workers, Commits(w)
      PROVE  row' \in [Jobs -> Row] /\ txn' \in [Workers -> Writes] /\ expired' = expired
  <2>1. row' = [j \in Jobs |-> Seen(w, j)] /\ expired' = expired /\ Emptied(w)
    BY <1>2, TxnEmptied DEF Commits, Committed
  <2> QED BY <1>0, <2>1, SeenIsRow DEF Emptied
<1>3. ASSUME NEW w \in Workers, Ends(w)
      PROVE  row' = row /\ txn' \in [Workers -> Writes] /\ expired' = expired
  <2>1. row' = row /\ expired' = expired /\ Emptied(w)
    BY <1>3, TxnEmptied DEF Ends, TaskEnds
  <2> QED BY <2>1 DEF Emptied
<1>4. ASSUME NEW w \in Workers, NEW S \in SUBSET Jobs, Claim(w, S)
      PROVE  row' = row /\ txn' \in [Workers -> Writes] /\ expired' \subseteq expired
  <2>1. ClaimEffect(w, S)
    BY <1>4, ClaimFacts
  <2> QED BY <1>4, <2>1 DEF ClaimEffect, Claim
<1>5. ASSUME NEW w \in Workers, Finish(w)
      PROVE  row' = row /\ txn' \in [Workers -> Writes] /\ expired' = expired
  <2>1. txn' \in [Workers -> Writes]
    BY <1>5, FinishFacts
  <2> QED BY <1>5, <2>1 DEF Finish
<1>6. ASSUME EnqueueFlush PROVE row' \in [Jobs -> Row] /\ txn' = txn /\ expired' = expired
  <2>1. PICK j \in Jobs, read \in Row :
           row' = [row EXCEPT ![j] = EnqueuedRow(read, row[j])] /\ row[j] \in Row
    BY <1>6, FlushFacts
  <2>2. EnqueuedRow(read, row[j]) \in Row
    BY <2>1, EnqueuedRowIs
  <2> QED BY <1>1, <1>6, <2>1, <2>2 DEF EnqueueFlush
<1>7. ASSUME NEW j \in Jobs, BecomeDue(j)
      PROVE  row' \in [Jobs -> Row] /\ txn' = txn /\ expired' = expired
  <2>1. PICK r : r = [row[j] EXCEPT !.due = TRUE]
    OBVIOUS
  <2>2. r \in Row
    BY <1>1, <2>1 DEF Row
  <2> QED BY <1>1, <1>7, <2>1, <2>2 DEF BecomeDue
<1>8. ASSUME NEW j \in Jobs, NEW t \in Tokens, Expire(j, t)
      PROVE  row' = row /\ txn' = txn /\ expired' \subseteq Jobs \X Tokens
  BY <1>1, <1>8 DEF Expire
<1>9. ASSUME \/ \E j \in Jobs : EnqueueRead(j)
             \/ \E w \in Workers : Moves(w)
             \/ UNCHANGED vars
      PROVE  row' = row /\ txn' = txn /\ expired' = expired
  BY <1>9 DEF EnqueueRead, Moves, vars, queue
<1> QED BY <1>1, <1>2, <1>3, <1>4, <1>5, <1>6, <1>7, <1>8, <1>9, StepCases DEF Time

\* The types of what the tasks keep.
LEMMA TaskTypeStep ==
    ASSUME RefreshInv, [Next]_vars
    PROVE  /\ advisory' \in [Workers -> SUBSET Jobs] /\ batch' \in [Workers -> SUBSET Jobs]
           /\ held' \in [Workers -> [Jobs -> Tokens \cup {NoToken}]]
           /\ cur' \in [Workers -> Jobs \cup {None}]
           /\ step' \in [Workers -> {"idle", "next"} \cup Working]
<1> DEFINE Steps == {"idle", "next"} \cup Working
           Typed == /\ advisory' \in [Workers -> SUBSET Jobs] /\ batch' \in [Workers -> SUBSET Jobs]
                    /\ held' \in [Workers -> [Jobs -> Tokens \cup {NoToken}]]
                    /\ cur' \in [Workers -> Jobs \cup {None}]
                    /\ step' \in [Workers -> Steps]
<1> SUFFICES Typed
  OBVIOUS
<1>1. /\ advisory \in [Workers -> SUBSET Jobs] /\ batch \in [Workers -> SUBSET Jobs]
      /\ held \in [Workers -> [Jobs -> Tokens \cup {NoToken}]]
      /\ cur \in [Workers -> Jobs \cup {None}] /\ step \in [Workers -> Steps]
  BY StepNames DEF RefreshInv, TypeOK
<1>2. ASSUME NEW w \in Workers, Moves(w) PROVE Typed
  <2>1. PICK s \in Working :
            step' = [step EXCEPT ![w] = s]
    BY <1>2 DEF Moves
  <2>2. PICK j \in batch[w] : cur' = [cur EXCEPT ![w] = j]
    BY <1>2 DEF Moves
  <2>3. PICK A \in SUBSET Jobs : advisory' = [advisory EXCEPT ![w] = A]
    BY <1>2 DEF Moves
  <2>4. batch' = batch /\ held' = held /\ j \in Jobs
    BY <1>1, <1>2 DEF Moves
  <2> QED BY <1>1, <2>1, <2>2, <2>3, <2>4
<1>3. ASSUME NEW w \in Workers, Commits(w) PROVE Typed
  <2>1. batch' = batch /\ held' = held /\ cur' = cur /\ advisory' = [advisory EXCEPT ![w] = {}]
        /\ \E s \in {"fetch", "observed", "empty", "idle"} : step' = [step EXCEPT ![w] = s]
    BY <1>3 DEF Commits
  <2> QED BY <1>1, <2>1 DEF Working, Completed
<1>4. ASSUME NEW w \in Workers, Ends(w) PROVE Typed
  <2>1. /\ batch' = [batch EXCEPT ![w] = {}] /\ step' = [step EXCEPT ![w] = "idle"]
        /\ held' = [held EXCEPT ![w] = [j \in Jobs |-> NoToken]]
        /\ cur' = [cur EXCEPT ![w] = None] /\ advisory' = [advisory EXCEPT ![w] = {}]
    BY <1>4 DEF Ends, TaskEnds
  <2> QED BY <1>1, <2>1
<1>5. ASSUME NEW w \in Workers, NEW S \in SUBSET Jobs, Claim(w, S) PROVE Typed
  <2>1. /\ batch' = [batch EXCEPT ![w] = S] /\ step' = [step EXCEPT ![w] = "next"]
        /\ held' = [held EXCEPT ![w] = [j \in Jobs |-> IF j \in S THEN Fresh(j) ELSE NoToken]]
        /\ cur' = cur /\ advisory' = advisory
    BY <1>5 DEF Claim
  <2>2. \A j \in S : Fresh(j) \in Tokens
    <3>1. ClaimEffect(w, S)
      BY <1>5, ClaimFacts
    <3> QED BY <3>1 DEF ClaimEffect
  <2>3. [j \in Jobs |-> IF j \in S THEN Fresh(j) ELSE NoToken] \in [Jobs -> Tokens \cup {NoToken}]
    BY <2>2
  <2> QED BY <1>1, <2>1, <2>3
<1>6. ASSUME NEW w \in Workers, Finish(w) PROVE Typed
  <2>1. PICK j \in Jobs : /\ held' = [held EXCEPT ![w][j] = NoToken]
                          /\ batch' = [batch EXCEPT ![w] = batch[w] \ {j}]
    BY <1>6, FinishFacts
  <2>2. /\ cur' = [cur EXCEPT ![w] = None] /\ step' = [step EXCEPT ![w] = "next"]
        /\ advisory' = advisory
    BY <1>6 DEF Finish
  <2> QED BY <1>1, <2>1, <2>2
<1>7. ASSUME \/ \E j \in Jobs : EnqueueRead(j)
             \/ EnqueueFlush \/ Time \/ UNCHANGED vars
      PROVE  UNCHANGED <<advisory, batch, held, cur, step>>
  BY <1>7 DEF EnqueueRead, EnqueueFlush, Time, BecomeDue, Expire, vars, loop
<1> QED BY <1>1, <1>2, <1>3, <1>4, <1>5, <1>6, <1>7, StepCases

\* The types of the bars, the producer's call and the counters.
LEMMA CounterTypeStep ==
    ASSUME RefreshInv, [Next]_vars
    PROVE  /\ bars' \subseteq Jobs
           /\ enq' = None \/ enq' \in [job : Jobs, read : Row]
           /\ enqueues' \in 0 .. MaxEnqueues /\ faults' \in 0 .. MaxFaults
<1> DEFINE Typed == /\ bars' \subseteq Jobs
                    /\ enq' = None \/ enq' \in [job : Jobs, read : Row]
                    /\ enqueues' \in 0 .. MaxEnqueues /\ faults' \in 0 .. MaxFaults
<1> SUFFICES Typed
  OBVIOUS
<1>0. TypeOK
  BY DEF RefreshInv
<1>1. /\ bars \subseteq Jobs /\ row \in [Jobs -> Row]
      /\ enq = None \/ enq \in [job : Jobs, read : Row]
      /\ enqueues \in 0 .. MaxEnqueues /\ faults \in 0 .. MaxFaults
  BY <1>0 DEF TypeOK
<1>2. ASSUME NEW j \in Jobs, EnqueueRead(j) PROVE Typed
  <2>1. enq' = [job |-> j, read |-> row[j]] /\ enqueues' \in 0 .. MaxEnqueues
        /\ bars' = bars /\ faults' = faults
    BY <1>1, <1>2, RefreshAssumption DEF EnqueueRead
  <2>2. enq' \in [job : Jobs, read : Row]
    BY <1>1, <2>1
  <2> QED BY <1>1, <2>1, <2>2
<1>3. ASSUME EnqueueFlush PROVE Typed
  BY <1>1, <1>3 DEF EnqueueFlush
<1>4. ASSUME NEW w \in Workers, Moves(w) \/ Ends(w) \/ Finish(w) PROVE Typed
  <2>1. bars' = bars /\ enq' = enq /\ enqueues' = enqueues /\ faults' \in 0 .. MaxFaults
    BY <1>1, <1>4 DEF Moves, Ends, TaskEnds, Finish
  <2> QED BY <1>1, <2>1
<1>5. ASSUME NEW w \in Workers, Commits(w) PROVE Typed
  <2>1. enq' = enq /\ enqueues' = enqueues /\ faults' = faults
        /\ bars' \subseteq Jobs
    BY <1>1, <1>5, TaskFacts DEF Commits, Working
  <2> QED BY <1>1, <2>1
<1>6. ASSUME NEW w \in Workers, NEW S \in SUBSET Jobs, Claim(w, S) PROVE Typed
  BY <1>1, <1>6 DEF Claim
<1>7. ASSUME NEW j \in Jobs, BecomeDue(j) PROVE Typed
  BY <1>1, <1>7 DEF BecomeDue
<1>8. ASSUME NEW j \in Jobs, NEW t \in Tokens, Expire(j, t) PROVE Typed
  <2>1. faults' \in 0 .. MaxFaults
    BY <1>1, <1>8, RefreshAssumption DEF Expire
  <2> QED BY <1>1, <1>8, <2>1 DEF Expire
<1>9. ASSUME UNCHANGED vars PROVE Typed
  BY <1>1, <1>9 DEF vars
<1> QED BY <1>2, <1>3, <1>4, <1>5, <1>6, <1>7, <1>8, <1>9, StepCases DEF Time

\* Every step keeps the invariant.
LEMMA RefreshStep == RefreshInv /\ [Next]_vars => RefreshInv'
<1> SUFFICES ASSUME RefreshInv, [Next]_vars PROVE RefreshInv'
  OBVIOUS
<1>1. OneLocker' /\ LockedExists' /\ LeasedHasToken'
  BY LocksStep
<1>2. TypeOK'
  <2>1. \A j \in Jobs : (Cardinality(Locker(j)) <= 1)'
    <3>1. ASSUME NEW j \in Jobs PROVE (Cardinality(Locker(j)) <= 1)'
      <4>1. CASE Locker(j)' = {}
        BY <4>1, FS_EmptySet
      <4>2. CASE Locker(j)' # {}
        <5>1. PICK w \in Workers : w \in Locker(j)'
          BY <4>2 DEF Locker
        <5>2. Locker(j)' = {w}
          BY <1>1, <5>1 DEF Locker, OneLocker
        <5> QED BY <5>2, FS_Singleton
      <4> QED BY <4>1, <4>2
    <3> QED BY <3>1
  <2>2. \A w \in Workers, j \in Jobs :
            (Seen(w, j).status = "leased" => Seen(w, j).token # NoToken)'
    BY <1>1 DEF Seen, LeasedHasToken
  <2> QED BY <2>1, <2>2, RowTypeStep, TaskTypeStep, CounterTypeStep, StepNames DEF TypeOK
<1> QED BY <1>1, <1>2, BatchStep, EnqueueStep, BarsStep, LiveStep DEF RefreshInv

----------------------------------------------------------------------------
(* The theorems.                                                           *)

\* RefreshInv holds in every reachable state.
THEOREM RefreshInvariant == Spec => []RefreshInv
BY RefreshInit, RefreshStep, PTL DEF Spec

\* market_refresh_queue.py: types, one writer per row, and a token in every
\* lease.
THEOREM RefreshType == Spec => []TypeOK
BY RefreshInvariant, PTL DEF RefreshInv

\* process_refresh_jobs and _fetch_ohlcv_impl: a job committed as completed
\* with observed bars has bars of its range, whatever saves and tasks failed.
THEOREM RefreshObserved == Spec => []ObservedHasBars
<1>1. RefreshInv => ObservedHasBars
  BY DEF RefreshInv, BarsOK
<1> QED BY <1>1, RefreshInvariant, PTL

\* claim_refresh_jobs: no two tasks work on a key, enqueued once, under
\* leases that are both running.
THEOREM RefreshNoDuplicate == Spec => []NoDuplicateWork
<1>1. RefreshInv => NoDuplicateWork
  <2> SUFFICES ASSUME RefreshInv, NEW j \in Jobs \ Recurring
               PROVE  Cardinality(LiveHolders(j)) <= 1
    BY DEF NoDuplicateWork
  <2>1. ASSUME NEW v \in LiveHolders(j), NEW w \in LiveHolders(j), v # w PROVE FALSE
    <3>1. v \in Workers /\ w \in Workers /\ held[v][j] # NoToken
      BY DEF LiveHolders
    <3>2. Locker(j) = {} /\ Seen(v, j).token = held[v][j] /\ Seen(w, j).token = held[w][j]
      BY <2>1 DEF RefreshInv, LiveOK
    <3>3. Seen(v, j) = row[j] /\ Seen(w, j) = row[j]
      BY <3>1, <3>2, Unlocked DEF Seen
    <3> QED BY <2>1, <3>1, <3>2, <3>3 DEF RefreshInv, UniqueTokens
  <2>2. CASE LiveHolders(j) = {}
    BY <2>2, FS_EmptySet
  <2>3. CASE LiveHolders(j) # {}
    <3>1. PICK w : w \in LiveHolders(j)
      BY <2>3
    <3>2. LiveHolders(j) = {w}
      BY <2>1, <3>1
    <3> QED BY <3>2, FS_Singleton
  <2> QED BY <2>2, <2>3
<1> QED BY <1>1, RefreshInvariant, PTL

\* complete_refresh_job: while the lease of a committed claim runs and its
\* worker is on the job, nobody else ends that claim.
THEOREM RefreshOwnerKept == Spec => OwnerKept
<1> DEFINE Kept == \A w \in Workers, j \in Jobs \ Recurring :
                      (/\ w \in LiveHolders(j)
                       /\ row[j].token = held[w][j]
                       /\ row'[j].token # held[w][j])
                      => step'[w] # step[w] \/ held'[w][j] # held[w][j]
<1>1. RefreshInv /\ [Next]_vars => Kept
  <2> SUFFICES ASSUME RefreshInv, [Next]_vars, NEW w \in Workers, NEW j \in Jobs \ Recurring,
                      w \in LiveHolders(j), row[j].token = held[w][j],
                      row'[j].token # held[w][j]
               PROVE  FALSE
    OBVIOUS
  <2>1. Live(w, j) /\ LeaseSeen(w, j)
    BY DEF RefreshInv, LiveOK, LiveHolders, Live, LeaseSeen
  <2>2. row \in [Jobs -> Row] /\ step \in [Workers -> {"idle", "next"} \cup Working]
    BY StepNames DEF RefreshInv, TypeOK
  <2>3. row' # row
    OBVIOUS
  <2>4. ASSUME EnqueueFlush PROVE FALSE
    <3>1. PICK i \in Jobs, read \in Row :
              /\ enq # None /\ enq.job = i /\ enq.read = read
              /\ row' = [row EXCEPT ![i] = EnqueuedRow(read, row[i])]
      BY <2>4, FlushFacts
    <3>2. i = j
      BY <2>2, <3>1
    <3>3. row[j] = Absent
      BY <3>1, <3>2 DEF RefreshInv, EnqueueOK
    <3> QED BY <2>1, <3>3 DEF Absent, Live
  <2>5. ASSUME NEW v \in Workers, Commits(v) PROVE v = w
    <3>1. row' = Committed(v)
      BY <2>5 DEF Commits
    <3>2. j \in DOMAIN txn[v]
      BY <3>1, CommitFacts
    <3> QED BY <2>1, <3>2 DEF LeaseSeen, Locker
  <2>6. ASSUME Commits(w) PROVE FALSE
    <3>1. row' = Committed(w)
      BY <2>6 DEF Commits
    <3>2. row'[j] = Seen(w, j)
      BY <3>1, CommitFacts
    <3> QED BY <2>1, <3>2 DEF LeaseSeen
  <2>7. ASSUME NEW i \in Jobs, BecomeDue(i) PROVE FALSE
    <3>1. PICK r : r = [row[i] EXCEPT !.due = TRUE]
      OBVIOUS
    <3>2. r.token = row[i].token /\ row' = [row EXCEPT ![i] = r]
      BY <2>2, <2>7, <3>1 DEF Row, BecomeDue
    <3> QED BY <2>2, <3>2
  <2>8. ASSUME \/ \E i \in Jobs : EnqueueRead(i)
               \/ \E v \in Workers : Moves(v) \/ Ends(v) \/ Finish(v)
                                     \/ \E S \in SUBSET Jobs : Claim(v, S)
               \/ \E i \in Jobs, t \in Tokens : Expire(i, t)
               \/ UNCHANGED vars
        PROVE  row' = row
    BY <2>8 DEF EnqueueRead, Moves, Ends, TaskEnds, Finish, Claim, Expire, vars, queue
  <2> QED BY <2>3, <2>4, <2>5, <2>6, <2>7, <2>8, StepCases DEF Time
<1>2. RefreshInv /\ [Next]_vars => [Kept]_vars
  <2> HIDE DEF Kept
  <2> QED BY <1>1
<1> QED BY <1>2, RefreshInvariant, PTL DEF Spec, OwnerKept
=============================================================================
