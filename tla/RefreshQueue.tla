---------------------------- MODULE RefreshQueue ----------------------------
(***************************************************************************)
(* The market refresh queue (services/market_refresh_queue.py), the ARQ    *)
(* task that drains it (tasks/data_tasks.py, process_refresh_jobs) and the *)
(* part of services/market_data.py that decides when the task's database   *)
(* transaction commits or rolls back in the middle of a batch.             *)
(*                                                                         *)
(* All of it runs on PostgreSQL under READ COMMITTED.  row is what is      *)
(* committed; txn[w] is what worker w has written and not committed, and   *)
(* its domain is the set of row locks w holds.  advisory[w] are the        *)
(* transaction-scoped advisory locks of the ranges w has fetched since its *)
(* last commit.  A producer's transaction is taken one key at a time.      *)
(*                                                                         *)
(* Time is abstracted to what the code compares: whether a row's           *)
(* next_attempt_at has passed (due) and whether a lease's leased_until has *)
(* (expired).  priority, which only orders a batch, is left out: a claim   *)
(* takes any Limit claimable rows and works on them in any order.  Lease   *)
(* tokens are compared within one row only, so a token that no row and no  *)
(* worker remembers is as good as a new one.  A completed row is named by  *)
(* the data_status of its result_summary, "observed" or "empty".           *)
(***************************************************************************)
EXTENDS Integers, FiniteSets

CONSTANTS
    Jobs,        \* request keys
    Recurring,   \* the keys a producer enqueues again (radar, evaluator)
    Locked,      \* the jobs with a start_at, whose refresh lock key is fixed
    ZeroWidth,   \* the jobs whose range may have no slice of positive width
    Synthetic,   \* the jobs of synthetic instruments, computed from others
    Workers,     \* concurrent runs of process_refresh_jobs
    None,
    Limit,       \* the batch limit of a claim
    MaxEnqueues, \* bound on the enqueue calls
    MaxFaults    \* bound on failed fetches, lost saves, deaths, late leases

ASSUME RefreshAssumption ==
    /\ Recurring \subseteq Jobs
    /\ Locked \subseteq Jobs /\ ZeroWidth \subseteq Jobs
    /\ Synthetic \subseteq Jobs \ Locked
    /\ None \notin Jobs
    /\ IsFiniteSet(Workers)
    /\ Limit \in Nat \ {0}
    /\ MaxEnqueues \in Nat
    /\ MaxFaults \in Nat

VARIABLES
    row,       \* market_refresh_job as committed
    txn,       \* uncommitted writes and row locks of every worker
    advisory,  \* advisory refresh locks of every worker
    batch,     \* the claimed jobs a worker has not finished
    held,      \* the lease_token of each of a worker's job objects
    cur,       \* the job a worker is working on
    step,      \* where in the loop body it is
    expired,   \* leases whose leased_until has passed
    bars,      \* the jobs with bars of the selected series in their range
    enq,       \* the producer's enqueue call: the key and the row it read
    enqueues,  \* enqueue calls so far
    faults     \* faults so far

queue == <<row, txn, expired>>
loop == <<advisory, batch, held, cur, step>>
vars == <<row, txn, advisory, batch, held, cur, step, expired, bars, enq,
          enqueues, faults>>

-----------------------------------------------------------------------------
(* Rows, transactions and locks                                            *)

NoToken == 0
Tokens == 1 .. Cardinality(Workers) + 1

Absent == [status |-> "absent", due |-> FALSE, token |-> NoToken]

Completed == {"observed", "empty"}

Row == [status : {"absent", "queued", "leased", "retry", "deferred"}
                   \cup Completed,
        due : BOOLEAN,
        token : Tokens \cup {NoToken}]

Empty == <<>>

\* The rows a transaction can have written.
Writes == UNION {[D -> Row] : D \in SUBSET Jobs}

Locker(j) == {w \in Workers : j \in DOMAIN txn[w]}

\* What a statement of w sees of row j once it has the row lock.
Seen(w, j) == IF j \in DOMAIN txn[w] THEN txn[w][j] ELSE row[j]

Write(w, j, r) ==
    [k \in DOMAIN txn[w] \cup {j} |-> IF k = j THEN r ELSE txn[w][k]]

Committed(w) == [j \in Jobs |-> Seen(w, j)]

\* lease_token = uuid4().hex
Fresh(j) ==
    CHOOSE t \in Tokens : /\ t # row[j].token
                          /\ \A w \in Workers : held[w][j] # t

Init ==
    /\ row = [j \in Jobs |-> Absent]
    /\ txn = [w \in Workers |-> Empty]
    /\ advisory = [w \in Workers |-> {}]
    /\ batch = [w \in Workers |-> {}]
    /\ held = [w \in Workers |-> [j \in Jobs |-> NoToken]]
    /\ cur = [w \in Workers |-> None]
    /\ step = [w \in Workers |-> "idle"]
    /\ expired = {}
    /\ bars \in SUBSET Jobs
    /\ enq = None
    /\ enqueues = 0
    /\ faults = 0

-----------------------------------------------------------------------------
(* enqueue_refresh_job, in the transaction of its caller                   *)

\* The advisory lock of the key and the SELECT.  The lock only keeps other
\* producers out, so nothing stops a claim between this read and the flush.
EnqueueRead(j) ==
    /\ enq = None
    /\ enqueues < MaxEnqueues
    /\ row[j] = Absent \/ j \in Recurring
    /\ enq' = [job |-> j, read |-> row[j]]
    /\ enqueues' = enqueues + 1
    /\ UNCHANGED <<queue, loop, bars, faults>>

\* The columns the flush writes: those the call changed in the object it read.
EnqueuedRow(read, current) ==
    IF read = Absent
    THEN [status |-> "queued", due |-> TRUE, token |-> NoToken]
    ELSE [current EXCEPT
            !.status = IF read.status = "deferred" THEN "queued" ELSE @,
            !.due = @ \/ ~read.due]

\* The flush waits for the row lock; then the caller (a daily schedule, a
\* preflight, a radar scan) commits.
EnqueueFlush ==
    LET j == enq.job IN
    /\ enq # None
    /\ Locker(j) = {}
    /\ row' = [row EXCEPT ![j] = EnqueuedRow(enq.read, @)]
    /\ enq' = None
    /\ UNCHANGED <<txn, expired, loop, bars, enqueues, faults>>

-----------------------------------------------------------------------------
(* claim_refresh_jobs: FOR UPDATE SKIP LOCKED, flushed and not committed   *)

Free == {"queued", "retry", "deferred"}

\* Mutant: FOR UPDATE without SKIP LOCKED and without waiting.
ClaimableLocked ==
    {j \in Jobs :
        /\ row[j].due
        /\ \/ row[j].status \in Free
           \/ row[j].status = "leased" /\ <<j, row[j].token>> \in expired}

\* Mutant: leased_until is not looked at.
ClaimableLeased ==
    {j \in Jobs : /\ Locker(j) = {}
                  /\ row[j].due
                  /\ row[j].status \in Free \cup {"leased"}}

\* Mutant: expired leases are not picked up again.
ClaimableUnclaimed ==
    {j \in Jobs : Locker(j) = {} /\ row[j].due /\ row[j].status \in Free}

Claimable ==
    {j \in Jobs :
        /\ Locker(j) = {}
        /\ row[j].due
        /\ \/ row[j].status \in Free
           \/ row[j].status = "leased" /\ <<j, row[j].token>> \in expired}

Claim(w, S) ==
    /\ step[w] = "idle"
    /\ S # {}
    /\ S \subseteq Claimable
    /\ Cardinality(S) = Limit \/ S = Claimable
    /\ txn' = [txn EXCEPT ![w] =
                 [j \in S |-> [row[j] EXCEPT !.status = "leased",
                                             !.token = Fresh(j)]]]
    /\ held' = [held EXCEPT ![w] =
                  [j \in Jobs |-> IF j \in S THEN Fresh(j) ELSE NoToken]]
    /\ expired' = expired \ {<<j, Fresh(j)>> : j \in S}
    /\ batch' = [batch EXCEPT ![w] = S]
    /\ step' = [step EXCEPT ![w] = "next"]
    /\ UNCHANGED <<row, advisory, cur, bars, enq, enqueues, faults>>

-----------------------------------------------------------------------------
(* process_refresh_jobs: one iteration of its loop, and its ends           *)

NextJob(w, j) ==
    /\ step[w] = "next"
    /\ j \in batch[w]
    /\ cur' = [cur EXCEPT ![w] = j]
    /\ step' = [step EXCEPT ![w] = "lock"]
    /\ UNCHANGED <<queue, advisory, batch, held, bars, enq, enqueues, faults>>

\* _acquire_database_refresh_lock of fetch_ohlcv.  A job without a start_at
\* takes the time of the call as the end of its week, so its lock key is new
\* in every call; a synthetic instrument takes no lock.
RefreshLock(w) ==
    /\ step[w] = "lock"
    /\ \A v \in Workers \ {w} : cur[w] \notin advisory[v]
    /\ advisory' = [advisory EXCEPT ![w] = @ \cup ({cur[w]} \cap Locked)]
    /\ step' = [step EXCEPT ![w] = "fetch"]
    /\ UNCHANGED <<queue, batch, held, cur, bars, enq, enqueues, faults>>

\* Mutant: the bars fetched are reported without querying for them again.
DataStatusUnqueried(stored, j) == "observed"

\* data_status: whether fetch_ohlcv returns bars of the job.
DataStatus(stored, j) == IF j \in stored THEN "observed" ELSE "empty"

\* The range is covered, the provider cannot fill its gaps but some bars are
\* stored, or all slices have zero width and are skipped; the range of a job
\* without an end_at grows, so a later fetch of it may have slices.
FetchFromStore(w) ==
    /\ step[w] = "fetch"
    /\ cur[w] \in (bars \cup ZeroWidth) \ Synthetic
    /\ step' = [step EXCEPT ![w] = DataStatus(bars, cur[w])]
    /\ UNCHANGED <<queue, advisory, batch, held, cur, bars, enq, enqueues,
                   faults>>

\* db.commit() in the middle of a batch: it commits the claims and every job
\* finished so far, and lets all locks go.
Commit(w) ==
    /\ row' = Committed(w)
    /\ txn' = [txn EXCEPT ![w] = Empty]
    /\ advisory' = [advisory EXCEPT ![w] = {}]

\* New bars are inserted and committed.  The query that follows returns the
\* bars of the selected series within the range, to which they may not belong.
Save(w) ==
    /\ Commit(w)
    /\ bars' \in {bars, bars \cup {cur[w]}}
    /\ step' = [step EXCEPT ![w] = DataStatus(bars', cur[w])]

\* The coverage of the range has gaps, or its last bars are old.
FetchAndSave(w) ==
    /\ step[w] = "fetch"
    /\ cur[w] \notin Synthetic
    /\ Save(w)
    /\ UNCHANGED <<expired, batch, held, cur, enq, enqueues, faults>>

(* recompute_synthetic_ohlcv: bars of a constituent that has none are      *)
(* fetched and committed; then the bars common to all constituents are     *)
(* computed and committed, or there are none and nothing is saved.         *)

BootstrapConstituent(w) ==
    /\ step[w] = "fetch"
    /\ cur[w] \in Synthetic
    /\ Commit(w)
    /\ UNCHANGED <<expired, batch, held, cur, step, bars, enq, enqueues, faults>>

RecomputeAndSave(w) ==
    /\ step[w] = "fetch"
    /\ cur[w] \in Synthetic
    /\ Save(w)
    /\ UNCHANGED <<expired, batch, held, cur, enq, enqueues, faults>>

\* Without common bars the answer is empty whatever is stored.
RecomputeNothing(w) ==
    /\ step[w] = "fetch"
    /\ cur[w] \in Synthetic
    /\ \E outcome \in {"empty", DataStatus(bars, cur[w])} :
          step' = [step EXCEPT ![w] = outcome]
    /\ UNCHANGED <<queue, advisory, batch, held, cur, bars, enq, enqueues,
                   faults>>

\* The job is malformed, its instrument is gone, or the provider raised;
\* only a quota error carries retry_at.
FetchRaises(w, outcome) ==
    /\ faults < MaxFaults
    /\ \/ step[w] = "lock" /\ outcome = "retry"
       \/ step[w] = "fetch"
    /\ step' = [step EXCEPT ![w] = outcome]
    /\ faults' = faults + 1
    /\ UNCHANGED <<queue, advisory, batch, held, cur, bars, enq, enqueues>>

\* The session of w closes without a commit.
TaskEnds(w) ==
    /\ txn' = [txn EXCEPT ![w] = Empty]
    /\ advisory' = [advisory EXCEPT ![w] = {}]
    /\ batch' = [batch EXCEPT ![w] = {}]
    /\ held' = [held EXCEPT ![w] = [j \in Jobs |-> NoToken]]
    /\ cur' = [cur EXCEPT ![w] = None]
    /\ step' = [step EXCEPT ![w] = "idle"]
    /\ UNCHANGED <<row, expired, bars, enq, enqueues>>

\* Mutant: after the rollback the task goes on with the bars it fetched
\* instead of those it finds in the database.
SaveFailsUnnoticed(w) ==
    /\ faults < MaxFaults
    /\ step[w] = "fetch"
    /\ faults' = faults + 1
    /\ txn' = [txn EXCEPT ![w] = Empty]
    /\ advisory' = [advisory EXCEPT ![w] = {}]
    /\ step' = [step EXCEPT ![w] = "observed"]
    /\ UNCHANGED <<row, expired, batch, held, cur, bars, enq, enqueues>>

\* db.rollback() after a failed insert also expires the session's objects:
\* the next attribute read of the instrument or of the job raises, in the
\* error handler too, and the task fails.
SaveFails(w) ==
    /\ faults < MaxFaults
    /\ step[w] = "fetch"
    /\ faults' = faults + 1
    /\ TaskEnds(w)

\* A process dies, or the ARQ job_timeout cancels the task.
TaskDies(w) ==
    /\ faults < MaxFaults
    /\ step[w] # "idle"
    /\ faults' = faults + 1
    /\ TaskEnds(w)

\* Mutant: the token is not compared.
OwnsByStatus(w, j) ==
    /\ Seen(w, j).status = "leased"
    /\ <<j, Seen(w, j).token>> \notin expired

\* The WHERE clause of the updates of complete_refresh_job and
\* retry_refresh_job.
Owns(w, j) ==
    /\ Seen(w, j).status = "leased"
    /\ Seen(w, j).token = held[w][j]
    /\ <<j, Seen(w, j).token>> \notin expired

FinishedRow(outcome, r) ==
    [status |-> outcome,
     due |-> r.due /\ outcome \in Completed,
     token |-> NoToken]

\* complete_refresh_job or retry_refresh_job.  When the lease is lost the job
\* is left to its owner and the loop goes on.
Finish(w) ==
    LET j == cur[w] IN
    /\ step[w] \in Completed \cup {"retry", "deferred"}
    /\ Locker(j) \subseteq {w}
    /\ txn' = IF Owns(w, j)
              THEN [txn EXCEPT ![w] =
                        Write(w, j, FinishedRow(step[w], Seen(w, j)))]
              ELSE txn
    /\ batch' = [batch EXCEPT ![w] = @ \ {j}]
    /\ held' = [held EXCEPT ![w][j] = NoToken]
    /\ cur' = [cur EXCEPT ![w] = None]
    /\ step' = [step EXCEPT ![w] = "next"]
    /\ UNCHANGED <<row, expired, advisory, bars, enq, enqueues, faults>>

\* The commit after the loop.
CommitBatch(w) ==
    /\ step[w] = "next"
    /\ batch[w] = {}
    /\ Commit(w)
    /\ step' = [step EXCEPT ![w] = "idle"]
    /\ UNCHANGED <<expired, batch, held, cur, bars, enq, enqueues, faults>>

-----------------------------------------------------------------------------
(* PostgreSQL's deadlock detector, and time                                *)

WaitsFor(w) ==
    CASE step[w] = "lock" -> {v \in Workers \ {w} : cur[w] \in advisory[v]}
      [] step[w] \in Completed \cup {"retry", "deferred"} -> Locker(cur[w]) \ {w}
      [] OTHER -> {}

Deadlocked(S) ==
    \A v \in S : /\ \E u \in S : u \in WaitsFor(v)
                 /\ \E u \in S : v \in WaitsFor(u)

\* One worker of a cycle gets an error; its error handler then meets an
\* aborted transaction and the task fails.
DeadlockVictim(w) ==
    /\ \E S \in SUBSET Workers : w \in S /\ Deadlocked(S)
    /\ TaskEnds(w)
    /\ UNCHANGED faults

BecomeDue(j) ==
    /\ row[j] # Absent
    /\ ~row[j].due
    /\ Locker(j) = {}
    /\ row' = [row EXCEPT ![j].due = TRUE]
    /\ UNCHANGED <<txn, expired, loop, bars, enq, enqueues, faults>>

\* leased_until passes; while a worker still remembers the lease that is one
\* of the bounded faults.
Expire(j, t) ==
    LET holders == {w \in Workers : held[w][j] = t} IN
    /\ <<j, t>> \notin expired
    /\ \/ /\ holders = {}
          /\ row[j].token = t
          /\ UNCHANGED faults
       \/ /\ holders # {}
          /\ faults < MaxFaults
          /\ faults' = faults + 1
    /\ expired' = expired \cup {<<j, t>>}
    /\ UNCHANGED <<row, txn, loop, bars, enq, enqueues>>

-----------------------------------------------------------------------------

Process(w) ==
    \/ \E S \in SUBSET Jobs : Claim(w, S)
    \/ \E j \in Jobs : NextJob(w, j)
    \/ RefreshLock(w)
    \/ FetchFromStore(w)
    \/ FetchAndSave(w)
    \/ BootstrapConstituent(w)
    \/ RecomputeAndSave(w)
    \/ RecomputeNothing(w)
    \/ Finish(w)
    \/ CommitBatch(w)

Fault(w) ==
    \/ \E outcome \in {"retry", "deferred"} : FetchRaises(w, outcome)
    \/ SaveFails(w)
    \/ TaskDies(w)

Time ==
    \/ \E j \in Jobs : BecomeDue(j)
    \/ \E j \in Jobs, t \in Tokens : Expire(j, t)

Next ==
    \/ \E j \in Jobs : EnqueueRead(j)
    \/ EnqueueFlush
    \/ \E w \in Workers : Process(w) \/ Fault(w) \/ DeadlockVictim(w)
    \/ Time

\* ARQ runs the task every fifteen minutes and a started task goes on; a
\* producer's transaction ends; PostgreSQL grants a row lock to the waiting
\* update before a later task can claim the row, and breaks deadlocks; time
\* passes, so a lease that no worker remembers runs out.  No fault is fair.
Fairness ==
    /\ WF_vars(EnqueueFlush)
    /\ \A w \in Workers : /\ WF_vars(Process(w))
                          /\ SF_vars(Finish(w))
                          /\ WF_vars(DeadlockVictim(w))
    /\ \A j \in Jobs : WF_vars(BecomeDue(j))
    /\ \A j \in Jobs, t \in Tokens :
          WF_vars(Expire(j, t) /\ UNCHANGED faults)

Spec == Init /\ [][Next]_vars /\ Fairness

-----------------------------------------------------------------------------
(* Properties                                                              *)

\* Every variable has its type, a row has at most one writer, and a leased
\* row has a token (without one it could be neither finished nor retried).
TypeOK ==
    /\ row \in [Jobs -> Row]
    /\ txn \in [Workers -> Writes]
    /\ \A j \in Jobs : Cardinality(Locker(j)) <= 1
    /\ \A w \in Workers, j \in Jobs :
          Seen(w, j).status = "leased" => Seen(w, j).token # NoToken
    /\ advisory \in [Workers -> SUBSET Jobs]
    /\ batch \in [Workers -> SUBSET Jobs]
    /\ held \in [Workers -> [Jobs -> Tokens \cup {NoToken}]]
    /\ cur \in [Workers -> Jobs \cup {None}]
    /\ step \in [Workers -> {"idle", "next", "lock", "fetch", "retry",
                             "deferred"} \cup Completed]
    /\ expired \subseteq Jobs \X Tokens
    /\ bars \subseteq Jobs
    /\ enq = None \/ enq \in [job : Jobs, read : Row]
    /\ enqueues \in 0 .. MaxEnqueues
    /\ faults \in 0 .. MaxFaults

\* process_refresh_jobs and _fetch_ohlcv_impl, "Re-query after insert so cached
\* reflects actual DB state": a job is committed as completed with observed
\* bars only when bars of its range are stored, although a failed save may
\* roll back the transaction of a batch whose claims are already committed.
ObservedHasBars ==
    \A j \in Jobs : row[j].status = "observed" => j \in bars

LiveHolders(j) ==
    {w \in Workers : /\ held[w][j] # NoToken
                     /\ <<j, held[w][j]>> \notin expired}

\* claim_refresh_jobs: "Claim due jobs with row locks so multiple workers do
\* not duplicate work": two workers never work on one key under leases that
\* are both running.  For the keys that are enqueued once.
NoDuplicateWork ==
    \A j \in Jobs \ Recurring : Cardinality(LiveHolders(j)) <= 1

\* complete_refresh_job, "a worker whose lease expired cannot mutate a later
\* worker's result": as long as the lease of a committed claim runs and its
\* worker is still on the job, nobody else ends that claim.
OwnerKept ==
    [][\A w \in Workers, j \in Jobs \ Recurring :
          (/\ w \in LiveHolders(j)
           /\ row[j].token = held[w][j]
           /\ row'[j].token # held[w][j])
          => step'[w] # step[w] \/ held'[w][j] # held[w][j]]_vars

\* process_refresh_jobs: whatever fails a bounded number of times on the way -
\* the provider, a save, the process, a lease that runs out early, a deadlock
\* between two batches - every job that was enqueued is completed in the end,
\* with or without bars.
EventuallyCompleted ==
    \A j \in Jobs : row[j] # Absent ~> row[j].status \in Completed

=============================================================================
