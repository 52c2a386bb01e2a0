---------------------------- MODULE OutboxDelivery ----------------------------
(***************************************************************************)
(* The transactional outbox and the Redis stream of one topic, with every  *)
(* failure the code handles.  A worker process (worker_entrypoint.py,      *)
(* forward_worker_entrypoint.py) runs two tasks: an outbox relay           *)
(* (outbox_application.py, outbox_relay.py) that copies pending outbox     *)
(* rows to the stream, and a consumer of the group (worker_consumer.py,    *)
(* redis_transport.py).  All processes share the outbox and the stream.    *)
(*                                                                         *)
(* Messages are numbered in the order of OutboxState.pending_messages,     *)
(* (available_at, message_id).  A message is immutable and its message_id  *)
(* is its idempotency key, so the enqueue script's CONFLICT cannot occur.  *)
(* Relays and consumers work through a batch in ascending order, so a      *)
(* batch is the set of what is left of it.                                 *)
(***************************************************************************)
EXTENDS Naturals, Sequences, FiniteSets, FiniteSetsExt, Functions

CONSTANTS
    Messages,      \* number of messages that will be staged
    Process,       \* worker processes
    Batch,         \* Process -> config.batch_size, of its relay and its consumer
    BlockForever,  \* whether block_ms is 0, its default
    MaxFaults,     \* bound on lost calls, lost replies, crashes and dead relays
    MaxRetries     \* bound on the RETRY or REJECT answers of the handler

ASSUME DeliveryAssumption ==
    /\ Messages \in Nat /\ MaxFaults \in Nat /\ MaxRetries \in Nat
    /\ Batch \in [Process -> Nat \ {0}]
    /\ BlockForever \in BOOLEAN

Message == 1..Messages

VARIABLES
    outbox,     \* Message -> "none", "pending" or "published": its outbox row
    relays,     \* Process -> [pc, view, todo]: its relay task
    markers,    \* keys of the Redis idempotency hash
    stream,     \* the Redis stream, a sequence of messages
    cursor,     \* last-delivered position of the consumer group
    pel,        \* positions in the group's pending entries list
    idle,       \* pending positions idle for reclaim_idle_ms
    consumers,  \* Process -> [pc, batch]: its consumer task
    completed,  \* positions for which some handler answered COMPLETE
    faults, retries

relayVars == <<outbox, relays, markers, stream>>
groupVars == <<cursor, pel, idle, consumers, completed>>
vars == <<relayVars, groupVars, faults, retries>>

RowStatus == {"none", "pending", "published"}

RelayAsleep == [pc |-> "sleep", view |-> <<>>, todo |-> {}]
ConsumerAsleep == [pc |-> "sleep", batch |-> {}]

Init ==
    /\ outbox = [m \in Message |-> "none"]
    /\ relays = [p \in Process |-> RelayAsleep]
    /\ markers = {} /\ stream = <<>>
    /\ cursor = 0 /\ pel = {} /\ idle = {}
    /\ consumers = [p \in Process |-> ConsumerAsleep]
    /\ completed = {}
    /\ faults = 0 /\ retries = 0

Fault == faults < MaxFaults /\ faults' = faults + 1

\* The n first members of S, or all of them.
FirstOf(n, S) == {x \in S : Cardinality({y \in S : y < x}) < n}

----------------------------------------------------------------------------
(* The outbox rows and the relay.                                          *)

\* The transaction that appends an event inserts its outbox row with it.
\* Messages become due in their order: available_at is the creation time.
Stage(m) ==
    /\ outbox[m] = "none"
    /\ m > 1 => outbox[m - 1] # "none"
    /\ outbox' = [outbox EXCEPT ![m] = "pending"]
    /\ UNCHANGED <<relays, markers, stream, groupVars, faults, retries>>

Pending == {m \in Message : outbox[m] = "pending"}

\* The relay's next message, or the end of its cycle.
NextOf(r) ==
    LET rest == r.todo \ {Min(r.todo)} IN
    IF rest = {} THEN RelayAsleep ELSE [r EXCEPT !.pc = "send", !.todo = rest]

\* A cycle reads the whole outbox once and takes the first pending messages.
LoadOutbox(p) ==
    /\ relays[p].pc = "sleep"
    /\ Pending # {}
    /\ relays' = [relays EXCEPT ![p] =
           [pc |-> "send", view |-> outbox, todo |-> FirstOf(Batch[p], Pending)]]
    /\ UNCHANGED <<outbox, markers, stream, groupVars, faults, retries>>

\* Mutant: the entry is appended whether or not its key is bound.
AppendAlways(m) ==
    /\ markers' = markers \cup {m}
    /\ stream' = Append(stream, m)

\* _ENQUEUE_SCRIPT: one atomic step of Redis.
EnqueueScript(m) ==
    /\ markers' = markers \cup {m}
    /\ stream' = IF m \in markers THEN stream ELSE Append(stream, m)

\* Mutant: a replayed enqueue is taken for somebody else's publication.
EnqueueReplayIgnored(p) ==
    LET m == Min(relays[p].todo) IN
    /\ relays[p].pc = "send"
    /\ EnqueueScript(m)
    /\ relays' = [relays EXCEPT ![p] = IF m \in markers THEN NextOf(@)
                                      ELSE [@ EXCEPT !.pc = "ack"]]
    /\ UNCHANGED <<outbox, groupVars, faults, retries>>

\* The script answered ENQUEUED or REPLAY_EXISTING.
Enqueue(p) ==
    /\ relays[p].pc = "send"
    /\ EnqueueScript(Min(relays[p].todo))
    /\ relays' = [relays EXCEPT ![p].pc = "ack"]
    /\ UNCHANGED <<outbox, groupVars, faults, retries>>

\* Mutant: a failed enqueue is acknowledged like a successful one.
EnqueueFailsUnnoticed(p) ==
    /\ relays[p].pc = "send"
    /\ Fault
    /\ \/ EnqueueScript(Min(relays[p].todo))
       \/ UNCHANGED <<markers, stream>>
    /\ relays' = [relays EXCEPT ![p].pc = "ack"]
    /\ UNCHANGED <<outbox, groupVars, retries>>

\* The call raised, before or after Redis ran the script, or XADD failed and
\* the script withdrew its marker: REJECT, and the row stays pending.
EnqueueFails(p) ==
    /\ relays[p].pc = "send"
    /\ Fault
    /\ \/ EnqueueScript(Min(relays[p].todo))
       \/ UNCHANGED <<markers, stream>>
    /\ relays' = [relays EXCEPT ![p] = NextOf(@)]
    /\ UNCHANGED <<outbox, groupVars, retries>>

\* acknowledge_outbox: compare the whole outbox with the cycle's view, and
\* mark one row published.  A refusal leaves the view stale, so the rest of
\* the cycle is refused too.
AcknowledgeOutbox(p) ==
    /\ relays[p].pc = "ack"
    /\ IF outbox = relays[p].view
       THEN /\ outbox' = [outbox EXCEPT ![Min(relays[p].todo)] = "published"]
            /\ relays' = [relays EXCEPT ![p] = NextOf([@ EXCEPT !.view = outbox'])]
       ELSE /\ relays' = [relays EXCEPT ![p] = NextOf(@)]
            /\ UNCHANGED outbox
    /\ UNCHANGED <<markers, stream, groupVars, faults, retries>>

\* The database raised out of a cycle: OutboxRelayScheduler.run ends, and
\* nothing starts the task again before its process does.
RelayDies(p) ==
    /\ relays[p].pc # "dead"
    /\ Fault
    /\ relays' = [relays EXCEPT ![p] = [RelayAsleep EXCEPT !.pc = "dead"]]
    /\ \/ /\ relays[p].pc = "ack" /\ outbox = relays[p].view
          /\ outbox' = [outbox EXCEPT ![Min(relays[p].todo)] = "published"]
       \/ UNCHANGED outbox
    /\ UNCHANGED <<markers, stream, groupVars, retries>>

----------------------------------------------------------------------------
(* The consumer group.                                                     *)

\* reclaim_idle_ms passed since the entry was last handed out, whether or not
\* its consumer is still working on it.
BecomeIdle(i) ==
    /\ i \in pel \ idle
    /\ idle' = idle \cup {i}
    /\ UNCHANGED <<relayVars, cursor, pel, consumers, completed, faults, retries>>

Reclaimed(p) == FirstOf(Batch[p], idle)

\* Mutant: the poll skips the entries it should reclaim.
ReclaimNothing(p) ==
    /\ consumers[p].pc = "sleep"
    /\ consumers' = [consumers EXCEPT ![p] = [pc |-> "read", batch |-> {}]]
    /\ UNCHANGED <<relayVars, cursor, pel, idle, completed, faults, retries>>

\* reclaim_pending: XAUTOCLAIM from the start of the list.
Reclaim(p) ==
    /\ consumers[p].pc = "sleep"
    /\ idle' = idle \ Reclaimed(p)
    /\ consumers' = [consumers EXCEPT ![p] =
           [pc |-> IF Cardinality(Reclaimed(p)) < Batch[p] THEN "read" ELSE "handle",
            batch |-> Reclaimed(p)]]
    /\ UNCHANGED <<relayVars, cursor, pel, completed, faults, retries>>

\* The last position of the new entries that fill up the batch.
ReadUpTo(p) ==
    Min({Len(stream), cursor + Batch[p] - Cardinality(consumers[p].batch)})

Fresh(p) == cursor + 1 .. ReadUpTo(p)

\* read_group: XREADGROUP of new entries for what is left of the batch.  With
\* block_ms = 0 the call returns only when there is one.
Read(p) ==
    /\ consumers[p].pc = "read"
    /\ BlockForever => Fresh(p) # {}
    /\ cursor' = ReadUpTo(p)
    /\ pel' = pel \cup Fresh(p)
    /\ LET batch == consumers[p].batch \cup Fresh(p) IN
       consumers' = [consumers EXCEPT ![p] =
           IF batch = {} THEN ConsumerAsleep ELSE [pc |-> "handle", batch |-> batch]]
    /\ UNCHANGED <<relayVars, idle, completed, faults, retries>>

\* The poll raised with its reply lost: what Redis handed out stays pending
\* under this consumer and comes back only once it is idle.
PollFails(p) ==
    /\ Fault
    /\ \/ /\ consumers[p].pc = "sleep"
          /\ idle' = idle \ Reclaimed(p)
          /\ UNCHANGED <<cursor, pel>>
       \/ /\ consumers[p].pc = "read"
          /\ cursor' = ReadUpTo(p)
          /\ pel' = pel \cup Fresh(p)
          /\ UNCHANGED idle
    /\ consumers' = [consumers EXCEPT ![p] = ConsumerAsleep]
    /\ UNCHANGED <<relayVars, completed, retries>>

AfterEntry(k) ==
    LET rest == k.batch \ {Min(k.batch)} IN
    IF rest = {} THEN ConsumerAsleep ELSE [pc |-> "handle", batch |-> rest]

\* The handler answered COMPLETE: the entry is to be acknowledged.
Complete(p) ==
    /\ consumers[p].pc = "handle"
    /\ completed' = completed \cup {Min(consumers[p].batch)}
    /\ consumers' = [consumers EXCEPT ![p].pc = "xack"]
    /\ UNCHANGED <<relayVars, cursor, pel, idle, faults, retries>>

\* Mutant: an entry the handler could not finish is acknowledged as well.
RetryAcknowledged(p) ==
    /\ consumers[p].pc = "handle"
    /\ retries < MaxRetries /\ retries' = retries + 1
    /\ consumers' = [consumers EXCEPT ![p].pc = "xack"]
    /\ UNCHANGED <<relayVars, cursor, pel, idle, completed, faults>>

\* The handler answered RETRY or REJECT: the entry stays pending.
Retry(p) ==
    /\ consumers[p].pc = "handle"
    /\ retries < MaxRetries /\ retries' = retries + 1
    /\ consumers' = [consumers EXCEPT ![p] = AfterEntry(@)]
    /\ UNCHANGED <<relayVars, cursor, pel, idle, completed, faults>>

\* Mutant: the idle clock outlives the pending entry.
RemovedFromList(i) == pel' = pel \ {i} /\ UNCHANGED idle

Removed(i) == pel' = pel \ {i} /\ idle' = idle \ {i}

\* XACK, by any consumer of the group: an entry acknowledged by another one
\* meanwhile is reported as ACKNOWLEDGEMENT_FAILED and left alone.
Xack(p) ==
    /\ consumers[p].pc = "xack"
    /\ Removed(Min(consumers[p].batch))
    /\ consumers' = [consumers EXCEPT ![p] = AfterEntry(@)]
    /\ UNCHANGED <<relayVars, cursor, completed, faults, retries>>

XackFails(p) ==
    /\ consumers[p].pc = "xack"
    /\ Fault
    /\ Removed(Min(consumers[p].batch)) \/ UNCHANGED <<pel, idle>>
    /\ consumers' = [consumers EXCEPT ![p] = AfterEntry(@)]
    /\ UNCHANGED <<relayVars, cursor, completed, retries>>

\* The process dies with both its tasks and is started again.
Crash(p) ==
    /\ Fault
    /\ relays' = [relays EXCEPT ![p] = RelayAsleep]
    /\ consumers' = [consumers EXCEPT ![p] = ConsumerAsleep]
    /\ UNCHANGED <<outbox, markers, stream, cursor, pel, idle, completed, retries>>

----------------------------------------------------------------------------
RelayStep(p) == LoadOutbox(p) \/ Enqueue(p) \/ AcknowledgeOutbox(p)
ConsumerStep(p) == Reclaim(p) \/ Read(p) \/ Complete(p) \/ Retry(p) \/ Xack(p)

Next ==
    \/ \E m \in Message : Stage(m)
    \/ \E p \in Process :
          \/ RelayStep(p) \/ EnqueueFails(p) \/ RelayDies(p)
          \/ ConsumerStep(p) \/ PollFails(p) \/ XackFails(p) \/ Crash(p)
    \/ \E i \in DOMAIN stream : BecomeIdle(i)

\* Both tasks of a live process are asyncio loops that sleep a fixed interval
\* between cycles, and Redis's idle clock only moves forward.
Fairness ==
    /\ \A p \in Process : WF_vars(RelayStep(p)) /\ WF_vars(ConsumerStep(p))
    /\ \A i \in Message : WF_vars(BecomeIdle(i))

Spec == Init /\ [][Next]_vars /\ Fairness

----------------------------------------------------------------------------
(* Properties.                                                             *)

RelayTask == [pc : {"sleep", "send", "ack", "dead"},
              view : [Message -> RowStatus] \cup {<<>>}, todo : SUBSET Message]
ConsumerTask == [pc : {"sleep", "read", "handle", "xack"}, batch : SUBSET (1..cursor)]

\* Types, and the relations between the positions of the group.
TypeOK ==
    /\ outbox \in [Message -> RowStatus]
    /\ markers \subseteq Message /\ stream \in Seq(Message)
    /\ cursor \in 0..Len(stream) /\ pel \subseteq 1..cursor /\ idle \subseteq pel
    /\ completed \subseteq 1..cursor
    /\ faults \in 0..MaxFaults /\ retries \in 0..MaxRetries
    /\ relays \in [Process -> RelayTask]
    /\ consumers \in [Process -> ConsumerTask]

\* _ENQUEUE_SCRIPT (redis_transport.py): however often relays crash, lose
\* replies or race one another over a row, the stream holds one entry for it.
EnqueuedOnce == IsInjective(stream)

\* OutboxRelayService.relay_pending (outbox_application.py): a row is marked
\* published only after its entry is on the stream, so that no staged message
\* is forgotten.
PublishedIsOnStream ==
    \A m \in Message : outbox[m] = "published" => m \in Range(stream)

\* RedisDispatchWorker.handle_once (worker_consumer.py): an entry handed out
\* leaves the group only after a handler answered COMPLETE for it, whatever
\* polls, acknowledgements and processes failed.
GoneIsCompleted == (1..cursor) \ pel \subseteq completed

\* The message's place in the promised delivery.
Status ==
    [m \in Message |->
        IF m \notin Range(stream) THEN "none"
        ELSE LET i == CHOOSE j \in DOMAIN stream : stream[j] = m IN
             IF i > cursor THEN "ready" ELSE IF i \in pel THEN "pending" ELSE "acked"]

Delivery == INSTANCE EntryDelivery WITH status <- Status

\* The relay and the consumer group together implement EntryDelivery, and
\* every entry of the stream is handed out and acknowledged in the end.
ImplementsDelivery == Delivery!DeliverySpec

\* OutboxRelayScheduler.run (outbox_application.py): a staged message is
\* published in the end, unless the relay task of every process has died.
EventuallyPublished ==
    \A m \in Message :
        outbox[m] = "pending" ~>
            \/ outbox[m] = "published"
            \/ \A p \in Process : relays[p].pc = "dead"

\* docs/strategy-lab-v2.md:1448, the pump "ensures the consumer group, reclaims
\* idle deliveries before reading new entries": an entry left pending and idle
\* is in the end reclaimed, or acknowledged by its consumer.
IdleReclaimed == \A i \in Message : i \in idle ~> i \notin idle
=============================================================================
