------------------------ MODULE OutboxDeliveryProofs ------------------------
(***************************************************************************)
(* Proofs about OutboxDelivery for any number of messages, processes,      *)
(* faults and retries: the safety invariants of the outbox run, and the    *)
(* safety part of the refinement of EntryDelivery.                         *)
(***************************************************************************)
EXTENDS OutboxDelivery, FiniteSetTheorems, WellFoundedInduction, TLAPS

----------------------------------------------------------------------------
(* Lemmas about the operators of the model.                                *)

\* Every non-empty set of natural numbers has a least element.
LEMMA LeastExists ==
    ASSUME NEW S \in SUBSET Nat, S # {}
    PROVE  \E x \in S : \A y \in S : x <= y
<1>1. IsWellFoundedOn(OpToRel(<, Nat), Nat)
  BY NatLessThanWellFounded
<1> DEFINE R == OpToRel(<, Nat)
<1>2. \E x \in S : \A y \in S : ~(<<y, x>> \in R)
  <2> HIDE DEF R
  <2>1. IsWellFoundedOn(R, Nat)
    BY <1>1 DEF R
  <2> QED BY <2>1, WFMin, Zenon
<1>3. PICK x \in S : \A y \in S : ~(<<y, x>> \in R)
  BY <1>2
<1>4. ASSUME NEW y \in S PROVE x <= y
  <2>1. <<y, x>> \notin R
    BY <1>3
  <2>2. <<y, x>> \in Nat \X Nat
    OBVIOUS
  <2> QED BY <2>1, <2>2 DEF OpToRel
<1> QED BY <1>4

\* What Min takes from a non-empty set of natural numbers.
LEMMA MinIsLeast ==
    ASSUME NEW S \in SUBSET Nat, S # {}
    PROVE  Min(S) \in S /\ \A y \in S : Min(S) <= y
BY LeastExists DEF Min

\* The first members of a set of numbers are members of it.
LEMMA FirstOfSubset ==
    ASSUME NEW n, NEW S
    PROVE  FirstOf(n, S) \subseteq S
BY DEF FirstOf

\* The first members of a non-empty set include its least one.
LEMMA FirstOfNonEmpty ==
    ASSUME NEW n \in Nat \ {0}, NEW S \in SUBSET Nat, S # {}
    PROVE  FirstOf(n, S) # {}
<1>1. PICK x \in S : \A y \in S : x <= y
  BY LeastExists
<1>2. {y \in S : y < x} = {}
  <2>1. ASSUME NEW y \in S PROVE ~(y < x)
    BY <1>1
  <2> QED BY <2>1
<1>3. Cardinality({y \in S : y < x}) = 0
  BY <1>2, FS_EmptySet
<1> QED BY <1>3 DEF FirstOf

\* A read stops at the end of the stream or when the batch is full.
LEMMA ReadUpToBound ==
    ASSUME NEW l \in Nat, NEW c \in 0..l, NEW n \in Nat
    PROVE  Min({l, c + n}) \in c..l
<1>1. {l, c + n} \in SUBSET Nat /\ {l, c + n} # {}
  OBVIOUS
<1>2. Min({l, c + n}) \in {l, c + n} /\ \A y \in {l, c + n} : Min({l, c + n}) <= y
  BY <1>1, MinIsLeast
<1> QED BY <1>2

\* What an append does to a sequence, as a function.
LEMMA AppendIs ==
    ASSUME NEW S, NEW s \in Seq(S), NEW e \in S
    PROVE  /\ Append(s, e) \in Seq(S)
           /\ Len(Append(s, e)) = Len(s) + 1
           /\ DOMAIN Append(s, e) = 1..(Len(s) + 1)
           /\ DOMAIN s = 1..Len(s)
           /\ \A i \in 1..Len(s) : Append(s, e)[i] = s[i]
           /\ Append(s, e)[Len(s) + 1] = e
           /\ Range(Append(s, e)) = Range(s) \cup {e}
<1>1. /\ Append(s, e) \in Seq(S)
      /\ Len(Append(s, e)) = Len(s) + 1
      /\ DOMAIN Append(s, e) = 1..(Len(s) + 1)
      /\ DOMAIN s = 1..Len(s)
      /\ \A i \in 1..Len(s) : Append(s, e)[i] = s[i]
      /\ Append(s, e)[Len(s) + 1] = e
  OBVIOUS
<1>2. Len(s) \in Nat
  OBVIOUS
<1>3. Range(Append(s, e)) = Range(s) \cup {e}
  <2>1. ASSUME NEW m \in Range(Append(s, e)) PROVE m \in Range(s) \cup {e}
    <3>1. PICK i \in 1..(Len(s) + 1) : m = Append(s, e)[i]
      BY <1>1 DEF Range
    <3>2. i \in 1..Len(s) \/ i = Len(s) + 1
      BY <1>2
    <3> QED BY <1>1, <3>1, <3>2 DEF Range
  <2>2. ASSUME NEW m \in Range(s) PROVE m \in Range(Append(s, e))
    <3>1. PICK i \in 1..Len(s) : m = s[i]
      BY <1>1 DEF Range
    <3>2. i \in DOMAIN Append(s, e) /\ Append(s, e)[i] = m
      BY <1>1, <1>2, <3>1
    <3> QED BY <3>2 DEF Range
  <2>3. e \in Range(Append(s, e))
    <3>1. Len(s) + 1 \in DOMAIN Append(s, e)
      BY <1>1, <1>2
    <3> QED BY <1>1, <3>1 DEF Range
  <2> QED BY <2>1, <2>2, <2>3
<1> QED BY <1>1, <1>3

----------------------------------------------------------------------------
(* The inductive invariant.                                                *)

\* The idempotency hash of Redis binds exactly the messages of the stream.
MarkersMatch == markers = Range(stream)

\* A relay in its cycle has a message at hand and the outbox it read, and
\* acknowledges a row only when its entry is on the stream.
RelayOK(r) ==
    /\ r.pc \in {"send", "ack"} => r.todo # {} /\ r.view \in [Message -> RowStatus]
    /\ r.pc = "ack" => Min(r.todo) \in Range(stream)

\* A consumer at work has an entry at hand, acknowledges it only after a
\* handler completed it, and polls for new ones only below its batch size.
ConsumerOK(p, k) ==
    /\ k.pc \in {"handle", "xack"} => k.batch # {}
    /\ k.pc = "xack" => Min(k.batch) \in completed
    /\ k.pc = "read" => Cardinality(k.batch) < Batch[p]

RelaysOK == \A p \in Process : RelayOK(relays[p])
ConsumersOK == \A p \in Process : ConsumerOK(p, consumers[p])

OutboxInv ==
    /\ TypeOK
    /\ MarkersMatch
    /\ EnqueuedOnce
    /\ PublishedIsOnStream
    /\ GoneIsCompleted
    /\ RelaysOK
    /\ ConsumersOK

\* The initial states satisfy the invariant.
LEMMA OutboxInit == Init => OutboxInv
<1> SUFFICES ASSUME Init PROVE OutboxInv
  OBVIOUS
<1> USE DeliveryAssumption
<1>1. stream \in Seq(Message) /\ Len(stream) = 0 /\ DOMAIN stream = {}
  BY DEF Init
<1>2. TypeOK
  <2>1. outbox \in [Message -> RowStatus]
    BY DEF Init, RowStatus
  <2>2. cursor \in 0..Len(stream) /\ pel \subseteq 1..cursor /\ idle \subseteq pel
    BY <1>1 DEF Init
  <2>3. relays \in [Process -> RelayTask]
    BY DEF Init, RelayAsleep, RelayTask
  <2>4. consumers \in [Process -> ConsumerTask]
    BY DEF Init, ConsumerAsleep, ConsumerTask
  <2> QED BY <1>1, <2>1, <2>2, <2>3, <2>4 DEF Init, TypeOK
<1>3. MarkersMatch /\ EnqueuedOnce
  BY <1>1 DEF Init, MarkersMatch, EnqueuedOnce, Range, IsInjective
<1>4. PublishedIsOnStream /\ GoneIsCompleted
  BY DEF Init, PublishedIsOnStream, GoneIsCompleted
<1>5. RelaysOK /\ ConsumersOK
  BY DEF Init, RelaysOK, ConsumersOK, RelayOK, ConsumerOK, RelayAsleep, ConsumerAsleep
<1> QED BY <1>2, <1>3, <1>4, <1>5 DEF OutboxInv

----------------------------------------------------------------------------
(* Steps of the relays.                                                    *)

\* After its message a relay has the next one to send, or sleeps.
LEMMA NextOfTask ==
    ASSUME NEW r \in RelayTask, r.todo # {}, r.view \in [Message -> RowStatus]
    PROVE  /\ NextOf(r) \in RelayTask
           /\ NextOf(r).pc # "ack"
           /\ NextOf(r).pc = "send" => NextOf(r).todo # {} /\ NextOf(r).view = r.view
<1> DEFINE rest == r.todo \ {Min(r.todo)}
<1>1. CASE rest = {}
  BY <1>1 DEF NextOf, RelayAsleep, RelayTask
<1>2. CASE rest # {}
  <2>1. NextOf(r) = [r EXCEPT !.pc = "send", !.todo = rest]
    BY <1>2 DEF NextOf
  <2>2. rest \subseteq Message
    BY DEF RelayTask
  <2> HIDE DEF rest
  <2> QED BY <1>2, <2>1, <2>2 DEF RelayTask
<1> QED BY <1>1, <1>2

\* The enqueue script keeps the hash and the stream together: it adds the
\* message when it is new and never adds it again.
LEMMA ScriptKeepsStream ==
    ASSUME TypeOK, MarkersMatch, EnqueuedOnce, NEW m \in Message, EnqueueScript(m)
    PROVE  /\ stream' \in Seq(Message) /\ markers' \subseteq Message
           /\ MarkersMatch' /\ EnqueuedOnce'
           /\ Range(stream) \subseteq Range(stream') /\ m \in Range(stream')
           /\ Len(stream) <= Len(stream') /\ Len(stream') <= Len(stream) + 1
           /\ \A i \in 1..Len(stream) : stream'[i] = stream[i]
           /\ Len(stream') = Len(stream) + 1 =>
                 m \notin Range(stream) /\ stream'[Len(stream) + 1] = m
<1>1. stream \in Seq(Message) /\ Len(stream) \in Nat /\ DOMAIN stream = 1..Len(stream)
  BY DEF TypeOK
<1>2. markers' \subseteq Message
  BY DEF TypeOK, EnqueueScript
<1>3. CASE m \in markers
  <2>1. stream' = stream /\ markers' = markers
    BY <1>3 DEF EnqueueScript
  <2>2. MarkersMatch' /\ EnqueuedOnce' /\ m \in Range(stream')
    BY <1>3, <2>1 DEF MarkersMatch, EnqueuedOnce
  <2>3. Len(stream') # Len(stream) + 1 /\ Len(stream') <= Len(stream) + 1
        /\ Len(stream) <= Len(stream')
    <3>1. PICK n \in Nat : n = Len(stream)
      BY <1>1
    <3>2. Len(stream') = n
      BY <2>1, <3>1
    <3> QED BY <3>1, <3>2
  <2>4. stream' \in Seq(Message) /\ Range(stream) \subseteq Range(stream')
    BY <1>1, <2>1
  <2>5. \A i \in 1..Len(stream) : stream'[i] = stream[i]
    BY <2>1
  <2> QED BY <1>2, <2>2, <2>3, <2>4, <2>5
<1>4. CASE m \notin markers
  <2>1. stream' = Append(stream, m) /\ markers' = markers \cup {m}
    BY <1>4 DEF EnqueueScript
  <2>2. /\ stream' \in Seq(Message)
        /\ Len(stream') = Len(stream) + 1
        /\ DOMAIN stream' = 1..(Len(stream) + 1)
        /\ \A i \in 1..Len(stream) : stream'[i] = stream[i]
        /\ stream'[Len(stream) + 1] = m
        /\ Range(stream') = Range(stream) \cup {m}
    BY <1>1, <2>1, AppendIs
  <2>3. m \notin Range(stream)
    BY <1>4 DEF MarkersMatch
  <2>4. MarkersMatch'
    BY <2>1, <2>2 DEF MarkersMatch
  <2>5. EnqueuedOnce'
    <3>1. ASSUME NEW i \in 1..Len(stream) PROVE stream'[i] # m
      BY <1>1, <2>2, <2>3 DEF Range
    <3>2. ASSUME NEW i \in 1..(Len(stream) + 1), NEW j \in 1..(Len(stream) + 1),
                 stream'[i] = stream'[j]
          PROVE  i = j
      <4>1. CASE i \in 1..Len(stream) /\ j \in 1..Len(stream)
        BY <1>1, <2>2, <3>2, <4>1 DEF EnqueuedOnce, IsInjective
      <4>2. CASE i \in 1..Len(stream) /\ j = Len(stream) + 1
        BY <2>2, <3>1, <3>2, <4>2
      <4>3. CASE i = Len(stream) + 1 /\ j \in 1..Len(stream)
        BY <2>2, <3>1, <3>2, <4>3
      <4>4. CASE i = Len(stream) + 1 /\ j = Len(stream) + 1
        BY <4>4
      <4> QED BY <1>1, <4>1, <4>2, <4>3, <4>4
    <3> QED BY <2>2, <3>2 DEF EnqueuedOnce, IsInjective
  <2> QED BY <1>1, <1>2, <2>2, <2>3, <2>4, <2>5
<1> QED BY <1>3, <1>4

\* A step of one relay that leaves the group alone, keeps the hash and the
\* stream together and publishes only what is on the stream.
LEMMA RelayFrame ==
    ASSUME OutboxInv, NEW p \in Process, NEW r \in RelayTask,
           UNCHANGED groupVars, faults' \in 0..MaxFaults, retries' = retries,
           outbox' \in [Message -> RowStatus], markers' \subseteq Message,
           stream' \in Seq(Message), Len(stream) <= Len(stream'),
           Range(stream) \subseteq Range(stream'),
           MarkersMatch', EnqueuedOnce',
           \A m \in Message : outbox'[m] = "published" =>
               outbox[m] = "published" \/ m \in Range(stream'),
           relays' = [relays EXCEPT ![p] = r],
           r.pc \in {"send", "ack"} => r.todo # {} /\ r.view \in [Message -> RowStatus],
           r.pc = "ack" => Min(r.todo) \in Range(stream')
    PROVE  OutboxInv'
<1>1. cursor' = cursor /\ pel' = pel /\ idle' = idle /\ consumers' = consumers
      /\ completed' = completed
  BY DEF groupVars
<1>2. relays \in [Process -> RelayTask]
  BY DEF OutboxInv, TypeOK
<1>3. TypeOK'
  <2>1. relays' \in [Process -> RelayTask]
    BY <1>2
  <2>2. consumers' \in [Process -> ConsumerTask]
    BY <1>1 DEF OutboxInv, TypeOK, ConsumerTask
  <2>3. cursor' \in 0..Len(stream') /\ pel' \subseteq 1..cursor' /\ idle' \subseteq pel'
        /\ completed' \subseteq 1..cursor'
    <3>1. cursor \in 0..Len(stream) /\ Len(stream) \in Nat /\ Len(stream') \in Nat
      BY DEF OutboxInv, TypeOK
    <3>2. cursor' \in 0..Len(stream')
      BY <1>1, <3>1
    <3> QED BY <1>1, <3>2 DEF OutboxInv, TypeOK
  <2>4. retries' \in 0..MaxRetries
    BY DEF OutboxInv, TypeOK
  <2>5. RelayTask' = RelayTask
    BY DEF RelayTask
  <2>6. ConsumerTask' = ConsumerTask
    BY <1>1 DEF ConsumerTask
  <2> QED BY <2>1, <2>2, <2>3, <2>4, <2>5, <2>6 DEF TypeOK
<1>4. PublishedIsOnStream'
  BY DEF OutboxInv, PublishedIsOnStream
<1>5. GoneIsCompleted'
  BY <1>1 DEF OutboxInv, GoneIsCompleted
<1>6. RelaysOK'
  <2>1. ASSUME NEW q \in Process PROVE RelayOK(relays[q])'
    <3>1. CASE q = p
      <4>1. relays'[q] = r
        BY <1>2, <3>1
      <4> QED BY <4>1 DEF RelayOK
    <3>2. CASE q # p
      <4>1. relays'[q] = relays[q]
        BY <1>2, <3>2
      <4>2. RelayOK(relays[q])
        BY DEF OutboxInv, RelaysOK
      <4> QED BY <4>1, <4>2 DEF RelayOK
    <3> QED BY <3>1, <3>2
  <2> QED BY <2>1 DEF RelaysOK
<1>7. ConsumersOK'
  BY <1>1 DEF OutboxInv, ConsumersOK, ConsumerOK
<1> QED BY <1>3, <1>4, <1>5, <1>6, <1>7 DEF OutboxInv

\* A fault is counted within its bound.
LEMMA FaultCounted ==
    ASSUME TypeOK, Fault
    PROVE  faults' \in 0..MaxFaults
BY DeliveryAssumption DEF TypeOK, Fault

\* What the invariant says of the record of one relay.
LEMMA RelayFacts ==
    ASSUME OutboxInv, NEW p \in Process
    PROVE  /\ relays[p] \in RelayTask
           /\ relays[p].pc \in {"send", "ack"} =>
                 /\ relays[p].todo # {} /\ relays[p].view \in [Message -> RowStatus]
                 /\ Min(relays[p].todo) \in Message
           /\ relays[p].pc = "ack" => Min(relays[p].todo) \in Range(stream)
<1>1. relays[p] \in RelayTask
  BY DEF OutboxInv, TypeOK
<1>2. RelayOK(relays[p])
  BY DEF OutboxInv, RelaysOK
<1>3. ASSUME relays[p].pc \in {"send", "ack"} PROVE Min(relays[p].todo) \in Message
  <2>1. relays[p].todo \in SUBSET Message /\ relays[p].todo # {}
    BY <1>1, <1>2, <1>3 DEF RelayTask, RelayOK
  <2>2. Message \subseteq Nat
    BY DeliveryAssumption DEF Message
  <2> QED BY <2>1, <2>2, MinIsLeast
<1> QED BY <1>1, <1>2, <1>3 DEF RelayOK

\* Staging a row keeps the invariant.
LEMMA StageKeeps ==
    ASSUME OutboxInv, NEW m \in Message, Stage(m)
    PROVE  OutboxInv'
<1>1. outbox' = [outbox EXCEPT ![m] = "pending"] /\ UNCHANGED <<relays, markers, stream>>
      /\ UNCHANGED <<cursor, pel, idle, consumers, completed>> /\ UNCHANGED <<faults, retries>>
  BY DEF Stage, groupVars
<1>2. outbox \in [Message -> RowStatus]
  BY DEF OutboxInv, TypeOK
<1>3. outbox' \in [Message -> RowStatus]
  BY <1>1, <1>2 DEF RowStatus
<1>4. TypeOK'
  BY <1>1, <1>3 DEF OutboxInv, TypeOK, RelayTask, ConsumerTask
<1>5. PublishedIsOnStream'
  BY <1>1, <1>2 DEF OutboxInv, PublishedIsOnStream
<1>6. MarkersMatch' /\ EnqueuedOnce' /\ GoneIsCompleted' /\ RelaysOK' /\ ConsumersOK'
  BY <1>1 DEF OutboxInv, MarkersMatch, EnqueuedOnce, GoneIsCompleted, RelaysOK, RelayOK,
     ConsumersOK, ConsumerOK
<1> QED BY <1>4, <1>5, <1>6 DEF OutboxInv

\* A step of a relay that touches neither the hash nor the stream.
LEMMA RelayLocal ==
    ASSUME OutboxInv, NEW p \in Process, NEW r \in RelayTask,
           UNCHANGED <<markers, stream, groupVars, retries>>, faults' \in 0..MaxFaults,
           outbox' \in [Message -> RowStatus],
           \A m \in Message : outbox'[m] = "published" =>
               outbox[m] = "published" \/ m \in Range(stream),
           relays' = [relays EXCEPT ![p] = r],
           r.pc \in {"send", "ack"} => r.todo # {} /\ r.view \in [Message -> RowStatus],
           r.pc # "ack"
    PROVE  OutboxInv'
<1>1. stream' = stream /\ markers' = markers /\ UNCHANGED groupVars /\ retries' = retries
  OBVIOUS
<1>2. stream \in Seq(Message) /\ Len(stream) \in Nat /\ markers \subseteq Message
  BY DEF OutboxInv, TypeOK
<1>3. MarkersMatch' /\ EnqueuedOnce'
  BY <1>1 DEF OutboxInv, MarkersMatch, EnqueuedOnce
<1>4. Len(stream) <= Len(stream') /\ Range(stream) \subseteq Range(stream')
      /\ stream' \in Seq(Message) /\ markers' \subseteq Message
  BY <1>1, <1>2
<1>5. \A m \in Message : outbox'[m] = "published" =>
          outbox[m] = "published" \/ m \in Range(stream')
  BY <1>1
<1> QED BY <1>1, <1>3, <1>4, <1>5, RelayFrame

\* Reading the outbox takes the first pending rows.
LEMMA LoadOutboxKeeps ==
    ASSUME OutboxInv, NEW p \in Process, LoadOutbox(p)
    PROVE  OutboxInv'
<1> DEFINE r == [pc |-> "send", view |-> outbox, todo |-> FirstOf(Batch[p], Pending)]
<1>1. outbox \in [Message -> RowStatus] /\ faults \in 0..MaxFaults
  BY DEF OutboxInv, TypeOK
<1>2. Pending \in SUBSET Nat /\ Pending \subseteq Message /\ Pending # {}
  BY DeliveryAssumption DEF LoadOutbox, Pending, Message
<1>3. Batch[p] \in Nat \ {0}
  BY DeliveryAssumption
<1>4. FirstOf(Batch[p], Pending) # {} /\ FirstOf(Batch[p], Pending) \subseteq Message
  BY <1>2, <1>3, FirstOfNonEmpty, FirstOfSubset
<1>5. r \in RelayTask /\ r.pc = "send" /\ r.todo # {} /\ r.view = outbox
  BY <1>1, <1>4 DEF RelayTask
<1>6. relays' = [relays EXCEPT ![p] = r]
      /\ UNCHANGED <<markers, stream, groupVars, retries>> /\ UNCHANGED <<outbox, faults>>
  BY DEF LoadOutbox
<1> HIDE DEF r
<1> QED BY <1>1, <1>5, <1>6, RelayLocal

\* The script answered: the entry at hand is on the stream.
LEMMA EnqueueKeeps ==
    ASSUME OutboxInv, NEW p \in Process, Enqueue(p)
    PROVE  OutboxInv'
<1>1. PICK m \in Message : m = Min(relays[p].todo)
  BY RelayFacts DEF Enqueue
<1>2. EnqueueScript(m)
  BY <1>1 DEF Enqueue
<1>3. PICK r : r = [relays[p] EXCEPT !.pc = "ack"]
  OBVIOUS
<1>4. r \in RelayTask /\ r.todo = relays[p].todo /\ r.view = relays[p].view
  BY <1>3, RelayFacts DEF RelayTask
<1>5. r.todo # {} /\ r.view \in [Message -> RowStatus]
  BY <1>4, RelayFacts DEF Enqueue
<1>6. relays' = [relays EXCEPT ![p] = r] /\ UNCHANGED groupVars
      /\ UNCHANGED <<outbox, faults, retries>>
  BY <1>3 DEF Enqueue
<1>7. Min(r.todo) \in Range(stream')
  BY <1>1, <1>2, <1>4, ScriptKeepsStream DEF OutboxInv
<1>8. outbox \in [Message -> RowStatus] /\ faults \in 0..MaxFaults
  BY DEF OutboxInv, TypeOK
<1>9. /\ stream' \in Seq(Message) /\ markers' \subseteq Message
      /\ MarkersMatch' /\ EnqueuedOnce' /\ Range(stream) \subseteq Range(stream')
      /\ Len(stream) <= Len(stream')
  BY <1>2, ScriptKeepsStream DEF OutboxInv
<1> QED BY <1>4, <1>5, <1>6, <1>7, <1>8, <1>9, RelayFrame

\* The call failed, before or after the script ran.
LEMMA EnqueueFailsKeeps ==
    ASSUME OutboxInv, NEW p \in Process, EnqueueFails(p)
    PROVE  OutboxInv'
<1>1. PICK m \in Message : m = Min(relays[p].todo)
  BY RelayFacts DEF EnqueueFails
<1>2. PICK r : r = NextOf(relays[p])
  OBVIOUS
<1>3. r \in RelayTask /\ r.pc # "ack"
      /\ (r.pc \in {"send", "ack"} => r.todo # {} /\ r.view \in [Message -> RowStatus])
  BY <1>2, RelayFacts, NextOfTask DEF EnqueueFails
<1>4. relays' = [relays EXCEPT ![p] = r] /\ UNCHANGED groupVars
      /\ UNCHANGED <<outbox, retries>> /\ Fault
  BY <1>2 DEF EnqueueFails
<1>5. faults' \in 0..MaxFaults /\ outbox \in [Message -> RowStatus]
  BY <1>4, FaultCounted DEF OutboxInv, TypeOK
<1>6. CASE EnqueueScript(m)
  <2>1. /\ stream' \in Seq(Message) /\ markers' \subseteq Message
        /\ MarkersMatch' /\ EnqueuedOnce' /\ Range(stream) \subseteq Range(stream')
        /\ Len(stream) <= Len(stream')
    BY <1>6, ScriptKeepsStream DEF OutboxInv
  <2> QED BY <1>3, <1>4, <1>5, <2>1, RelayFrame
<1>7. CASE UNCHANGED <<markers, stream>>
  BY <1>3, <1>4, <1>5, <1>7, RelayLocal
<1> QED BY <1>1, <1>6, <1>7 DEF EnqueueFails

\* acknowledge_outbox publishes the row at hand, whose entry is on the stream.
LEMMA AcknowledgeOutboxKeeps ==
    ASSUME OutboxInv, NEW p \in Process, AcknowledgeOutbox(p)
    PROVE  OutboxInv'
<1>1. PICK m \in Message : m = Min(relays[p].todo) /\ m \in Range(stream)
  BY RelayFacts DEF AcknowledgeOutbox
<1>2. UNCHANGED <<markers, stream, groupVars, retries>> /\ faults' = faults
  BY DEF AcknowledgeOutbox
<1>3. outbox \in [Message -> RowStatus] /\ faults \in 0..MaxFaults
  BY DEF OutboxInv, TypeOK
<1>4. CASE outbox = relays[p].view
  <2>1. outbox' = [outbox EXCEPT ![m] = "published"]
    BY <1>1, <1>4 DEF AcknowledgeOutbox
  <2>2. outbox' \in [Message -> RowStatus]
    BY <1>3, <2>1 DEF RowStatus
  <2>3. PICK v \in [Message -> RowStatus] : v = outbox'
    BY <2>2
  <2>4. PICK q : q = [relays[p] EXCEPT !.view = v]
    OBVIOUS
  <2>5. q \in RelayTask /\ q.todo = relays[p].todo /\ q.view = v
    BY <2>4, RelayFacts DEF RelayTask
  <2>6. q.todo # {}
    BY <2>5, RelayFacts DEF AcknowledgeOutbox
  <2>7. PICK r : r = NextOf(q)
    OBVIOUS
  <2>8. r \in RelayTask /\ r.pc # "ack"
        /\ (r.pc \in {"send", "ack"} => r.todo # {} /\ r.view \in [Message -> RowStatus])
    BY <2>5, <2>6, <2>7, NextOfTask
  <2>9. relays' = [relays EXCEPT ![p] = r]
    BY <1>4, <2>3, <2>4, <2>7 DEF AcknowledgeOutbox
  <2>10. \A n \in Message : outbox'[n] = "published" =>
             outbox[n] = "published" \/ n \in Range(stream)
    BY <1>1, <1>3, <2>1
  <2> QED BY <1>2, <1>3, <2>2, <2>8, <2>9, <2>10, RelayLocal
<1>5. CASE outbox # relays[p].view
  <2>1. PICK r : r = NextOf(relays[p])
    OBVIOUS
  <2>2. r \in RelayTask /\ r.pc # "ack"
        /\ (r.pc \in {"send", "ack"} => r.todo # {} /\ r.view \in [Message -> RowStatus])
    BY <2>1, RelayFacts, NextOfTask DEF AcknowledgeOutbox
  <2>3. relays' = [relays EXCEPT ![p] = r] /\ outbox' = outbox
    BY <1>5, <2>1 DEF AcknowledgeOutbox
  <2> QED BY <1>2, <1>3, <2>2, <2>3, RelayLocal
<1> QED BY <1>4, <1>5

\* The relay task ends, perhaps after its last transaction committed.
LEMMA RelayDiesKeeps ==
    ASSUME OutboxInv, NEW p \in Process, RelayDies(p)
    PROVE  OutboxInv'
<1>1. PICK r : r = [RelayAsleep EXCEPT !.pc = "dead"]
  OBVIOUS
<1>2. r \in RelayTask /\ r.pc = "dead"
  BY <1>1 DEF RelayAsleep, RelayTask
<1>3. relays' = [relays EXCEPT ![p] = r] /\ Fault
      /\ UNCHANGED <<markers, stream, groupVars, retries>>
  BY <1>1 DEF RelayDies
<1>4. faults' \in 0..MaxFaults /\ outbox \in [Message -> RowStatus]
  BY <1>3, FaultCounted DEF OutboxInv, TypeOK
<1>5. CASE relays[p].pc = "ack" /\ outbox' = [outbox EXCEPT ![Min(relays[p].todo)] = "published"]
  <2>1. PICK m \in Message : m = Min(relays[p].todo) /\ m \in Range(stream)
    BY <1>5, RelayFacts
  <2>2. outbox' \in [Message -> RowStatus]
    BY <1>4, <1>5, <2>1 DEF RowStatus
  <2>3. \A n \in Message : outbox'[n] = "published" =>
            outbox[n] = "published" \/ n \in Range(stream)
    BY <1>4, <1>5, <2>1
  <2> QED BY <1>2, <1>3, <1>4, <2>2, <2>3, RelayLocal
<1>6. CASE outbox' = outbox
  BY <1>2, <1>3, <1>4, <1>6, RelayLocal
<1> QED BY <1>5, <1>6 DEF RelayDies

----------------------------------------------------------------------------
(* Steps of the consumer group.                                            *)

\* A step of one consumer that leaves the relays alone, hands entries out in
\* order and forgets none that no handler completed.
LEMMA GroupFrame ==
    ASSUME OutboxInv, NEW p \in Process, NEW k,
           UNCHANGED relayVars, faults' \in 0..MaxFaults, retries' \in 0..MaxRetries,
           cursor' \in cursor..Len(stream), pel' \subseteq 1..cursor', idle' \subseteq pel',
           completed \subseteq completed', completed' \subseteq 1..cursor',
           GoneIsCompleted',
           consumers' = [consumers EXCEPT ![p] = k],
           k \in [pc : {"sleep", "read", "handle", "xack"}, batch : SUBSET (1..cursor')],
           k.pc \in {"handle", "xack"} => k.batch # {},
           k.pc = "xack" => Min(k.batch) \in completed',
           k.pc = "read" => Cardinality(k.batch) < Batch[p]
    PROVE  OutboxInv'
<1>1. UNCHANGED <<outbox, relays, markers, stream>>
  BY DEF relayVars
<1>2. consumers \in [Process -> ConsumerTask] /\ cursor \in 0..Len(stream) /\ Len(stream) \in Nat
  BY DEF OutboxInv, TypeOK
<1>3. cursor' \in 0..Len(stream) /\ 1..cursor \subseteq 1..cursor'
  BY <1>2
<1>4. ConsumerTask \subseteq ConsumerTask'
  BY <1>3 DEF ConsumerTask
<1>5. k \in ConsumerTask'
  BY DEF ConsumerTask
<1>6. consumers' \in [Process -> ConsumerTask']
  BY <1>2, <1>4, <1>5
<1>7. TypeOK'
  BY <1>1, <1>3, <1>6 DEF OutboxInv, TypeOK, RelayTask
<1>8. ConsumersOK'
  <2>1. ASSUME NEW q \in Process PROVE ConsumerOK(q, consumers[q])'
    <3>1. CASE q = p
      <4>1. consumers'[q] = k
        BY <1>2, <3>1
      <4> QED BY <3>1, <4>1 DEF ConsumerOK
    <3>2. CASE q # p
      <4>1. consumers'[q] = consumers[q]
        BY <1>2, <3>2
      <4>2. ConsumerOK(q, consumers[q])
        BY DEF OutboxInv, ConsumersOK
      <4> QED BY <4>1, <4>2 DEF ConsumerOK
    <3> QED BY <3>1, <3>2
  <2> QED BY <2>1 DEF ConsumersOK
<1>9. MarkersMatch' /\ EnqueuedOnce' /\ PublishedIsOnStream' /\ RelaysOK'
  BY <1>1 DEF OutboxInv, MarkersMatch, EnqueuedOnce, PublishedIsOnStream, RelaysOK, RelayOK
<1> QED BY <1>7, <1>8, <1>9 DEF OutboxInv

\* What the invariant says of the group and the record of one consumer.
LEMMA GroupFacts ==
    ASSUME OutboxInv, NEW p \in Process
    PROVE  /\ consumers[p] \in ConsumerTask /\ consumers[p].batch \subseteq 1..cursor
           /\ Len(stream) \in Nat /\ cursor \in Nat /\ cursor \in 0..Len(stream)
           /\ pel \subseteq 1..cursor /\ idle \subseteq pel /\ completed \subseteq 1..cursor
           /\ faults \in 0..MaxFaults /\ retries \in 0..MaxRetries
           /\ consumers[p].pc \in {"handle", "xack"} =>
                 consumers[p].batch # {} /\ Min(consumers[p].batch) \in consumers[p].batch
           /\ consumers[p].pc = "xack" => Min(consumers[p].batch) \in completed
           /\ consumers[p].pc = "read" => Cardinality(consumers[p].batch) < Batch[p]
<1>1. consumers[p] \in ConsumerTask /\ ConsumerOK(p, consumers[p])
  BY DEF OutboxInv, TypeOK, ConsumersOK
<1>2. consumers[p].batch \subseteq 1..cursor
  BY <1>1 DEF ConsumerTask
<1>3. /\ Len(stream) \in Nat /\ cursor \in Nat /\ cursor \in 0..Len(stream)
      /\ pel \subseteq 1..cursor /\ idle \subseteq pel /\ completed \subseteq 1..cursor
      /\ faults \in 0..MaxFaults /\ retries \in 0..MaxRetries
  BY DEF OutboxInv, TypeOK
<1>4. ASSUME consumers[p].pc \in {"handle", "xack"}
      PROVE  consumers[p].batch # {} /\ Min(consumers[p].batch) \in consumers[p].batch
  <2>1. consumers[p].batch # {} /\ consumers[p].batch \in SUBSET Nat
    BY <1>1, <1>2, <1>3, <1>4 DEF ConsumerOK
  <2> QED BY <2>1, MinIsLeast
<1> QED BY <1>1, <1>2, <1>3, <1>4 DEF ConsumerOK

\* After an entry a consumer has the next one to handle, or sleeps.
LEMMA AfterEntryTask ==
    ASSUME NEW k, k.batch \subseteq 1..cursor
    PROVE  /\ AfterEntry(k) \in ConsumerTask /\ AfterEntry(k).pc \in {"handle", "sleep"}
           /\ AfterEntry(k).pc = "handle" => AfterEntry(k).batch # {}
<1> DEFINE rest == k.batch \ {Min(k.batch)}
<1>1. CASE rest = {}
  BY <1>1 DEF AfterEntry, ConsumerAsleep, ConsumerTask
<1>2. CASE rest # {}
  <2>1. AfterEntry(k) = [pc |-> "handle", batch |-> rest]
    BY <1>2 DEF AfterEntry
  <2>2. rest \subseteq 1..cursor
    OBVIOUS
  <2> HIDE DEF rest
  <2> QED BY <1>2, <2>1, <2>2 DEF ConsumerTask
<1> QED BY <1>1, <1>2

\* A pending entry turns idle.
LEMMA BecomeIdleKeeps ==
    ASSUME OutboxInv, NEW i, BecomeIdle(i)
    PROVE  OutboxInv'
<1>1. idle' = idle \cup {i} /\ i \in pel /\ UNCHANGED <<outbox, relays, markers, stream>>
      /\ UNCHANGED <<cursor, pel, consumers, completed, faults, retries>>
  BY DEF BecomeIdle, relayVars
<1>2. TypeOK'
  BY <1>1 DEF OutboxInv, TypeOK, RelayTask, ConsumerTask
<1>3. MarkersMatch' /\ EnqueuedOnce' /\ PublishedIsOnStream' /\ GoneIsCompleted'
  BY <1>1 DEF OutboxInv, MarkersMatch, EnqueuedOnce, PublishedIsOnStream, GoneIsCompleted
<1>4. RelaysOK' /\ ConsumersOK'
  BY <1>1 DEF OutboxInv, RelaysOK, RelayOK, ConsumersOK, ConsumerOK
<1> QED BY <1>2, <1>3, <1>4 DEF OutboxInv

\* Reclaiming hands out idle entries again.
LEMMA ReclaimKeeps ==
    ASSUME OutboxInv, NEW p \in Process, Reclaim(p)
    PROVE  OutboxInv'
<1>1. PICK S : S = Reclaimed(p)
  OBVIOUS
<1>2. S \subseteq idle
  BY <1>1, FirstOfSubset DEF Reclaimed
<1>3. PICK k : k = [pc |-> IF Cardinality(S) < Batch[p] THEN "read" ELSE "handle", batch |-> S]
  OBVIOUS
<1>4. consumers' = [consumers EXCEPT ![p] = k] /\ idle' = idle \ S
      /\ UNCHANGED relayVars /\ UNCHANGED <<cursor, pel, completed, faults, retries>>
  BY <1>1, <1>3 DEF Reclaim
<1>5. k \in [pc : {"sleep", "read", "handle", "xack"}, batch : SUBSET (1..cursor)]
  BY <1>2, <1>3, GroupFacts
<1>6. k.pc # "xack" /\ (k.pc = "read" => Cardinality(k.batch) < Batch[p])
  BY <1>3
<1>7. k.pc = "handle" => k.batch # {}
  <2>1. Cardinality({}) < Batch[p]
    BY FS_EmptySet, DeliveryAssumption
  <2> QED BY <1>3, <2>1
<1>8. GoneIsCompleted'
  BY <1>4 DEF OutboxInv, GoneIsCompleted
<1>9. cursor' \in cursor..Len(stream) /\ pel' \subseteq 1..cursor' /\ idle' \subseteq pel'
      /\ completed \subseteq completed' /\ completed' \subseteq 1..cursor'
      /\ faults' \in 0..MaxFaults /\ retries' \in 0..MaxRetries
  BY <1>4, GroupFacts
<1> QED BY <1>4, <1>5, <1>6, <1>7, <1>8, <1>9, GroupFrame

\* What a read of new entries does to the cursor and the pending list.
LEMMA ReadBounds ==
    ASSUME OutboxInv, NEW p \in Process, consumers[p].pc = "read"
    PROVE  /\ ReadUpTo(p) \in cursor..Len(stream)
           /\ Fresh(p) = cursor + 1 .. ReadUpTo(p)
           /\ pel \cup Fresh(p) \subseteq 1..ReadUpTo(p)
           /\ (1..ReadUpTo(p)) \ (pel \cup Fresh(p)) = (1..cursor) \ pel
<1>1. PICK c \in Nat : c = Cardinality(consumers[p].batch) /\ c < Batch[p]
  <2>1. IsFiniteSet(1..cursor)
    <3>1. cursor \in Int /\ 1 \in Int
      BY GroupFacts
    <3> QED BY <3>1, FS_Interval
  <2>2. IsFiniteSet(consumers[p].batch)
    BY <2>1, GroupFacts, FS_Subset
  <2> QED BY <2>2, GroupFacts, FS_CardinalityType
<1>2. PICK n \in Nat : n = Batch[p] - c
  BY <1>1, DeliveryAssumption
<1>3. cursor + Batch[p] - Cardinality(consumers[p].batch) = cursor + n
  BY <1>1, <1>2, GroupFacts, DeliveryAssumption
<1>4. ReadUpTo(p) = Min({Len(stream), cursor + n})
  BY <1>3 DEF ReadUpTo
<1>5. ReadUpTo(p) \in cursor..Len(stream)
  BY <1>4, GroupFacts, ReadUpToBound
<1>6. PICK u \in cursor..Len(stream) : u = ReadUpTo(p)
  BY <1>5
<1>7. PICK d \in Nat : d = cursor
  BY GroupFacts
<1>8. pel \subseteq 1..d /\ u \in Nat /\ d <= u
  BY <1>6, <1>7, GroupFacts
<1>9. Fresh(p) = d + 1 .. u
  BY <1>6, <1>7 DEF Fresh
<1>10. pel \cup (d + 1 .. u) \subseteq 1..u
  <2>1. 1..d \subseteq 1..u /\ d + 1 .. u \subseteq 1..u
    BY <1>8
  <2> QED BY <1>8, <2>1
<1>11. (1..u) \ (pel \cup (d + 1 .. u)) = (1..d) \ pel
  BY <1>8
<1> QED BY <1>6, <1>7, <1>9, <1>10, <1>11

\* A read hands new entries out to the consumer that asked.
LEMMA ReadKeeps ==
    ASSUME OutboxInv, NEW p \in Process, Read(p)
    PROVE  OutboxInv'
<1>1. consumers[p].pc = "read"
  BY DEF Read
<1>2. PICK S : S = consumers[p].batch \cup Fresh(p)
  OBVIOUS
<1>3. PICK k : k = IF S = {} THEN ConsumerAsleep ELSE [pc |-> "handle", batch |-> S]
  OBVIOUS
<1>4. consumers' = [consumers EXCEPT ![p] = k] /\ cursor' = ReadUpTo(p)
      /\ pel' = pel \cup Fresh(p) /\ UNCHANGED relayVars
      /\ UNCHANGED <<idle, completed, faults, retries>>
  BY <1>2, <1>3 DEF Read
<1>5. cursor' \in cursor..Len(stream) /\ pel' \subseteq 1..cursor'
      /\ Fresh(p) \subseteq 1..cursor' /\ (1..cursor') \ pel' = (1..cursor) \ pel
  BY <1>1, <1>4, ReadBounds
<1>6. 1..cursor \subseteq 1..cursor' /\ consumers[p].batch \subseteq 1..cursor
  BY <1>5, GroupFacts
<1>7. S \subseteq 1..cursor'
  BY <1>2, <1>5, <1>6
<1>8. k \in [pc : {"sleep", "read", "handle", "xack"}, batch : SUBSET (1..cursor')]
      /\ k.pc \in {"sleep", "handle"} /\ (k.pc = "handle" => k.batch # {})
  BY <1>3, <1>7 DEF ConsumerAsleep
<1>9. idle' \subseteq pel' /\ completed \subseteq completed' /\ completed' \subseteq 1..cursor'
      /\ faults' \in 0..MaxFaults /\ retries' \in 0..MaxRetries
  BY <1>4, <1>6, GroupFacts
<1>10. GoneIsCompleted'
  BY <1>4, <1>5 DEF OutboxInv, GoneIsCompleted
<1> QED BY <1>4, <1>5, <1>8, <1>9, <1>10, GroupFrame

\* The reply of a poll was lost: what it handed out stays pending.
LEMMA PollFailsKeeps ==
    ASSUME OutboxInv, NEW p \in Process, PollFails(p)
    PROVE  OutboxInv'
<1>1. PICK k : k = ConsumerAsleep
  OBVIOUS
<1>2. k \in [pc : {"sleep", "read", "handle", "xack"}, batch : SUBSET (1..cursor')]
      /\ k.pc = "sleep"
  BY <1>1 DEF ConsumerAsleep
<1>3. consumers' = [consumers EXCEPT ![p] = k] /\ UNCHANGED relayVars /\ Fault
      /\ UNCHANGED <<completed, retries>>
  BY <1>1 DEF PollFails
<1>4. faults' \in 0..MaxFaults /\ retries' \in 0..MaxRetries
  BY <1>3, FaultCounted DEF OutboxInv, TypeOK
<1>5. CASE idle' = idle \ Reclaimed(p) /\ UNCHANGED <<cursor, pel>>
  <2>1. cursor' \in cursor..Len(stream) /\ pel' \subseteq 1..cursor' /\ idle' \subseteq pel'
        /\ completed \subseteq completed' /\ completed' \subseteq 1..cursor'
    BY <1>3, <1>5, GroupFacts
  <2>2. GoneIsCompleted'
    BY <1>3, <1>5 DEF OutboxInv, GoneIsCompleted
  <2> QED BY <1>2, <1>3, <1>4, <2>1, <2>2, GroupFrame
<1>6. CASE consumers[p].pc = "read" /\ cursor' = ReadUpTo(p) /\ pel' = pel \cup Fresh(p)
           /\ idle' = idle
  <2>1. cursor' \in cursor..Len(stream) /\ pel' \subseteq 1..cursor'
        /\ (1..cursor') \ pel' = (1..cursor) \ pel
    BY <1>6, ReadBounds
  <2>2. idle' \subseteq pel' /\ completed \subseteq completed' /\ completed' \subseteq 1..cursor'
    BY <1>3, <1>6, <2>1, GroupFacts
  <2>3. GoneIsCompleted'
    BY <1>3, <2>1 DEF OutboxInv, GoneIsCompleted
  <2> QED BY <1>2, <1>3, <1>4, <2>1, <2>2, <2>3, GroupFrame
<1> QED BY <1>5, <1>6 DEF PollFails

\* The handler completed the entry at hand.
LEMMA CompleteKeeps ==
    ASSUME OutboxInv, NEW p \in Process, Complete(p)
    PROVE  OutboxInv'
<1>1. PICK k : k = [consumers[p] EXCEPT !.pc = "xack"]
  OBVIOUS
<1>2. k \in ConsumerTask /\ k.pc = "xack" /\ k.batch = consumers[p].batch
  BY <1>1, GroupFacts DEF ConsumerTask
<1>3. k.batch # {} /\ Min(k.batch) \in k.batch /\ k.batch \subseteq 1..cursor
  BY <1>2, GroupFacts DEF Complete
<1>4. consumers' = [consumers EXCEPT ![p] = k] /\ UNCHANGED relayVars
      /\ completed' = completed \cup {Min(k.batch)}
      /\ UNCHANGED <<cursor, pel, idle, faults, retries>>
  BY <1>1, <1>2 DEF Complete
<1>5. cursor' \in cursor..Len(stream) /\ pel' \subseteq 1..cursor' /\ idle' \subseteq pel'
      /\ completed \subseteq completed' /\ completed' \subseteq 1..cursor'
      /\ faults' \in 0..MaxFaults /\ retries' \in 0..MaxRetries
  BY <1>3, <1>4, GroupFacts
<1>6. GoneIsCompleted'
  BY <1>4 DEF OutboxInv, GoneIsCompleted
<1>7. k \in [pc : {"sleep", "read", "handle", "xack"}, batch : SUBSET (1..cursor')]
  BY <1>2, <1>4 DEF ConsumerTask
<1>8. Min(k.batch) \in completed'
  BY <1>4
<1> QED BY <1>2, <1>3, <1>4, <1>5, <1>6, <1>7, <1>8, GroupFrame

\* The handler asked for the entry again.
LEMMA RetryKeeps ==
    ASSUME OutboxInv, NEW p \in Process, Retry(p)
    PROVE  OutboxInv'
<1>1. PICK k : k = AfterEntry(consumers[p])
  OBVIOUS
<1>2. k \in ConsumerTask /\ k.pc \in {"handle", "sleep"} /\ (k.pc = "handle" => k.batch # {})
  BY <1>1, GroupFacts, AfterEntryTask
<1>3. consumers' = [consumers EXCEPT ![p] = k] /\ UNCHANGED relayVars
      /\ UNCHANGED <<cursor, pel, idle, completed, faults>>
  BY <1>1 DEF Retry
<1>4. retries' \in 0..MaxRetries
  BY GroupFacts, DeliveryAssumption DEF Retry
<1>5. cursor' \in cursor..Len(stream) /\ pel' \subseteq 1..cursor' /\ idle' \subseteq pel'
      /\ completed \subseteq completed' /\ completed' \subseteq 1..cursor'
      /\ faults' \in 0..MaxFaults
  BY <1>3, GroupFacts
<1>6. GoneIsCompleted'
  BY <1>3 DEF OutboxInv, GoneIsCompleted
<1>7. k \in [pc : {"sleep", "read", "handle", "xack"}, batch : SUBSET (1..cursor')]
  BY <1>2, <1>3 DEF ConsumerTask
<1> QED BY <1>2, <1>3, <1>4, <1>5, <1>6, <1>7, GroupFrame

\* An entry leaves the group after a handler completed it, or stays when the
\* acknowledgement did not reach Redis.
LEMMA AckKeeps ==
    ASSUME OutboxInv, NEW p \in Process, consumers[p].pc = "xack",
           Removed(Min(consumers[p].batch)) \/ UNCHANGED <<pel, idle>>,
           consumers' = [consumers EXCEPT ![p] = AfterEntry(@)],
           UNCHANGED relayVars, UNCHANGED <<cursor, completed, retries>>,
           faults' \in 0..MaxFaults
    PROVE  OutboxInv'
<1>1. PICK k : k = AfterEntry(consumers[p])
  OBVIOUS
<1>2. k \in ConsumerTask /\ k.pc \in {"handle", "sleep"} /\ (k.pc = "handle" => k.batch # {})
  BY <1>1, GroupFacts, AfterEntryTask
<1>3. consumers' = [consumers EXCEPT ![p] = k]
  BY <1>1
<1>4. pel' \subseteq pel /\ idle' \subseteq pel' /\ pel \ pel' \subseteq completed
  BY GroupFacts DEF Removed
<1>5. cursor' \in cursor..Len(stream) /\ pel' \subseteq 1..cursor'
      /\ completed \subseteq completed' /\ completed' \subseteq 1..cursor'
      /\ retries' \in 0..MaxRetries
  BY <1>4, GroupFacts
<1>6. GoneIsCompleted'
  <2>1. (1..cursor) \ pel' \subseteq ((1..cursor) \ pel) \cup (pel \ pel')
    OBVIOUS
  <2>2. (1..cursor) \ pel \subseteq completed
    BY DEF OutboxInv, GoneIsCompleted
  <2>3. (1..cursor) \ pel' \subseteq completed
    BY <1>4, <2>1, <2>2
  <2> QED BY <2>3 DEF GoneIsCompleted
<1>7. k \in [pc : {"sleep", "read", "handle", "xack"}, batch : SUBSET (1..cursor')]
  BY <1>2 DEF ConsumerTask
<1> QED BY <1>2, <1>3, <1>4, <1>5, <1>6, <1>7, GroupFrame

\* XACK, answered or not.
LEMMA XackKeeps ==
    ASSUME OutboxInv, NEW p \in Process, Xack(p) \/ XackFails(p)
    PROVE  OutboxInv'
<1>1. CASE Xack(p)
  <2>1. faults' \in 0..MaxFaults
    BY <1>1, GroupFacts DEF Xack
  <2> QED BY <1>1, <2>1, AckKeeps DEF Xack
<1>2. CASE XackFails(p)
  <2>1. faults' \in 0..MaxFaults
    BY <1>2, FaultCounted DEF XackFails, OutboxInv
  <2> QED BY <1>2, <2>1, AckKeeps DEF XackFails
<1> QED BY <1>1, <1>2

\* A process starts again with both its tasks asleep.
LEMMA CrashKeeps ==
    ASSUME OutboxInv, NEW p \in Process, Crash(p)
    PROVE  OutboxInv'
<1>1. /\ relays' = [relays EXCEPT ![p] = RelayAsleep]
      /\ consumers' = [consumers EXCEPT ![p] = ConsumerAsleep]
      /\ UNCHANGED <<outbox, markers, stream, cursor, pel, idle, completed, retries>>
      /\ faults' \in 0..MaxFaults
  BY FaultCounted DEF Crash, OutboxInv
<1>2. relays \in [Process -> RelayTask] /\ consumers \in [Process -> ConsumerTask]
  BY DEF OutboxInv, TypeOK
<1>3. RelayAsleep \in RelayTask /\ RelayAsleep.pc = "sleep"
  BY DEF RelayAsleep, RelayTask
<1>4. ConsumerAsleep \in ConsumerTask /\ ConsumerAsleep.pc = "sleep"
  BY DEF ConsumerAsleep, ConsumerTask
<1>5. TypeOK'
  <2>1. relays' \in [Process -> RelayTask] /\ consumers' \in [Process -> ConsumerTask]
    BY <1>1, <1>2, <1>3, <1>4
  <2> QED BY <1>1, <2>1 DEF OutboxInv, TypeOK, RelayTask, ConsumerTask
<1>6. MarkersMatch' /\ EnqueuedOnce' /\ PublishedIsOnStream' /\ GoneIsCompleted'
  BY <1>1 DEF OutboxInv, MarkersMatch, EnqueuedOnce, PublishedIsOnStream, GoneIsCompleted
<1>7. RelaysOK'
  <2>1. ASSUME NEW q \in Process PROVE RelayOK(relays[q])'
    <3>1. relays'[q] = RelayAsleep \/ relays'[q] = relays[q]
      BY <1>1, <1>2
    <3>2. RelayOK(relays[q])
      BY DEF OutboxInv, RelaysOK
    <3> QED BY <1>1, <1>3, <3>1, <3>2 DEF RelayOK
  <2> QED BY <2>1 DEF RelaysOK
<1>8. ConsumersOK'
  <2>1. ASSUME NEW q \in Process PROVE ConsumerOK(q, consumers[q])'
    <3>1. consumers'[q] = ConsumerAsleep \/ consumers'[q] = consumers[q]
      BY <1>1, <1>2
    <3>2. ConsumerOK(q, consumers[q])
      BY DEF OutboxInv, ConsumersOK
    <3> QED BY <1>1, <1>4, <3>1, <3>2 DEF ConsumerOK
  <2> QED BY <2>1 DEF ConsumersOK
<1> QED BY <1>5, <1>6, <1>7, <1>8 DEF OutboxInv

\* Every step keeps the invariant.
LEMMA OutboxStep == OutboxInv /\ [Next]_vars => OutboxInv'
<1> SUFFICES ASSUME OutboxInv, [Next]_vars PROVE OutboxInv'
  OBVIOUS
<1>1. ASSUME NEW m \in Message, Stage(m) PROVE OutboxInv'
  BY <1>1, StageKeeps
<1>2. ASSUME NEW p \in Process, RelayStep(p) \/ EnqueueFails(p) \/ RelayDies(p)
      PROVE  OutboxInv'
  BY <1>2, LoadOutboxKeeps, EnqueueKeeps, AcknowledgeOutboxKeeps, EnqueueFailsKeeps,
     RelayDiesKeeps DEF RelayStep
<1>3. ASSUME NEW p \in Process, ConsumerStep(p) \/ PollFails(p) \/ XackFails(p) \/ Crash(p)
      PROVE  OutboxInv'
  BY <1>3, ReclaimKeeps, ReadKeeps, CompleteKeeps, RetryKeeps, XackKeeps, PollFailsKeeps,
     CrashKeeps DEF ConsumerStep
<1>4. ASSUME NEW i \in DOMAIN stream, BecomeIdle(i) PROVE OutboxInv'
  BY <1>4, BecomeIdleKeeps
<1>5. ASSUME UNCHANGED vars PROVE OutboxInv'
  <2>1. UNCHANGED <<outbox, relays, markers, stream>> /\ UNCHANGED <<faults, retries>>
        /\ UNCHANGED <<cursor, pel, idle, consumers, completed>>
    BY <1>5 DEF vars, relayVars, groupVars
  <2> QED BY <2>1 DEF OutboxInv, TypeOK, RelayTask, ConsumerTask, MarkersMatch, EnqueuedOnce,
             PublishedIsOnStream, GoneIsCompleted, RelaysOK, RelayOK, ConsumersOK, ConsumerOK
<1> QED BY <1>1, <1>2, <1>3, <1>4, <1>5 DEF Next

----------------------------------------------------------------------------
(* The theorems.                                                           *)

\* OutboxInv holds in every reachable state.
THEOREM OutboxInvariant == Spec => []OutboxInv
BY OutboxInit, OutboxStep, PTL DEF Spec

\* Types, and the relations between the cursor, the pending list and the
\* idle entries of the group (redis_transport.py).
THEOREM OutboxType == Spec => []TypeOK
BY OutboxInvariant, PTL DEF OutboxInv

\* _ENQUEUE_SCRIPT (redis_transport.py): the stream holds at most one entry
\* for a message, however many relays race, crash or lose replies.
THEOREM OutboxOnce == Spec => []EnqueuedOnce
BY OutboxInvariant, PTL DEF OutboxInv

\* relay_pending (outbox_application.py): a row marked published has its
\* entry on the stream.
THEOREM OutboxPublished == Spec => []PublishedIsOnStream
BY OutboxInvariant, PTL DEF OutboxInv

\* handle_once (worker_consumer.py): an entry that left the group was
\* completed by a handler.
THEOREM OutboxCompleted == Spec => []GoneIsCompleted
BY OutboxInvariant, PTL DEF OutboxInv

----------------------------------------------------------------------------
(* The refinement of EntryDelivery.                                        *)

\* The promised status of the entry at position i.
PositionStatus(i) == IF i > cursor THEN "ready" ELSE IF i \in pel THEN "pending" ELSE "acked"

\* The entry of a message is at one position, so that its status is the
\* position's.
LEMMA StatusAt ==
    ASSUME OutboxInv, NEW i \in 1..Len(stream)
    PROVE  stream[i] \in Message /\ Status[stream[i]] = PositionStatus(i)
<1>1. stream \in Seq(Message) /\ DOMAIN stream = 1..Len(stream)
  BY DEF OutboxInv, TypeOK
<1>2. stream[i] \in Message /\ stream[i] \in Range(stream)
  BY <1>1 DEF Range
<1>3. \A j \in DOMAIN stream : stream[j] = stream[i] => j = i
  BY <1>1 DEF OutboxInv, EnqueuedOnce, IsInjective
<1>4. (CHOOSE j \in DOMAIN stream : stream[j] = stream[i]) = i
  BY <1>1, <1>3
<1> QED BY <1>2, <1>4 DEF Status, PositionStatus

\* A message without an entry has status "none".
LEMMA StatusNone ==
    ASSUME NEW m \in Message, m \notin Range(stream)
    PROVE  Status[m] = "none"
BY DEF Status

\* The same two facts after a step.
LEMMA StatusAfter ==
    ASSUME OutboxInv'
    PROVE  /\ \A i \in 1..Len(stream') :
                 /\ stream'[i] \in Message
                 /\ Status'[stream'[i]] =
                       IF i > cursor' THEN "ready" ELSE IF i \in pel' THEN "pending" ELSE "acked"
           /\ \A m \in Message : m \notin Range(stream') => Status'[m] = "none"
<1>1. ASSUME NEW i \in 1..Len(stream')
      PROVE  /\ stream'[i] \in Message
             /\ Status'[stream'[i]] =
                   IF i > cursor' THEN "ready" ELSE IF i \in pel' THEN "pending" ELSE "acked"
  <2>1. stream' \in Seq(Message) /\ DOMAIN stream' = 1..Len(stream')
    BY DEF OutboxInv, TypeOK
  <2>2. stream'[i] \in Message /\ stream'[i] \in Range(stream')
    BY <2>1 DEF Range
  <2>3. \A j \in DOMAIN stream' : stream'[j] = stream'[i] => j = i
    BY <2>1 DEF OutboxInv, EnqueuedOnce, IsInjective
  <2>4. (CHOOSE j \in DOMAIN stream' : stream'[j] = stream'[i]) = i
    BY <2>1, <2>3
  <2> QED BY <2>2, <2>4 DEF Status
<1>2. ASSUME NEW m \in Message, m \notin Range(stream') PROVE Status'[m] = "none"
  BY <1>2 DEF Status
<1> QED BY <1>1, <1>2

\* A step that appends no entry, moves no cursor and acknowledges nothing.
LEMMA StatusStutters ==
    ASSUME UNCHANGED <<stream, cursor, pel>>
    PROVE  Status' = Status
BY DEF Status

\* The script appends the entry of a message that had none.
LEMMA ScriptIsEnqueue ==
    ASSUME OutboxInv, OutboxInv', NEW m \in Message, EnqueueScript(m),
           UNCHANGED <<cursor, pel>>
    PROVE  [Delivery!DeliveryNext]_Status
<1>1. CASE m \in markers
  BY <1>1, StatusStutters DEF EnqueueScript
<1>2. CASE m \notin markers
  <2>1. m \notin Range(stream)
    BY <1>2 DEF OutboxInv, MarkersMatch
  <2>2. stream \in Seq(Message) /\ Len(stream) \in Nat /\ cursor \in 0..Len(stream)
    BY DEF OutboxInv, TypeOK
  <2>3. /\ Len(stream') = Len(stream) + 1
        /\ \A i \in 1..Len(stream) : stream'[i] = stream[i]
        /\ stream'[Len(stream) + 1] = m
        /\ Range(stream') = Range(stream) \cup {m}
        /\ DOMAIN stream = 1..Len(stream)
    BY <1>2, <2>2, AppendIs DEF EnqueueScript
  <2>4. ASSUME NEW n \in Message
        PROVE  Status'[n] = IF n = m THEN "ready" ELSE Status[n]
    <3>1. CASE n = m
      <4>1. Len(stream) + 1 \in 1..Len(stream') /\ Len(stream) + 1 > cursor'
        BY <2>2, <2>3
      <4>2. Status'[stream'[Len(stream) + 1]] = "ready"
        BY <4>1, StatusAfter
      <4> QED BY <2>3, <3>1, <4>2
    <3>2. CASE n # m /\ n \in Range(stream)
      <4>1. PICK i \in 1..Len(stream) : stream[i] = n
        BY <2>3, <3>2 DEF Range
      <4>2. i \in 1..Len(stream') /\ stream'[i] = n
        BY <2>2, <2>3, <4>1
      <4>3. Status'[n] = PositionStatus(i)
        BY <4>2, StatusAfter DEF PositionStatus
      <4>4. Status[n] = PositionStatus(i)
        BY <4>1, StatusAt
      <4> QED BY <3>2, <4>3, <4>4
    <3>3. CASE n # m /\ n \notin Range(stream)
      BY <2>3, <3>3, StatusNone, StatusAfter
    <3> QED BY <3>1, <3>2, <3>3
  <2>5. Status[m] = "none"
    BY <2>1, StatusNone
  <2>6. Status = [n \in Message |-> Status[n]] /\ Status' = [n \in Message |-> Status'[n]]
    BY DEF Status
  <2>7. Status' = [Status EXCEPT ![m] = "ready"]
    BY <2>4, <2>6
  <2>8. Delivery!Enqueue(m)
    BY <2>5, <2>7 DEF Delivery!Enqueue
  <2> QED BY <2>8 DEF Delivery!DeliveryNext
<1> QED BY <1>1, <1>2

\* A read that hands something out delivers the messages of its positions.
LEMMA ReadIsDeliver ==
    ASSUME OutboxInv, OutboxInv', NEW p \in Process, consumers[p].pc = "read",
           cursor' = ReadUpTo(p), pel' = pel \cup Fresh(p), stream' = stream
    PROVE  [Delivery!DeliveryNext]_Status
<1>1. stream \in Seq(Message) /\ Len(stream) \in Nat /\ cursor \in 0..Len(stream)
      /\ DOMAIN stream = 1..Len(stream)
  BY DEF OutboxInv, TypeOK
<1>2. cursor' \in cursor..Len(stream) /\ Fresh(p) = cursor + 1 .. cursor'
  BY ReadBounds
<1> DEFINE S == {stream[i] : i \in Fresh(p)}
<1>3. Fresh(p) \subseteq 1..Len(stream)
  BY <1>1, <1>2
<1>4. ASSUME NEW m \in S PROVE m \in Message /\ Status[m] = "ready"
  <2>1. PICK i \in Fresh(p) : m = stream[i]
    OBVIOUS
  <2>2. i \in 1..Len(stream) /\ i > cursor
    BY <1>1, <1>2, <1>3
  <2> QED BY <2>1, <2>2, StatusAt DEF PositionStatus
<1>5. ASSUME NEW m \in Message
      PROVE  Status'[m] = IF m \in S THEN "pending" ELSE Status[m]
  <2>1. CASE m \notin Range(stream)
    <3>1. m \notin S
      BY <1>1, <1>3, <2>1 DEF Range
    <3> QED BY <2>1, <3>1, StatusNone, StatusAfter
  <2>2. CASE m \in Range(stream)
    <3>1. PICK i \in 1..Len(stream) : stream[i] = m
      BY <1>1, <2>2 DEF Range
    <3>2. Status[m] = PositionStatus(i)
      BY <3>1, StatusAt
    <3>3. Status'[m] = IF i > cursor' THEN "ready" ELSE IF i \in pel' THEN "pending" ELSE "acked"
      BY <3>1, StatusAfter
    <3>4. m \in S <=> i \in Fresh(p)
      <4>1. ASSUME NEW j \in Fresh(p), stream[j] = m PROVE j = i
        BY <1>1, <1>3, <3>1, <4>1 DEF OutboxInv, EnqueuedOnce, IsInjective
      <4> QED BY <3>1, <4>1
    <3>5. CASE i \in Fresh(p)
      <4>1. ~(i > cursor') /\ i \in pel'
        BY <1>1, <1>2, <3>5
      <4> QED BY <3>3, <3>4, <3>5, <4>1
    <3>6. CASE i \notin Fresh(p)
      <4>1. (i > cursor') <=> (i > cursor)
        BY <1>1, <1>2, <3>6
      <4>2. (i \in pel') <=> (i \in pel)
        BY <3>6
      <4> HIDE DEF S
      <4> QED BY <3>2, <3>3, <3>4, <3>6, <4>1, <4>2 DEF PositionStatus
    <3> QED BY <3>5, <3>6
  <2> QED BY <2>1, <2>2
<1>6. Status' = [m \in Message |-> IF m \in S THEN "pending" ELSE Status[m]]
  <2>1. Status' = [n \in Message |-> Status'[n]]
    BY DEF Status
  <2> HIDE DEF S
  <2> QED BY <1>5, <2>1
<1>7. CASE S # {}
  <2> HIDE DEF S
  <2>1. Delivery!Deliver(S) /\ S \in SUBSET Message
    BY <1>4, <1>6, <1>7 DEF Delivery!Deliver
  <2> QED BY <2>1 DEF Delivery!DeliveryNext
<1>8. CASE S = {}
  <2>1. Status = [n \in Message |-> Status[n]]
    BY DEF Status
  <2> HIDE DEF S
  <2>2. Status' = Status
    BY <1>6, <1>8, <2>1
  <2> QED BY <2>2
<1> QED BY <1>7, <1>8

\* An acknowledgement takes a pending entry out of the group, and does
\* nothing to an entry that another consumer acknowledged.
LEMMA RemovalIsAck ==
    ASSUME OutboxInv, OutboxInv', NEW i \in 1..cursor, pel' = pel \ {i},
           UNCHANGED <<stream, cursor>>
    PROVE  [Delivery!DeliveryNext]_Status
<1>1. stream \in Seq(Message) /\ Len(stream) \in Nat /\ cursor \in 0..Len(stream)
      /\ DOMAIN stream = 1..Len(stream)
  BY DEF OutboxInv, TypeOK
<1>2. i \in 1..Len(stream) /\ ~(i > cursor)
  BY <1>1
<1>3. CASE i \notin pel
  <2>1. pel' = pel
    BY <1>3
  <2> QED BY <2>1, StatusStutters
<1>4. CASE i \in pel
  <2>1. PICK e \in Message : e = stream[i]
    BY <1>2, StatusAt
  <2>2. Status[e] = "pending"
    BY <1>2, <1>4, <2>1, StatusAt DEF PositionStatus
  <2>3. ASSUME NEW m \in Message
        PROVE  Status'[m] = IF m = e THEN "acked" ELSE Status[m]
    <3>1. CASE m \notin Range(stream)
      <4>1. m # e
        BY <1>1, <1>2, <2>1, <3>1 DEF Range
      <4> QED BY <3>1, <4>1, StatusNone, StatusAfter
    <3>2. CASE m \in Range(stream)
      <4>1. PICK j \in 1..Len(stream) : stream[j] = m
        BY <1>1, <3>2 DEF Range
      <4>2. Status[m] = PositionStatus(j)
        BY <4>1, StatusAt
      <4>3. Status'[m] = IF j > cursor THEN "ready" ELSE IF j \in pel \ {i} THEN "pending" ELSE "acked"
        BY <4>1, StatusAfter
      <4>4. m = e <=> j = i
        BY <1>1, <1>2, <2>1, <4>1 DEF OutboxInv, EnqueuedOnce, IsInjective
      <4> QED BY <1>2, <4>2, <4>3, <4>4 DEF PositionStatus
    <3> QED BY <3>1, <3>2
  <2>4. Status = [n \in Message |-> Status[n]] /\ Status' = [n \in Message |-> Status'[n]]
    BY DEF Status
  <2>5. Status' = [Status EXCEPT ![e] = "acked"]
    BY <2>3, <2>4
  <2>6. Delivery!Ack(e)
    BY <2>2, <2>5 DEF Delivery!Ack
  <2> QED BY <2>6 DEF Delivery!DeliveryNext
<1> QED BY <1>3, <1>4

\* Every step of the relays and the group is a step of the promised delivery,
\* or changes nothing of it.
LEMMA DeliveryStep ==
    ASSUME OutboxInv, OutboxInv', [Next]_vars
    PROVE  [Delivery!DeliveryNext]_Status
<1>1. CASE UNCHANGED <<stream, cursor, pel>>
  BY <1>1, StatusStutters
<1>2. ASSUME NEW p \in Process, Enqueue(p) \/ EnqueueFails(p)
      PROVE  [Delivery!DeliveryNext]_Status
  <2>1. PICK m \in Message : m = Min(relays[p].todo)
    BY <1>2, RelayFacts DEF Enqueue, EnqueueFails
  <2>2. UNCHANGED <<cursor, pel>>
    BY <1>2 DEF Enqueue, EnqueueFails, groupVars
  <2>3. EnqueueScript(m) \/ stream' = stream
    BY <1>2, <2>1 DEF Enqueue, EnqueueFails
  <2> QED BY <1>1, <2>2, <2>3, ScriptIsEnqueue
<1>3. ASSUME NEW p \in Process, Read(p) \/ PollFails(p)
      PROVE  [Delivery!DeliveryNext]_Status
  <2>1. stream' = stream
    BY <1>3 DEF Read, PollFails, relayVars
  <2>2. \/ UNCHANGED <<cursor, pel>>
        \/ consumers[p].pc = "read" /\ cursor' = ReadUpTo(p) /\ pel' = pel \cup Fresh(p)
    BY <1>3 DEF Read, PollFails
  <2> QED BY <1>1, <2>1, <2>2, ReadIsDeliver
<1>4. ASSUME NEW p \in Process, Xack(p) \/ XackFails(p)
      PROVE  [Delivery!DeliveryNext]_Status
  <2>1. PICK i \in 1..cursor : i = Min(consumers[p].batch)
    BY <1>4, GroupFacts DEF Xack, XackFails
  <2>2. UNCHANGED <<stream, cursor>> /\ (pel' = pel \ {i} \/ pel' = pel)
    BY <1>4, <2>1 DEF Xack, XackFails, Removed, relayVars
  <2> QED BY <1>1, <2>2, RemovalIsAck
<1>5. ASSUME NEW p \in Process,
             LoadOutbox(p) \/ AcknowledgeOutbox(p) \/ RelayDies(p) \/ Reclaim(p) \/ Complete(p)
             \/ Retry(p) \/ Crash(p)
      PROVE  UNCHANGED <<stream, cursor, pel>>
  BY <1>5 DEF LoadOutbox, AcknowledgeOutbox, RelayDies, Reclaim, Complete, Retry, Crash,
     relayVars, groupVars
<1>6. ASSUME NEW m \in Message, Stage(m) PROVE UNCHANGED <<stream, cursor, pel>>
  BY <1>6 DEF Stage, groupVars
<1>7. ASSUME NEW i \in DOMAIN stream, BecomeIdle(i) PROVE UNCHANGED <<stream, cursor, pel>>
  BY <1>7 DEF BecomeIdle, relayVars
<1>8. ASSUME UNCHANGED vars PROVE UNCHANGED <<stream, cursor, pel>>
  BY <1>8 DEF vars, relayVars, groupVars
<1> QED BY <1>1, <1>2, <1>3, <1>4, <1>5, <1>6, <1>7, <1>8 DEF Next, RelayStep, ConsumerStep

\* redis_transport.py and worker_consumer.py: a message reaches the group at
\* most once as an entry, is handed out, and leaves the group only by an
\* acknowledgement: the safety part of EntryDelivery.
THEOREM OutboxDelivers == Spec => Delivery!DeliverySafety
<1>1. Init => Delivery!DeliveryInit
  <2>1. ASSUME Init PROVE Range(stream) = {}
    BY <2>1 DEF Init, Range
  <2> QED BY <2>1 DEF Delivery!DeliveryInit, Status
<1>2. OutboxInv /\ OutboxInv' /\ [Next]_vars => [Delivery!DeliveryNext]_Status
  BY DeliveryStep
<1> QED BY <1>1, <1>2, OutboxInvariant, PTL DEF Spec, Delivery!DeliverySafety
=============================================================================
