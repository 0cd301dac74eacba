---------------------------- MODULE OutboxProofs ----------------------------
(***************************************************************************)
(* Proofs about the transactional outbox, for any number of rows, relays   *)
(* and attempts, with or without storage transactions.                     *)
(***************************************************************************)
EXTENDS Outbox, TLAPS

(* What makes the properties inductive: rows are told apart by the time    *)
(* they were stored, so one row of a tick is in hand; a tick handles       *)
(* stored rows only; a row between publish and mark has been accepted; and *)
(* a row whose insert is outstanding is not stored yet.                    *)
TimesDiffer ==
  /\ \A r \in Stored : createdAt[r] < clock
  /\ \A q, r \in Stored : createdAt[q] = createdAt[r] => q = r

BatchIsStored == \A p \in Relays : batch[p] \subseteq Stored

MarkedIsAccepted ==
  \A p \in Relays, r \in Rows : pc[p] = "mark" /\ InHand(p, r) => r \in accepted

InsertingIsNew ==
  /\ \A r \in inserting : status[r] = "none"
  /\ txSupported => inserting = {}

IInv ==
  /\ TypeOK
  /\ TimesDiffer
  /\ BatchIsStored
  /\ MarkedIsAccepted
  /\ InsertingIsNew
  /\ PublishedWasAccepted
  /\ NoEventWithoutRecord
  /\ NoRecordWithoutEvent

LEMMA InitIInv == Init => IInv
<1> SUFFICES ASSUME Init PROVE IInv
  OBVIOUS
<1> USE DEF Init, Stored
<1>1. TypeOK
  BY DEF TypeOK
<1>2. QED
  BY <1>1 DEF IInv, TimesDiffer, BatchIsStored, MarkedIsAccepted,
       InsertingIsNew, PublishedWasAccepted, NoEventWithoutRecord,
       NoRecordWithoutEvent

(* Storing a row disturbs no row that is stored already.                   *)
LEMMA InsertRowStep ==
  ASSUME IInv, NEW r \in Rows, status[r] = "none", InsertRow(r)
  PROVE  /\ status' \in [Rows -> {"none", "pending", "published", "failed"}]
         /\ createdAt' \in [Rows -> Nat]
         /\ clock' \in Nat
         /\ Stored' = Stored \union {r}
         /\ TimesDiffer'
         /\ \A q \in Stored : createdAt'[q] = createdAt[q]
         /\ \A q \in Rows \ {r} : status'[q] = status[q]
         /\ status'[r] = "pending"
<1>1. /\ status' \in [Rows -> {"none", "pending", "published", "failed"}]
      /\ createdAt' \in [Rows -> Nat]
      /\ clock' \in Nat /\ clock' = clock + 1
      /\ \A q \in Rows \ {r} : status'[q] = status[q]
      /\ \A q \in Rows \ {r} : createdAt'[q] = createdAt[q]
      /\ status'[r] = "pending"
      /\ createdAt'[r] = clock
  BY DEF IInv, TypeOK, InsertRow
<1>2. Stored' = Stored \union {r}
  BY <1>1 DEF Stored
<1>3. \A q \in Stored : q # r /\ createdAt'[q] = createdAt[q]
  BY <1>1 DEF Stored
<1>4. TimesDiffer'
  <2>1. \A q \in Stored : createdAt'[q] < clock /\ createdAt'[q] \in Nat
    BY <1>3, <1>1 DEF IInv, TimesDiffer, Stored
  <2>2. \A q \in Stored' : createdAt'[q] < clock'
    BY <2>1, <1>1, <1>2 DEF IInv, TypeOK
  <2>3. \A q, s \in Stored' : createdAt'[q] = createdAt'[s] => q = s
    BY <2>1, <1>1, <1>2, <1>3 DEF IInv, TypeOK, TimesDiffer
  <2>4. QED
    BY <2>2, <2>3 DEF TimesDiffer
<1>5. QED
  BY <1>1, <1>2, <1>3, <1>4

LEMMA CommitTransactionStep ==
  ASSUME IInv, NEW r \in Rows, CommitTransaction(r)
  PROVE  IInv'
<1> USE DEF CommitTransaction
<1>1. status[r] = "none"
  BY DEF IInv, NoEventWithoutRecord, Stored, TypeOK
<1>2. InsertRow(r)
  OBVIOUS
<1>3. /\ status' \in [Rows -> {"none", "pending", "published", "failed"}]
      /\ createdAt' \in [Rows -> Nat]
      /\ clock' \in Nat
      /\ Stored' = Stored \union {r}
      /\ TimesDiffer'
      /\ \A q \in Stored : createdAt'[q] = createdAt[q]
      /\ \A q \in Rows \ {r} : status'[q] = status[q]
      /\ status'[r] = "pending"
  BY <1>1, <1>2, InsertRowStep
<1>4. TypeOK' /\ BatchIsStored'
  BY <1>3 DEF IInv, TypeOK, BatchIsStored
<1>5. MarkedIsAccepted'
  BY <1>3 DEF IInv, MarkedIsAccepted, InHand, BatchIsStored
<1>6. QED
  BY <1>3, <1>4, <1>5 DEF IInv, TypeOK, InsertingIsNew, PublishedWasAccepted,
       NoEventWithoutRecord, NoRecordWithoutEvent

LEMMA WriteRecordStep ==
  ASSUME IInv, NEW r \in Rows, WriteRecord(r)
  PROVE  IInv'
<1>1. status[r] = "none"
  BY DEF WriteRecord, IInv, NoEventWithoutRecord, Stored, TypeOK
<1>2. TypeOK' /\ BatchIsStored' /\ TimesDiffer' /\ MarkedIsAccepted'
  BY DEF WriteRecord, IInv, TypeOK, BatchIsStored, TimesDiffer, Stored,
         MarkedIsAccepted, InHand
<1>3. QED
  BY <1>1, <1>2 DEF WriteRecord, IInv, TypeOK, InsertingIsNew,
     PublishedWasAccepted, NoEventWithoutRecord, NoRecordWithoutEvent, Stored

LEMMA WriteRowStep ==
  ASSUME IInv, NEW r \in Rows, WriteRow(r)
  PROVE  IInv'
<1> USE DEF WriteRow
<1>1. status[r] = "none" /\ InsertRow(r)
  BY DEF IInv, InsertingIsNew
<1>2. /\ status' \in [Rows -> {"none", "pending", "published", "failed"}]
      /\ createdAt' \in [Rows -> Nat]
      /\ clock' \in Nat
      /\ Stored' = Stored \union {r}
      /\ TimesDiffer'
      /\ \A q \in Stored : createdAt'[q] = createdAt[q]
      /\ \A q \in Rows \ {r} : status'[q] = status[q]
      /\ status'[r] = "pending"
  BY <1>1, InsertRowStep
<1>3. TypeOK' /\ BatchIsStored'
  BY <1>2 DEF IInv, TypeOK, BatchIsStored
<1>4. MarkedIsAccepted'
  BY <1>2 DEF IInv, MarkedIsAccepted, InHand, BatchIsStored
<1>5. InsertingIsNew'
  BY <1>2 DEF IInv, TypeOK, InsertingIsNew
<1>6. QED
  BY <1>2, <1>3, <1>4, <1>5 DEF IInv, TypeOK, PublishedWasAccepted,
     NoEventWithoutRecord, NoRecordWithoutEvent, InsertingIsNew

LEMMA LoseRowStep ==
  ASSUME IInv, NEW r \in Rows, LoseRow(r)
  PROVE  IInv'
BY DEF LoseRow, IInv, TypeOK, TimesDiffer, BatchIsStored, MarkedIsAccepted,
   InHand, InsertingIsNew, PublishedWasAccepted, NoEventWithoutRecord,
   NoRecordWithoutEvent, Stored

(* A step of the relay that changes no row's being stored keeps every      *)
(* conjunct about the write half.                                          *)
LEMMA RelayKeepsStore ==
  ASSUME IInv, UNCHANGED store, Stored' = Stored,
         accepted' \subseteq Stored,
         status' \in [Rows -> {"none", "pending", "published", "failed"}]
  PROVE  /\ TimesDiffer'
         /\ InsertingIsNew'
         /\ NoEventWithoutRecord'
         /\ NoRecordWithoutEvent'
<1>1. \A r \in Rows : status[r] = "none" <=> status'[r] = "none"
  BY DEF Stored
<1>2. InsertingIsNew'
  BY <1>1 DEF IInv, TypeOK, InsertingIsNew, store
<1>3. QED
  BY <1>2 DEF IInv, TimesDiffer, NoEventWithoutRecord, NoRecordWithoutEvent,
     store

(* A relay has one row in hand.                                            *)
LEMMA OneInHand ==
  ASSUME IInv, NEW p \in Relays, NEW q \in Rows, NEW r \in Rows,
         InHand(p, q), InHand(p, r)
  PROVE  q = r
<1>1. createdAt[q] = createdAt[r]
  BY DEF InHand, IInv, TypeOK
<1>2. QED
  BY <1>1 DEF InHand, IInv, TimesDiffer, BatchIsStored

LEMMA FetchPendingStep ==
  ASSUME IInv, NEW p \in Relays, FetchPending(p)
  PROVE  IInv'
<1> USE DEF FetchPending
<1>1. PICK S \in SUBSET Pending :
        S # {} /\ batch' = [batch EXCEPT ![p] = S]
  OBVIOUS
<1>2. Stored' = Stored /\ Pending \subseteq Stored
  BY DEF Stored, Pending
<1>3. TypeOK' /\ BatchIsStored'
  BY <1>1, <1>2 DEF IInv, TypeOK, BatchIsStored, store, Pending
<1>4. MarkedIsAccepted'
  <2> SUFFICES ASSUME NEW q \in Relays, NEW r \in Rows,
                      pc'[q] = "mark", InHand(q, r)'
               PROVE  r \in accepted
    BY DEF MarkedIsAccepted
  <2>1. q # p /\ pc[q] = "mark" /\ batch'[q] = batch[q]
    BY <1>1 DEF IInv, TypeOK
  <2>2. QED
    BY <2>1 DEF InHand, IInv, MarkedIsAccepted, store
<1>5. QED
  BY <1>2, <1>3, <1>4, RelayKeepsStore
     DEF IInv, TypeOK, NoEventWithoutRecord, PublishedWasAccepted

LEMMA PublishStep ==
  ASSUME IInv, NEW p \in Relays, NEW r \in Rows, Publish(p, r)
  PROVE  IInv'
<1> USE DEF Publish
<1>1. r \in Stored /\ Stored' = Stored
  BY DEF InHand, IInv, BatchIsStored, Stored
<1>2. TypeOK' /\ BatchIsStored'
  BY <1>1 DEF IInv, TypeOK, BatchIsStored, store, InHand
<1>3. MarkedIsAccepted'
  <2> SUFFICES ASSUME NEW q \in Relays, NEW s \in Rows,
                      pc'[q] = "mark", InHand(q, s)'
               PROVE  s \in accepted'
    BY DEF MarkedIsAccepted
  <2>1. InHand(q, s)
    BY DEF InHand, store
  <2>2. CASE q = p
    BY <2>1, <2>2, OneInHand
  <2>3. CASE q # p
    BY <2>1, <2>3 DEF IInv, TypeOK, MarkedIsAccepted
  <2>4. QED
    BY <2>2, <2>3
<1>4. QED
  BY <1>1, <1>2, <1>3, RelayKeepsStore
     DEF IInv, TypeOK, NoEventWithoutRecord, PublishedWasAccepted

LEMMA PublishFailsStep ==
  ASSUME IInv, NEW p \in Relays, NEW r \in Rows, PublishFails(p, r)
  PROVE  IInv'
<1> USE DEF PublishFails
<1>1. r \in Stored /\ Stored' = Stored
  BY DEF InHand, IInv, BatchIsStored, Stored
<1>2. accepted \subseteq accepted' /\ accepted' \subseteq Stored
  BY <1>1 DEF IInv, NoEventWithoutRecord
<1>3. TypeOK' /\ BatchIsStored'
  BY <1>1, <1>2 DEF IInv, TypeOK, BatchIsStored, store, InHand, Stored
<1>4. MarkedIsAccepted'
  BY <1>2 DEF IInv, TypeOK, MarkedIsAccepted, InHand, store
<1>5. QED
  BY <1>1, <1>2, <1>3, <1>4, RelayKeepsStore
     DEF IInv, TypeOK, PublishedWasAccepted

(* Ending with a row in hand: the relay is not about to mark any longer.   *)
LEMMA NextRowStep ==
  ASSUME IInv, NEW p \in Relays, NEW r \in Rows, r \in batch[p],
         NextRow(p, r), UNCHANGED createdAt, accepted \subseteq accepted',
         Stored' = Stored
  PROVE  /\ pc' \in [Relays -> {"idle", "publish", "mark", "count", "write"}]
         /\ batch' \in [Relays -> SUBSET Rows]
         /\ \A q \in Relays : pc'[q] = "idle" <=> batch'[q] = {}
         /\ BatchIsStored'
         /\ MarkedIsAccepted'
<1>1. /\ pc' \in [Relays -> {"idle", "publish", "mark", "count", "write"}]
      /\ batch' \in [Relays -> SUBSET Rows]
      /\ \A q \in Relays \ {p} : pc'[q] = pc[q] /\ batch'[q] = batch[q]
      /\ pc'[p] = IF batch[p] = {r} THEN "idle" ELSE "publish"
      /\ batch'[p] = batch[p] \ {r}
  BY DEF IInv, TypeOK, NextRow
<1>2. pc'[p] = "idle" <=> batch'[p] = {}
  BY <1>1
<1>3. \A q \in Relays : pc'[q] = "idle" <=> batch'[q] = {}
  BY <1>1, <1>2 DEF IInv, TypeOK
<1>4. BatchIsStored'
  BY <1>1 DEF IInv, BatchIsStored
<1>5. MarkedIsAccepted'
  BY <1>1 DEF IInv, MarkedIsAccepted, InHand
<1>6. QED
  BY <1>1, <1>3, <1>4, <1>5

LEMMA MarkPublishedStep ==
  ASSUME IInv, NEW p \in Relays, NEW r \in Rows, MarkPublished(p, r)
  PROVE  IInv'
<1> USE DEF MarkPublished
<1>1. r \in batch[p] /\ r \in Stored /\ r \in accepted
  BY DEF InHand, IInv, BatchIsStored, MarkedIsAccepted
<1>2. /\ status' \in [Rows -> {"none", "pending", "published", "failed"}]
      /\ Stored' = Stored
  BY <1>1 DEF Stored, IInv, TypeOK
<1>3. TypeOK' /\ BatchIsStored' /\ MarkedIsAccepted'
  BY <1>1, <1>2, NextRowStep DEF IInv, TypeOK, store
<1>4. PublishedWasAccepted'
  BY <1>1 DEF IInv, TypeOK, PublishedWasAccepted
<1>5. QED
  BY <1>2, <1>3, <1>4, RelayKeepsStore DEF IInv, NoEventWithoutRecord

LEMMA MarkPublishedFailsStep ==
  ASSUME IInv, NEW p \in Relays, NEW r \in Rows, MarkPublishedFails(p, r)
  PROVE  IInv'
<1> USE DEF MarkPublishedFails
<1>1. r \in Stored /\ r \in accepted
  BY DEF InHand, IInv, BatchIsStored, MarkedIsAccepted
<1>2. /\ status' \in [Rows -> {"none", "pending", "published", "failed"}]
      /\ Stored' = Stored
  BY <1>1 DEF Stored, IInv, TypeOK
<1>3. TypeOK' /\ BatchIsStored' /\ MarkedIsAccepted'
  BY <1>1, <1>2 DEF IInv, TypeOK, store, BatchIsStored, MarkedIsAccepted, InHand
<1>4. PublishedWasAccepted'
  BY <1>1 DEF IInv, TypeOK, PublishedWasAccepted
<1>5. QED
  BY <1>2, <1>3, <1>4, RelayKeepsStore DEF IInv, NoEventWithoutRecord

LEMMA ReadAttemptsStep ==
  ASSUME IInv, NEW p \in Relays, NEW r \in Rows, ReadAttempts(p, r)
  PROVE  IInv'
<1> USE DEF ReadAttempts
<1>1. Stored' = Stored
  BY DEF Stored
<1>2. TypeOK' /\ BatchIsStored' /\ MarkedIsAccepted'
  BY <1>1 DEF IInv, TypeOK, store, BatchIsStored, MarkedIsAccepted, InHand
<1>3. QED
  BY <1>1, <1>2, RelayKeepsStore
     DEF IInv, TypeOK, NoEventWithoutRecord, PublishedWasAccepted

LEMMA WriteAttemptsStep ==
  ASSUME IInv, NEW p \in Relays, NEW r \in Rows, WriteAttempts(p, r)
  PROVE  IInv'
<1> USE DEF WriteAttempts
<1>1. r \in batch[p] /\ r \in Stored
  BY DEF InHand, IInv, BatchIsStored
<1>2. /\ status' \in [Rows -> {"none", "pending", "published", "failed"}]
      /\ status'[r] \in {"pending", "failed"}
      /\ \A q \in Rows \ {r} : status'[q] = status[q]
      /\ attempts' \in [Rows -> Nat]
      /\ seen' \in [Relays -> Nat]
  BY DEF IInv, TypeOK
<1>3. Stored' = Stored
  BY <1>1, <1>2 DEF Stored
<1>4. TypeOK' /\ BatchIsStored' /\ MarkedIsAccepted'
  BY <1>1, <1>2, <1>3, NextRowStep DEF IInv, TypeOK, store
<1>5. PublishedWasAccepted'
  BY <1>2 DEF IInv, PublishedWasAccepted
<1>6. QED
  BY <1>2, <1>3, <1>4, <1>5, RelayKeepsStore DEF IInv, NoEventWithoutRecord

LEMMA AbandonTickStep ==
  ASSUME IInv, NEW p \in Relays, AbandonTick(p)
  PROVE  IInv'
<1> USE DEF AbandonTick
<1>1. Stored' = Stored
  BY DEF Stored
<1>2. TypeOK' /\ BatchIsStored' /\ MarkedIsAccepted'
  BY <1>1 DEF IInv, TypeOK, store, BatchIsStored, MarkedIsAccepted, InHand
<1>3. QED
  BY <1>1, <1>2, RelayKeepsStore
     DEF IInv, TypeOK, NoEventWithoutRecord, PublishedWasAccepted

LEMMA RequeueStaleFailedStep ==
  ASSUME IInv, NEW p \in Relays, RequeueStaleFailed(p)
  PROVE  IInv'
<1> USE DEF RequeueStaleFailed
<1>1. PICK S \in SUBSET {r \in Rows : status[r] = "failed"} :
        /\ status' = [r \in Rows |-> IF r \in S THEN "pending" ELSE status[r]]
        /\ attempts' = [r \in Rows |-> IF r \in S THEN 0 ELSE attempts[r]]
  OBVIOUS
<1>2. Stored' = Stored
  BY <1>1 DEF Stored, IInv, TypeOK
<1>3. TypeOK' /\ BatchIsStored' /\ MarkedIsAccepted'
  BY <1>1, <1>2 DEF IInv, TypeOK, store, BatchIsStored, MarkedIsAccepted, InHand
<1>4. PublishedWasAccepted'
  BY <1>1 DEF IInv, TypeOK, PublishedWasAccepted
<1>5. QED
  BY <1>2, <1>3, <1>4, RelayKeepsStore DEF IInv, TypeOK, NoEventWithoutRecord

LEMMA NextIInv == IInv /\ [Next]_vars => IInv'
<1> SUFFICES ASSUME IInv, [Next]_vars PROVE IInv'
  OBVIOUS
<1>1. CASE UNCHANGED vars
  BY <1>1 DEF vars, IInv, TypeOK, TimesDiffer, BatchIsStored,
     MarkedIsAccepted, InHand, InsertingIsNew, PublishedWasAccepted,
     NoEventWithoutRecord, NoRecordWithoutEvent, Stored
<1>2. CASE Service
  BY <1>2, CommitTransactionStep, WriteRecordStep, WriteRowStep, LoseRowStep
     DEF Service
<1>3. ASSUME NEW p \in Relays, Relay(p) PROVE IInv'
  BY <1>3, FetchPendingStep, PublishStep, PublishFailsStep, MarkPublishedStep,
     MarkPublishedFailsStep, ReadAttemptsStep, WriteAttemptsStep,
     AbandonTickStep, RequeueStaleFailedStep DEF Relay, Tick
<1>4. QED
  BY <1>1, <1>2, <1>3 DEF Next

(* The invariant holds of every behaviour of the outbox.                   *)
THEOREM OutboxInvariant == Spec => []IInv
BY InitIInv, NextIInv, PTL DEF Spec

(* The variables keep their types, and a relay holds rows exactly while a  *)
(* tick of it is under way.                                                *)
THEOREM TypeCorrect == Spec => []TypeOK
<1>1. IInv => TypeOK
  BY DEF IInv
<1>2. QED
  BY <1>1, OutboxInvariant, PTL

(* A row is marked published only when the broker has its message: the     *)
(* crash window of the relay republishes, it never loses.                  *)
THEOREM MarkFollowsConfirm == Spec => []PublishedWasAccepted
<1>1. IInv => PublishedWasAccepted
  BY DEF IInv
<1>2. QED
  BY <1>1, OutboxInvariant, PTL

(* Record and event are stored together (withOutbox): no event of a        *)
(* mutation that is not stored and, with transactions, none missing.       *)
THEOREM RecordsAndEvents == Spec => []RecordsMatchEvents
<1>1. IInv => RecordsMatchEvents
  BY DEF IInv, RecordsMatchEvents
<1>2. QED
  BY <1>1, OutboxInvariant, PTL

-----------------------------------------------------------------------------
(* A row in hand is stored, so its mutation is.                            *)
LEMMA InHandIsCommitted ==
  ASSUME IInv, NEW p \in Relays, NEW r \in Rows, InHand(p, r)
  PROVE  r \in record
BY DEF IInv, InHand, BatchIsStored, NoEventWithoutRecord

LEMMA ServiceRefines ==
  ASSUME NEW r \in Rows,
         CommitTransaction(r) \/ WriteRecord(r) \/ WriteRow(r) \/ LoseRow(r)
  PROVE  [Abstract!Next]_<<record, accepted>>
<1>1. CASE CommitTransaction(r) \/ WriteRecord(r)
  <2>1. Abstract!Commit(r)
    BY <1>1 DEF CommitTransaction, WriteRecord, Abstract!Commit
  <2>2. QED
    BY <2>1 DEF Abstract!Next
<1>2. CASE WriteRow(r) \/ LoseRow(r)
  BY <1>2 DEF WriteRow, LoseRow
<1>3. QED
  BY <1>1, <1>2

LEMMA TickRefines ==
  ASSUME IInv, NEW p \in Relays, NEW r \in Rows, Tick(p, r)
  PROVE  [Abstract!Next]_<<record, accepted>>
<1>1. CASE Publish(p, r) \/ PublishFails(p, r)
  <2>1. r \in record
    BY <1>1, InHandIsCommitted DEF Publish, PublishFails
  <2>2. Abstract!Deliver(r) \/ UNCHANGED <<record, accepted>>
    BY <1>1, <2>1 DEF Publish, PublishFails, store, Abstract!Deliver
  <2>3. QED
    BY <2>2 DEF Abstract!Next
<1>2. CASE \/ MarkPublished(p, r) \/ MarkPublishedFails(p, r)
          \/ ReadAttempts(p, r) \/ WriteAttempts(p, r)
  BY <1>2 DEF MarkPublished, MarkPublishedFails, ReadAttempts, WriteAttempts,
     store
<1>3. QED
  BY <1>1, <1>2 DEF Tick

(* The outbox keeps the promise of event delivery: every step of it is a   *)
(* commit, a delivery of a committed message, or invisible.                *)
THEOREM OutboxImplementsDelivery == Spec => ImplementsDelivery
<1>1. Init => Abstract!Init
  BY DEF Init, Abstract!Init
<1>2. IInv /\ [Next]_vars => [Abstract!Next]_<<record, accepted>>
  <2> SUFFICES ASSUME IInv, [Next]_vars
               PROVE  [Abstract!Next]_<<record, accepted>>
    OBVIOUS
  <2>1. CASE UNCHANGED vars
    BY <2>1 DEF vars
  <2>2. CASE Service
    BY <2>2, ServiceRefines DEF Service
  <2>3. ASSUME NEW p \in Relays, Relay(p)
        PROVE  [Abstract!Next]_<<record, accepted>>
    <3>1. CASE \/ FetchPending(p) \/ AbandonTick(p) \/ RequeueStaleFailed(p)
      BY <3>1 DEF FetchPending, AbandonTick, RequeueStaleFailed, store
    <3>2. QED
      BY <2>3, <3>1, TickRefines DEF Relay
  <2>4. QED
    BY <2>1, <2>2, <2>3 DEF Next
<1>3. QED
  BY <1>1, <1>2, OutboxInvariant, PTL DEF Spec, ImplementsDelivery, Abstract!Spec
=============================================================================
