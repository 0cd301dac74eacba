------------------------------- MODULE Outbox -------------------------------
(***************************************************************************)
(* The transactional outbox and its relay (shared/src/outbox.ts), as every *)
(* domain service wires it over its own store.                             *)
(*                                                                         *)
(* A business mutation and its outbox row are written by withOutbox: in    *)
(* one storage transaction when the cluster has transactions, one after    *)
(* the other on a standalone server.  A relay, one per service replica,    *)
(* repeats a tick: it fetches the oldest pending rows and, row by row,     *)
(* publishes and then marks; a publish or a mark that throws is counted by *)
(* markAttemptFailed, which reads the row and writes it back in two calls. *)
(*                                                                         *)
(* A row stands for one business mutation and for the one event it emits:  *)
(* the row id is the messageId.  The event bodies are abstracted away.     *)
(***************************************************************************)
EXTENDS Integers, FiniteSets

CONSTANTS
  Rows,           \* the message ids (one business mutation each)
  Relays,         \* the relay loops: one per live replica of the service
  MaxAttempts,    \* OUTBOX_RELAY_DEFAULTS.maxAttempts
  BatchSize,      \* OUTBOX_RELAY_DEFAULTS.batchSize
  Clusters,       \* subset of BOOLEAN: with transactions, standalone, or both
  Requeue         \* is requeueStaleFailed wired in (the activity service)?

ASSUME ConstantsAssumption ==
  /\ MaxAttempts \in Nat \ {0}
  /\ BatchSize \in Nat \ {0}
  /\ Clusters \subseteq BOOLEAN
  /\ Requeue \in BOOLEAN

VARIABLES
  txSupported, \* does the cluster have multi-document transactions?
  record,    \* rows whose business mutation is stored
  inserting, \* rows whose insertMany is still to come (standalone only)
  status,    \* Rows -> "none" (not stored) or the OutboxStatus
  attempts,  \* Rows -> publish attempts counted so far
  createdAt, \* Rows -> when the row was stored
  clock,     \* the next createdAt
  accepted,  \* messages the broker has taken
  pc,        \* Relays -> where the relay's tick is
  batch,     \* Relays -> rows of the tick not handled yet
  seen       \* Relays -> the attempts read by markAttemptFailed

store == <<txSupported, record, inserting, createdAt, clock>>
vars  == <<txSupported, record, inserting, status, attempts, createdAt, clock,
           accepted, pc, batch, seen>>

Stored == {r \in Rows : status[r] # "none"}

Pending == {r \in Rows : status[r] = "pending"}

Init ==
  /\ txSupported \in Clusters
  /\ record = {}
  /\ inserting = {}
  /\ status = [r \in Rows |-> "none"]
  /\ attempts = [r \in Rows |-> 0]
  /\ createdAt = [r \in Rows |-> 0]
  /\ clock = 1
  /\ accepted = {}
  /\ pc = [p \in Relays |-> "idle"]
  /\ batch = [p \in Relays |-> {}]
  /\ seen = [p \in Relays |-> 0]

-----------------------------------------------------------------------------
(* The write half: withOutbox.                                             *)

InsertRow(r) ==
  /\ status' = [status EXCEPT ![r] = "pending"]
  /\ createdAt' = [createdAt EXCEPT ![r] = clock]
  /\ clock' = clock + 1

(* A slip the properties must catch: only one of the two writes is given   *)
(* the session, and the other one is lost with the transaction.            *)
RowCommitsAlone(r) ==
  /\ txSupported
  /\ r \notin record \union Stored
  /\ InsertRow(r)
  /\ UNCHANGED <<txSupported, record, inserting, attempts, accepted, pc, batch,
                 seen>>

(* One transaction commits the record and its row; an aborted one leaves   *)
(* nothing behind and is the absence of a step.                            *)
CommitTransaction(r) ==
  /\ txSupported
  /\ r \notin record
  /\ record' = record \union {r}
  /\ InsertRow(r)
  /\ UNCHANGED <<txSupported, inserting, attempts, accepted, pc, batch, seen>>

(* A slip: the row first, the business write later, if at all.             *)
RowBeforeRecord(r) ==
  /\ ~txSupported
  /\ r \notin record \union Stored
  /\ InsertRow(r)
  /\ UNCHANGED <<txSupported, record, inserting, attempts, accepted, pc, batch,
                 seen>>

(* The standalone fallback: the business write first ...                   *)
WriteRecord(r) ==
  /\ ~txSupported
  /\ r \notin record
  /\ record' = record \union {r}
  /\ inserting' = inserting \union {r}
  /\ UNCHANGED <<txSupported, status, attempts, createdAt, clock, accepted, pc,
                 batch, seen>>

(* ... then the outbox row, unless the process dies or insertMany throws.  *)
WriteRow(r) ==
  /\ r \in inserting
  /\ inserting' = inserting \ {r}
  /\ InsertRow(r)
  /\ UNCHANGED <<txSupported, record, attempts, accepted, pc, batch, seen>>

LoseRow(r) ==
  /\ r \in inserting
  /\ inserting' = inserting \ {r}
  /\ UNCHANGED <<txSupported, record, status, attempts, createdAt, clock,
                 accepted, pc, batch, seen>>

-----------------------------------------------------------------------------
(* The relay half: OutboxRelay.tick over an OutboxStore.                   *)

(* The batchSize oldest pending rows (all of them, if there are fewer).    *)
FetchPending(p) ==
  /\ pc[p] = "idle"
  /\ \E S \in SUBSET Pending :
       /\ S # {}
       /\ Cardinality(S) <= BatchSize
       /\ S = Pending \/ Cardinality(S) = BatchSize
       /\ \A r \in S, q \in Pending \ S : createdAt[r] < createdAt[q]
       /\ batch' = [batch EXCEPT ![p] = S]
  /\ pc' = [pc EXCEPT ![p] = "publish"]
  /\ UNCHANGED <<store, status, attempts, accepted, seen>>

(* The row in hand: the oldest of the tick's rows not handled yet.         *)
InHand(p, r) ==
  /\ r \in batch[p]
  /\ \A q \in batch[p] : createdAt[r] <= createdAt[q]

(* The tick goes to its next row, or ends.                                 *)
NextRow(p, r) ==
  /\ batch' = [batch EXCEPT ![p] = @ \ {r}]
  /\ pc' = [pc EXCEPT ![p] = IF batch[p] = {r} THEN "idle" ELSE "publish"]

(* The broker confirms the message.                                        *)
Publish(p, r) ==
  /\ pc[p] = "publish"
  /\ InHand(p, r)
  /\ accepted' = accepted \union {r}
  /\ pc' = [pc EXCEPT ![p] = "mark"]
  /\ UNCHANGED <<store, status, attempts, batch, seen>>

(* A slip: the rejection is swallowed, and the row marked.                 *)
PublishErrorSwallowed(p, r) ==
  /\ pc[p] = "publish"
  /\ InHand(p, r)
  /\ pc' = [pc EXCEPT ![p] = "mark"]
  /\ UNCHANGED <<store, status, attempts, accepted, batch, seen>>

(* publish rejects: nobody can tell whether the broker took the message.   *)
PublishFails(p, r) ==
  /\ pc[p] = "publish"
  /\ InHand(p, r)
  /\ \/ accepted' = accepted \union {r}
     \/ UNCHANGED accepted
  /\ pc' = [pc EXCEPT ![p] = "count"]
  /\ UNCHANGED <<store, status, attempts, batch, seen>>

MarkPublished(p, r) ==
  /\ pc[p] = "mark"
  /\ InHand(p, r)
  /\ status' = [status EXCEPT ![r] = "published"]
  /\ NextRow(p, r)
  /\ UNCHANGED <<store, attempts, accepted, seen>>

(* markPublished rejects; the update may have been applied all the same.   *)
MarkPublishedFails(p, r) ==
  /\ pc[p] = "mark"
  /\ InHand(p, r)
  /\ \/ status' = [status EXCEPT ![r] = "published"]
     \/ UNCHANGED status
  /\ pc' = [pc EXCEPT ![p] = "count"]
  /\ UNCHANGED <<store, attempts, accepted, batch, seen>>

(* markAttemptFailed, first call: findOne.                                 *)
ReadAttempts(p, r) ==
  /\ pc[p] = "count"
  /\ InHand(p, r)
  /\ seen' = [seen EXCEPT ![p] = attempts[r]]
  /\ pc' = [pc EXCEPT ![p] = "write"]
  /\ UNCHANGED <<store, status, attempts, accepted, batch>>

(* markAttemptFailed, second call: updateOne by messageId alone.           *)
WriteAttempts(p, r) ==
  LET n == seen[p] + 1 IN
  /\ pc[p] = "write"
  /\ InHand(p, r)
  /\ attempts' = [attempts EXCEPT ![r] = n]
  /\ status' = [status EXCEPT ![r] =
                  IF n >= MaxAttempts THEN "failed" ELSE "pending"]
  /\ seen' = [seen EXCEPT ![p] = 0]
  /\ NextRow(p, r)
  /\ UNCHANGED <<store, accepted>>

(* A slip: the batch outlives the tick it was fetched for.                 *)
AbandonKeepsBatch(p) ==
  /\ pc[p] # "idle"
  /\ pc' = [pc EXCEPT ![p] = "idle"]
  /\ UNCHANGED <<store, status, attempts, accepted, batch, seen>>

(* The tick is cut short and the rest of its batch dropped: either call of *)
(* markAttemptFailed threw, or the process died anywhere and restarted.    *)
AbandonTick(p) ==
  /\ pc[p] # "idle"
  /\ pc' = [pc EXCEPT ![p] = "idle"]
  /\ batch' = [batch EXCEPT ![p] = {}]
  /\ seen' = [seen EXCEPT ![p] = 0]
  /\ UNCHANGED <<store, status, attempts, accepted>>

(* A slip: the counter starts again, the row stays failed.                 *)
RequeueKeepsStatus(p) ==
  /\ Requeue
  /\ pc[p] = "idle"
  /\ attempts' = [r \in Rows |-> IF status[r] = "failed" THEN 0 ELSE attempts[r]]
  /\ UNCHANGED <<store, status, accepted, pc, batch, seen>>

(* requeueStaleFailed, called between two ticks: any failed row is stale   *)
(* once enough time has passed.  A batch limit only delays the others.     *)
RequeueStaleFailed(p) ==
  /\ Requeue
  /\ pc[p] = "idle"
  /\ \E S \in SUBSET {r \in Rows : status[r] = "failed"} :
       /\ S # {}
       /\ status' = [r \in Rows |-> IF r \in S THEN "pending" ELSE status[r]]
       /\ attempts' = [r \in Rows |-> IF r \in S THEN 0 ELSE attempts[r]]
  /\ UNCHANGED <<store, accepted, pc, batch, seen>>

-----------------------------------------------------------------------------
Service ==
  \E r \in Rows :
    CommitTransaction(r) \/ WriteRecord(r) \/ WriteRow(r) \/ LoseRow(r)

Tick(p, r) ==
  \/ Publish(p, r) \/ PublishFails(p, r)
  \/ MarkPublished(p, r) \/ MarkPublishedFails(p, r)
  \/ ReadAttempts(p, r) \/ WriteAttempts(p, r)

Relay(p) ==
  \/ FetchPending(p)
  \/ \E r \in Rows : Tick(p, r)
  \/ AbandonTick(p)
  \/ RequeueStaleFailed(p)

Next == Service \/ \E p \in Relays : Relay(p)

Spec == Init /\ [][Next]_vars

(* Every call the relay repeats on its timer is made, and one that is made *)
(* again and again is not refused for ever: broker and store come back.    *)
Fairness ==
  \A p \in Relays :
    /\ SF_vars(FetchPending(p))
    /\ WF_vars(RequeueStaleFailed(p))
    /\ \A r \in Rows :
         /\ SF_vars(Publish(p, r))
         /\ SF_vars(MarkPublished(p, r))
         /\ SF_vars(ReadAttempts(p, r))
         /\ SF_vars(WriteAttempts(p, r))

FairSpec == Spec /\ Fairness

-----------------------------------------------------------------------------
(* The types of the variables, and the shape of a tick: a relay has a row  *)
(* in hand exactly when it is not idle.                                    *)
TypeOK ==
  /\ txSupported \in Clusters
  /\ record \subseteq Rows
  /\ inserting \subseteq record
  /\ status \in [Rows -> {"none", "pending", "published", "failed"}]
  /\ attempts \in [Rows -> Nat]
  /\ createdAt \in [Rows -> Nat]
  /\ clock \in Nat
  /\ accepted \subseteq Rows
  /\ pc \in [Relays -> {"idle", "publish", "mark", "count", "write"}]
  /\ batch \in [Relays -> SUBSET Rows]
  /\ seen \in [Relays -> Nat]
  /\ \A p \in Relays : pc[p] = "idle" <=> batch[p] = {}

(* A row is marked published only if the broker did take its message:      *)
(* publish is awaited before markPublished, and a crash or an error        *)
(* between the two may republish but can never lose (outbox.ts tick).      *)
PublishedWasAccepted ==
  \A r \in Rows : status[r] = "published" => r \in accepted

(* No event without a business record: whatever the broker took and        *)
(* whatever sits in the outbox belongs to a stored mutation, in the        *)
(* transaction and in the standalone fallback alike (withOutbox).          *)
NoEventWithoutRecord == accepted \subseteq Stored /\ Stored \subseteq record

(* No business record without an event, on a cluster with transactions.    *)
NoRecordWithoutEvent == txSupported => record \subseteq Stored

(* Record and event are stored together: in the transaction neither        *)
(* without the other, in the standalone fallback no event alone.           *)
RecordsMatchEvents == NoEventWithoutRecord /\ NoRecordWithoutEvent

(* At-least-once: every stored row reaches the broker.  It rests on        *)
(* requeueStaleFailed, which only the activity service has.                *)
EveryRowIsDelivered ==
  \A r \in Rows : status[r] # "none" ~> r \in accepted

(* The outbox keeps the promise of event delivery: the broker takes only   *)
(* messages of stored mutations, one at a time, and keeps them.            *)
Abstract == INSTANCE Delivery
              WITH Messages <- Rows, committed <- record, delivered <- accepted

ImplementsDelivery == Abstract!Spec
=============================================================================
