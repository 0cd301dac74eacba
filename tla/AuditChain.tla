----------------------------- MODULE AuditChain -----------------------------
(***************************************************************************)
(* One hash chain of the audit log (audit/src/chain/audit-chain.service.ts) *)
(* and the two ways a record gets into it: the consumer of bus events       *)
(* (ingestEvent, with its two-phase dedup ledger) and the RPC appendEvent   *)
(* (audit.service.ts).                                                      *)
(*                                                                          *)
(* An append reads the head of the chain, advances it by a compare-and-set  *)
(* and then inserts the record; if the insert rejects, a second compare-    *)
(* and-set takes the head back.  Every database call is a step.             *)
(*                                                                          *)
(* The hash of a record stands for its whole history, for it is computed    *)
(* from the content and the hash before: here it IS that history, the       *)
(* sequence of the items up to this one, its length the record's seq.  An   *)
(* item that is appended again to the same history has the same hash, as in *)
(* the code, where the content carries the event's own timestamp.           *)
(***************************************************************************)
EXTENDS Integers, Sequences, FiniteSets

CONSTANTS
  Events,      \* the events on the bus, by their idempotencyKey
  Calls,       \* the calls of the RPC appendEvent
  Handlers,    \* what handles them concurrently: replicas, old channels, RPCs
  Faults,      \* what may go wrong:
               \*   "call"      a call to the database rejects, applied or not
               \*   "insert"    the insert of a record rejects, yet is applied
               \*   "crash"     the process of a handler dies
               \*   "duplicate" the bus delivers one more copy of an event
  MaxOfAKind   \* bound: faults of each kind

Items == Events \union Calls

NoItem == "no item"

ASSUME ChainAssumption ==
  /\ Events \intersect Calls = {}
  /\ NoItem \notin Items
  /\ Faults \subseteq {"call", "insert", "crash", "duplicate"}
  /\ MaxOfAKind \in Nat

VARIABLES
  due,      \* Items -> copies of the event in the queue; calls not made yet
  claim,    \* Events -> the state of its row in processed_messages
  head,     \* audit_chain_heads: the last hash (and by its length the seq)
  records,  \* audit_events: the hashes of the stored records
  pc,       \* Handlers -> the call it makes next
  job,      \* Handlers -> the item in hand
  prev,     \* Handlers -> the head it has read
  mishaps   \* Faults -> how often it has happened

vars == <<due, claim, head, records, pc, job, prev, mishaps>>

Genesis == <<>>

linkRecord(h) == Append(prev[h], job[h])

Seqs == {Len(r) : r \in records}

Recorded(i) == \E r \in records : r[Len(r)] = i

Goto(h, l) == pc' = [pc EXCEPT ![h] = l]

Forget(h) ==
  /\ Goto(h, "idle")
  /\ job' = [job EXCEPT ![h] = NoItem]
  /\ prev' = [prev EXCEPT ![h] = Genesis]

(* A handler that throws, or dies, gives its event back to the bus, the    *)
(* caller of an RPC gets an error.                                         *)
GiveBack(h) ==
  /\ due' = IF job[h] \in Events THEN [due EXCEPT ![job[h]] = @ + 1] ELSE due
  /\ Forget(h)

GoesWrong(f) ==
  /\ f \in Faults
  /\ mishaps[f] < MaxOfAKind
  /\ mishaps' = [mishaps EXCEPT ![f] = @ + 1]

Init ==
  /\ due = [i \in Items |-> 1]
  /\ claim = [e \in Events |-> "none"]
  /\ head = Genesis
  /\ records = {}
  /\ pc = [h \in Handlers |-> "idle"]
  /\ job = [h \in Handlers |-> NoItem]
  /\ prev = [h \in Handlers |-> Genesis]
  /\ mishaps = [f \in Faults |-> 0]

-----------------------------------------------------------------------------
Receive(h, i) ==
  /\ pc[h] = "idle"
  /\ due[i] > 0
  /\ due' = [due EXCEPT ![i] = @ - 1]
  /\ job' = [job EXCEPT ![h] = i]
  /\ Goto(h, IF i \in Events THEN "claim" ELSE "read")
  /\ UNCHANGED <<claim, head, records, prev, mishaps>>

(* claimMessage: insertOne of the claim ...                                *)
Claim(h) ==
  /\ pc[h] = "claim"
  /\ IF claim[job[h]] = "none"
     THEN claim' = [claim EXCEPT ![job[h]] = "pending"] /\ Goto(h, "read")
     ELSE Goto(h, "taken") /\ UNCHANGED claim
  /\ UNCHANGED <<due, head, records, job, prev, mishaps>>

(* A slip: a claim, once made, is taken for the whole work.                *)
SkipAnyClaim(h) ==
  /\ pc[h] = "taken"
  /\ Forget(h)
  /\ UNCHANGED <<due, claim, head, records, mishaps>>

(* ... findOne of the one that is there: processed already, acked ...      *)
SkipDone(h) ==
  /\ pc[h] = "taken"
  /\ claim[job[h]] = "done"
  /\ Forget(h)
  /\ UNCHANGED <<due, claim, head, records, mishaps>>

(* ... or a claim somebody has left, or is still working on ...            *)
FindPending(h) ==
  /\ pc[h] = "taken"
  /\ claim[job[h]] = "pending"
  /\ Goto(h, "lookup")
  /\ UNCHANGED <<due, claim, head, records, job, prev, mishaps>>

(* A slip: a claim left pending is taken over, whatever it has left.       *)
TakeOverBlindly(h) ==
  /\ pc[h] = "lookup"
  /\ Goto(h, "read")
  /\ UNCHANGED <<due, claim, head, records, job, prev, mishaps>>

(* ... whose record may be in: then the claim is confirmed, the event      *)
(* skipped; if not, it is processed here.                                  *)
LookUp(h) ==
  /\ pc[h] = "lookup"
  /\ Goto(h, IF Recorded(job[h]) THEN "confirm" ELSE "read")
  /\ UNCHANGED <<due, claim, head, records, job, prev, mishaps>>

(* append: read the head, link the record to it ...                        *)
ReadHead(h) ==
  /\ pc[h] = "read"
  /\ prev' = [prev EXCEPT ![h] = head]
  /\ Goto(h, "cas")
  /\ UNCHANGED <<due, claim, head, records, job, mishaps>>

(* A slip: the update is guarded by the chain's key alone.                 *)
AdvanceAnyHead(h) ==
  /\ pc[h] = "cas"
  /\ head' = linkRecord(h)
  /\ Goto(h, "insert")
  /\ UNCHANGED <<due, claim, records, job, prev, mishaps>>

(* A slip: a miss is tried again with the head that was read before.       *)
RetryWithStaleHead(h) ==
  /\ pc[h] = "cas"
  /\ head = prev[h]
  /\ head' = linkRecord(h)
  /\ Goto(h, "insert")
  /\ UNCHANGED <<due, claim, records, job, prev, mishaps>>

(* ... advance the head if it is still the same, else start again ...      *)
AdvanceHead(h) ==
  /\ pc[h] = "cas"
  /\ IF head = prev[h] THEN head' = linkRecord(h) /\ Goto(h, "insert")
                       ELSE Goto(h, "read") /\ UNCHANGED head
  /\ UNCHANGED <<due, claim, records, job, prev, mishaps>>

(* A slip: the record of a call is confirmed like an event's.              *)
ConfirmCalls(h) ==
  /\ pc[h] = "insert"
  /\ Len(linkRecord(h)) \notin Seqs
  /\ records' = records \union {linkRecord(h)}
  /\ Goto(h, "confirm")
  /\ UNCHANGED <<due, claim, head, job, prev, mishaps>>

(* ... and store the record: a call is over, an event to be confirmed.     *)
InsertRecord(h) ==
  /\ pc[h] = "insert"
  /\ Len(linkRecord(h)) \notin Seqs
  /\ records' = records \union {linkRecord(h)}
  /\ IF job[h] \in Events THEN Goto(h, "confirm") /\ UNCHANGED <<job, prev>>
                          ELSE Forget(h)
  /\ UNCHANGED <<due, claim, head, mishaps>>

(* The unique index on the chain and the seq refuses the record.           *)
InsertCollides(h) ==
  /\ pc[h] = "insert"
  /\ Len(linkRecord(h)) \in Seqs
  /\ Goto(h, "rollback")
  /\ UNCHANGED <<due, claim, head, records, job, prev, mishaps>>

(* A slip: the head is taken back wherever it is.                          *)
RollBackAnyHead(h) ==
  /\ pc[h] = "rollback"
  /\ head' = prev[h]
  /\ GiveBack(h)
  /\ UNCHANGED <<claim, records, mishaps>>

(* The compensating compare-and-set, then the error is rethrown.           *)
RollBack(h) ==
  /\ pc[h] = "rollback"
  /\ head' = IF head = linkRecord(h) THEN prev[h] ELSE head
  /\ GiveBack(h)
  /\ UNCHANGED <<claim, records, mishaps>>

(* confirmMessage, and the ack.                                            *)
Confirm(h) ==
  /\ pc[h] = "confirm"
  /\ claim' = [claim EXCEPT ![job[h]] = "done"]
  /\ Forget(h)
  /\ UNCHANGED <<due, head, records, mishaps>>

-----------------------------------------------------------------------------
(* A call rejects.  A write may have been applied, but for the insert of   *)
(* the record, which is the next action's; the rollback's own failure is   *)
(* swallowed.                                                              *)
Applied(h) ==
  \/ UNCHANGED <<claim, head>>
  \/ /\ pc[h] = "claim" /\ claim[job[h]] = "none"
     /\ claim' = [claim EXCEPT ![job[h]] = "pending"] /\ UNCHANGED head
  \/ /\ pc[h] = "cas" /\ head = prev[h]
     /\ head' = linkRecord(h) /\ UNCHANGED claim
  \/ /\ pc[h] = "rollback" /\ head = linkRecord(h)
     /\ head' = prev[h] /\ UNCHANGED claim
  \/ /\ pc[h] = "confirm"
     /\ claim' = [claim EXCEPT ![job[h]] = "done"] /\ UNCHANGED head

CallRejects(h) ==
  /\ GoesWrong("call")
  /\ pc[h] \notin {"idle", "insert"}
  /\ Applied(h)
  /\ GiveBack(h)
  /\ UNCHANGED records

(* The insert rejects and nothing was stored ...                           *)
InsertRejects(h) ==
  /\ GoesWrong("call")
  /\ pc[h] = "insert"
  /\ Goto(h, "rollback")
  /\ UNCHANGED <<due, claim, head, records, job, prev>>

(* ... or the record is in, and only the answer is lost.                   *)
InsertAnswerLost(h) ==
  /\ GoesWrong("insert")
  /\ pc[h] = "insert"
  /\ Len(linkRecord(h)) \notin Seqs
  /\ records' = records \union {linkRecord(h)}
  /\ Goto(h, "rollback")
  /\ UNCHANGED <<due, claim, head, job, prev>>

Crash(h) ==
  /\ GoesWrong("crash")
  /\ pc[h] # "idle"
  /\ GiveBack(h)
  /\ UNCHANGED <<claim, head, records>>

(* The relay publishes an event again, or the channel drops while it is in *)
(* hand: another copy is delivered, to whoever is free.                    *)
Duplicate(e) ==
  /\ GoesWrong("duplicate")
  /\ due' = [due EXCEPT ![e] = @ + 1]
  /\ UNCHANGED <<claim, head, records, pc, job, prev>>

-----------------------------------------------------------------------------
Work(h) ==
  \/ Claim(h) \/ SkipDone(h) \/ FindPending(h) \/ LookUp(h)
  \/ ReadHead(h) \/ AdvanceHead(h) \/ InsertRecord(h) \/ InsertCollides(h)
  \/ RollBack(h) \/ Confirm(h)

Mishap(h) ==
  CallRejects(h) \/ InsertRejects(h) \/ InsertAnswerLost(h) \/ Crash(h)

Next ==
  \/ \E h \in Handlers, i \in Items : Receive(h, i)
  \/ \E h \in Handlers : Work(h) \/ Mishap(h)
  \/ \E e \in Events : Duplicate(e)

Spec == Init /\ [][Next]_vars

(* A handler goes on, and an event that is due is delivered some day.      *)
Fairness ==
  /\ \A h \in Handlers : WF_vars(Work(h))
  /\ \A i \in Items : SF_vars(\E h \in Handlers : Receive(h, i))

FairSpec == Spec /\ Fairness

-----------------------------------------------------------------------------
Never(f) == f \in Faults => mishaps[f] = 0

(* The types of the variables; a handler that is not idle has an item in   *)
(* hand, and only an event is claimed, looked up and confirmed.            *)
TypeOK ==
  /\ due \in [Items -> Nat]
  /\ claim \in [Events -> {"none", "pending", "done"}]
  /\ head \in Seq(Items)
  /\ records \subseteq Seq(Items) \ {Genesis}
  /\ pc \in [Handlers -> {"idle", "claim", "taken", "lookup", "read", "cas",
                          "insert", "rollback", "confirm"}]
  /\ job \in [Handlers -> Items \union {NoItem}]
  /\ prev \in [Handlers -> Seq(Items)]
  /\ mishaps \in [Faults -> Nat]
  /\ \A h \in Handlers :
       /\ pc[h] # "idle" => job[h] \in Items
       /\ pc[h] \in {"claim", "taken", "lookup", "confirm"} => job[h] \in Events

(* "prevHash can never be stale" (TODO-034): the stored records lie on one *)
(* line of history, each at a place of its own, a later one continuing     *)
(* every earlier one, also over the gap of a record that was never stored; *)
(* with appends racing, records refused, heads rolled back and processes   *)
(* dying anywhere: verifyChain never reports a prev_hash_mismatch or a     *)
(* fork.  The one exception is an insert that was applied though it        *)
(* rejected.                                                               *)
PrevHashIsNeverStale ==
  Never("insert") =>
    \A q, r \in records :
      Len(q) <= Len(r) => SubSeq(r, 1, Len(q)) = q

(* "A gap in the audit chain" is no accident of concurrency: if no call    *)
(* rejects and no process dies, then whenever no append is between its two *)
(* writes the chain is complete, up to the head.                           *)
ChainIsComplete ==
  /\ \A f \in {"call", "insert", "crash"} : Never(f)
  /\ \A h \in Handlers : pc[h] # "insert"
  => Seqs = 1..Len(head)

(* "Instead of silently losing the event forever on redelivery" (TODO-033, *)
(* the two-phase claim): an event the bus has no copy of any more, and no  *)
(* handler in hand, is in the chain, whatever went wrong before.           *)
NoEventIsLost ==
  \A e \in Events :
    due[e] = 0 /\ (\A h \in Handlers : job[h] # e) => Recorded(e)

(* "The at-least-once relay never creates duplicate chain records": right  *)
(* as long as no second copy of an event is handled next to the first; the *)
(* lookup of a pending claim covers every failure and every crash.         *)
NoDuplicateRecord ==
  Never("duplicate") =>
    \A e \in Events, q, r \in records :
      q[Len(q)] = e /\ r[Len(r)] = e => q = r

(* Every event gets its record, however appends race and what is refused   *)
(* or dies, unless the answer to an insert was lost.                       *)
EventIsRecorded ==
  \A e \in Events : due[e] > 0 ~> Recorded(e) \/ ~Never("insert")

(* The same without the proviso: "if that insert fails, the head is rolled *)
(* back so the seq is not burned and the retried message can re-append".   *)
EventIsRecordedAnyway ==
  \A e \in Events : due[e] > 0 ~> Recorded(e)
=============================================================================
