------------------------------ MODULE DealWon ------------------------------
(***************************************************************************)
(* The consumer of crm.deal.won (orders/src/orders/deal-won.consumer.ts):  *)
(* a won deal becomes one sale.  The event is delivered at least once by   *)
(* the bus (RetryLadder); each delivery is a call of withIdempotency       *)
(* (Idempotency) whose executor is createOrder, under the event's business *)
(* key <dealId>:<wonVersion>.                                              *)
(*                                                                         *)
(* Callers are the deliveries.  What the ladder does with the outcome of   *)
(* one is in `waiting': an error puts the event on the retry ladder, a     *)
(* crash has the broker redeliver it, anything else acks it.  How many     *)
(* retries the ladder grants is bounded by the number of Callers.          *)
(***************************************************************************)
EXTENDS Idempotency

CONSTANT EventCopies  \* how often the outbox relay published the event

ASSUME CopiesAssumption == EventCopies \in Nat \ {0}

VARIABLES
  waiting,   \* copies of the event in the work queue or a retry queue
  declined   \* did the business decide that this deal gets no sale?

dvars == <<vars, waiting, declined>>

DInit == Init /\ waiting = EventCopies /\ declined = FALSE

-----------------------------------------------------------------------------
Delivered(c) == IF pc[c] = "claim" THEN 1 ELSE 0

(* A slip: every error is acked.                                           *)
ReturnedNever(c) == 0

(* isBusinessRejection: FAILED_PRECONDITION, the ledger's "busy", counts   *)
(* as one; only what is left is rethrown to the retry ladder.              *)
Returned(c) ==
  IF pc'[c] = "end" /\ outcome'[c] \in {"error", "crashed"} THEN 1 ELSE 0

(* One step of the delivery c; its first takes a copy off the queue.       *)
Handle(c) ==
  /\ pc[c] = "claim" => waiting > 0
  /\ Call(c)
  /\ waiting' = waiting - Delivered(c) + Returned(c)
  /\ declined' = (declined \/ outcome'[c] = "rejected")

(* No product, no sale-type, a deleted one or one that opted out: skipped  *)
(* before the ledger is touched.                                           *)
Skip(c) ==
  /\ pc[c] = "claim"
  /\ waiting > 0
  /\ Return(c, "rejected")
  /\ waiting' = waiting - 1
  /\ declined' = TRUE
  /\ UNCHANGED <<ledger, applied, polls, result, mishaps>>

(* The product donor or the database does not answer: rethrown.            *)
ReadFails(c) ==
  /\ pc[c] = "claim"
  /\ waiting > 0
  /\ Return(c, "error")
  /\ UNCHANGED <<ledger, applied, polls, result, mishaps, waiting,
                 declined>>

DNext == \E c \in Callers : Handle(c) \/ Skip(c) \/ ReadFails(c)

DSpec == DInit /\ [][DNext]_dvars

(* A delivery that was taken goes on as long as its process lives.         *)
Proceed(c) == pc[c] # "claim" /\ Handle(c) /\ outcome'[c] # "crashed"

DFairSpec == DSpec /\ \A c \in Callers : WF_dvars(Proceed(c))

-----------------------------------------------------------------------------
(* The types of the variables, the ledger's included.                      *)
DTypeOK ==
  /\ TypeOK
  /\ waiting \in Nat
  /\ declined \in BOOLEAN

AtRest == waiting = 0 /\ \A c \in Callers : pc[c] \in {"claim", "end"}

(* "Only infra faults re-throw; a business rejection is acked and          *)
(* skipped": when no copy of a win's event is left, a sale was created or  *)
(* the business said no.  A crash, a refused write of the ledger or its    *)
(* TTL may leave a claim without an owner; then a delivery is told busy    *)
(* and acked though nobody is at work.                                     *)
SaleIsNotLost ==
  mishaps \intersect {"crash", "ledger", "ttl"} = {} =>
    (AtRest => applied > 0 \/ declined)
=============================================================================
