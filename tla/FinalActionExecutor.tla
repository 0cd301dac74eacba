------------------------ MODULE FinalActionExecutor ------------------------
(***************************************************************************)
(* The automation side of the final-action saga                            *)
(* (automation/src/automation/final-action.consumer.ts): it consumes       *)
(* crm.order.final_action_requested, carries the action out and answers    *)
(* with crm.order.final_action_succeeded or _failed.                       *)
(*                                                                         *)
(* A request is known by its business key.  The journal has a row per key, *)
(* with a status and the attempts that deliveries have claimed.  A copy    *)
(* <<key, n>> is a delivery whose x-retry-count says n; a transient        *)
(* failure and a handler that throws send copy n + 1 down the retry ladder *)
(* (RetryLadder).  The bag `queue' holds the copies in the work and retry  *)
(* queues together.  Every call to the database or the broker is a step.   *)
(***************************************************************************)
EXTENDS Integers, FiniteSetsExt

CONSTANTS
  Keys,           \* the business keys a request can have
  Handlers,       \* deliveries in hand at a time: replicas, old channels
  Levels,         \* DLQ_RETRY_LEVELS_MS.length
  MaxDeliveries,  \* retryPolicy.maxAttempts, clamped to the ladder
  Faults,         \* what may go wrong:
                  \*   "store"    a call to the journal rejects, applied or not
                  \*   "broker"   an answer is lost, with or without an error
                  \*   "channel"  a channel closes while its handler goes on
                  \*   "crash"    the process of a handler dies
                  \*   "copy"     the bus delivers one more copy of a request
  MaxMishaps,     \* bound: faults in all
  NoCopy          \* what a handler holds that has nothing in hand

ASSUME ExecutorAssumption ==
  /\ Levels \in Nat
  /\ MaxDeliveries \in 1..(Levels + 1)
  /\ Faults \subseteq {"store", "broker", "channel", "crash", "copy"}
  /\ MaxMishaps \in Nat
  /\ NoCopy \notin Keys \X (0..Levels)

VARIABLES
  queue,    \* Copies -> how many of it are waiting to be delivered
  journal,  \* Keys -> status of its row in automation_final_actions
  claims,   \* Keys -> the attempts that were claimed
  pc,       \* Handlers -> the call it makes next
  copy,     \* Handlers -> the delivery in hand
  outcome,  \* Handlers -> what came of carrying the action out
  cut,      \* Handlers -> has its channel closed under it?
  answers,  \* the answers on the bus, as <<key, ok>>
  ran,      \* the attempts that were carried out, whatever came of them
  worked,   \* the attempts that were carried out with success
  mishaps   \* Faults -> how often it has happened

evars == <<queue, journal, claims, pc, copy, outcome, cut, answers, ran, worked,
           mishaps>>

Copies == Keys \X (0..Levels)

key(h) == copy[h][1]

attempt(h) == copy[h][2]

Goto(h, l) == pc' = [pc EXCEPT ![h] = l]

GoesWrong(f) ==
  /\ f \in Faults
  /\ MapThenSumSet(LAMBDA g : mishaps[g], Faults) < MaxMishaps
  /\ mishaps' = [mishaps EXCEPT ![f] = @ + 1]

(* The handler returns; nothing of it is left.                             *)
Leave(h) ==
  /\ Goto(h, "idle")
  /\ copy' = [copy EXCEPT ![h] = NoCopy]
  /\ outcome' = [outcome EXCEPT ![h] = "none"]
  /\ cut' = [cut EXCEPT ![h] = FALSE]

(* ack: the copy is gone; after its channel closed it is not this one's.   *)
Ack(h) ==
  /\ Leave(h)
  /\ UNCHANGED queue

(* retryOrDeadLetter: one step down the ladder, or to the dead-letter      *)
(* queue when the budget is spent.  On a closed channel the call throws    *)
(* out of the consumer: nothing is sent.                                   *)
Requeue(h) ==
  /\ Leave(h)
  /\ queue' = IF cut[h] \/ attempt(h) >= Levels
              THEN queue
              ELSE [queue EXCEPT ![<<key(h), attempt(h) + 1>>] = @ + 1]

EInit ==
  /\ queue = [x \in Copies |-> 0]
  /\ journal = [k \in Keys |-> "none"]
  /\ claims = [k \in Keys |-> {}]
  /\ pc = [h \in Handlers |-> "idle"]
  /\ copy = [h \in Handlers |-> NoCopy]
  /\ outcome = [h \in Handlers |-> "none"]
  /\ cut = [h \in Handlers |-> FALSE]
  /\ answers = {}
  /\ ran = {}
  /\ worked = {}
  /\ mishaps = [f \in Faults |-> 0]

-----------------------------------------------------------------------------
(* The relay of the orders service publishes a request.                    *)
Request(k) ==
  /\ queue' = [queue EXCEPT ![<<k, 0>>] = @ + 1]
  /\ UNCHANGED <<journal, claims, pc, copy, outcome, cut, answers, ran, worked,
                 mishaps>>

Receive(h, x) ==
  /\ pc[h] = "idle"
  /\ queue[x] > 0
  /\ queue' = [queue EXCEPT ![x] = @ - 1]
  /\ copy' = [copy EXCEPT ![h] = x]
  /\ Goto(h, "find")
  /\ UNCHANGED <<journal, claims, outcome, cut, answers, ran, worked, mishaps>>

(* claim: findOne; a terminal row makes this delivery a duplicate.         *)
FindTerminal(h) ==
  /\ pc[h] = "find"
  /\ journal[key(h)] \in {"succeeded", "failed"}
  /\ Ack(h)
  /\ UNCHANGED <<journal, claims, answers, ran, worked, mishaps>>

FindOpen(h) ==
  /\ pc[h] = "find"
  /\ journal[key(h)] \in {"none", "running"}
  /\ Goto(h, IF journal[key(h)] = "none" THEN "insert" ELSE "claim")
  /\ UNCHANGED <<queue, journal, claims, copy, outcome, cut, answers, ran,
                 worked, mishaps>>

(* insertOne, which the unique index lets succeed once per key.            *)
Insert(h) ==
  /\ pc[h] = "insert"
  /\ IF journal[key(h)] = "none"
     THEN /\ journal' = [journal EXCEPT ![key(h)] = "running"]
          /\ claims' = [claims EXCEPT ![key(h)] = {attempt(h)}]
          /\ Goto(h, "execute")
     ELSE Goto(h, "claim") /\ UNCHANGED <<journal, claims>>
  /\ UNCHANGED <<queue, copy, outcome, cut, answers, ran, worked, mishaps>>

(* A slip: the filter of the update does not look at the claims.           *)
ClaimAnyAttempt(h) ==
  /\ pc[h] = "claim"
  /\ journal[key(h)] = "running"
  /\ claims' = [claims EXCEPT ![key(h)] = @ \union {attempt(h)}]
  /\ Goto(h, "execute")
  /\ UNCHANGED <<queue, journal, copy, outcome, cut, answers, ran, worked,
                 mishaps>>

(* updateOne, where the row still runs and the attempt is unclaimed.       *)
ClaimAttempt(h) ==
  /\ pc[h] = "claim"
  /\ journal[key(h)] = "running" /\ attempt(h) \notin claims[key(h)]
  /\ claims' = [claims EXCEPT ![key(h)] = @ \union {attempt(h)}]
  /\ Goto(h, "execute")
  /\ UNCHANGED <<queue, journal, copy, outcome, cut, answers, ran, worked,
                 mishaps>>

AttemptIsTaken(h) ==
  /\ pc[h] = "claim"
  /\ journal[key(h)] # "running" \/ attempt(h) \in claims[key(h)]
  /\ Ack(h)
  /\ UNCHANGED <<journal, claims, answers, ran, worked, mishaps>>

(* A slip: the last delivery of the budget is requeued as well.            *)
ExecuteOnceMore(h, result) ==
  /\ pc[h] = "execute"
  /\ outcome' = [outcome EXCEPT ![h] = result]
  /\ ran' = ran \union {copy[h]}
  /\ worked' = IF result = "success" THEN worked \union {copy[h]} ELSE worked
  /\ Goto(h, IF result = "transient" /\ attempt(h) < MaxDeliveries
             THEN "record" ELSE "finish")
  /\ UNCHANGED <<queue, journal, claims, copy, cut, answers, mishaps>>

(* execute, dispatchOne: success; a failure that retrying can help         *)
(* (isTransient); one that it cannot, or the module is frozen.             *)
Execute(h, result) ==
  /\ pc[h] = "execute"
  /\ outcome' = [outcome EXCEPT ![h] = result]
  /\ ran' = ran \union {copy[h]}
  /\ worked' = IF result = "success" THEN worked \union {copy[h]} ELSE worked
  /\ Goto(h, IF result = "transient" /\ attempt(h) + 1 < MaxDeliveries
             THEN "record" ELSE "finish")
  /\ UNCHANGED <<queue, journal, claims, copy, cut, answers, mishaps>>

(* recordAttempt, which leaves the status alone, and then "requeue".       *)
RecordAttempt(h) ==
  /\ pc[h] = "record"
  /\ Requeue(h)
  /\ UNCHANGED <<journal, claims, answers, ran, worked, mishaps>>

Finished(h) == [journal EXCEPT ![key(h)] =
  IF outcome[h] = "success" THEN "succeeded" ELSE "failed"]

(* A slip: the attempt is journalled, the row is left running.             *)
FinishAsAttempt(h) ==
  /\ pc[h] = "finish"
  /\ Goto(h, "answer")
  /\ UNCHANGED <<queue, journal, claims, copy, outcome, cut, answers, ran,
                 worked, mishaps>>

(* finish: an update by key alone.                                         *)
Finish(h) ==
  /\ pc[h] = "finish"
  /\ journal' = Finished(h)
  /\ Goto(h, "answer")
  /\ UNCHANGED <<queue, claims, copy, outcome, cut, answers, ran, worked,
                 mishaps>>

Answer(h) == <<key(h), outcome[h] = "success">>

PublishAnswer(h) ==
  /\ pc[h] = "answer"
  /\ answers' = answers \union {Answer(h)}
  /\ Ack(h)
  /\ UNCHANGED <<journal, claims, ran, worked, mishaps>>

-----------------------------------------------------------------------------
(* A call to the journal rejects, and the exception climbs to the          *)
(* consumer, which retries the delivery.  The write may have been applied. *)
StoreFails(h) ==
  /\ pc[h] \in {"find", "insert", "claim", "record", "finish"}
  /\ GoesWrong("store")
  /\ \/ UNCHANGED <<journal, claims>>
     \/ /\ pc[h] = "insert" /\ journal[key(h)] = "none"
        /\ journal' = [journal EXCEPT ![key(h)] = "running"]
        /\ claims' = [claims EXCEPT ![key(h)] = {attempt(h)}]
     \/ /\ pc[h] = "claim" /\ journal[key(h)] = "running"
        /\ claims' = [claims EXCEPT ![key(h)] = @ \union {attempt(h)}]
        /\ UNCHANGED journal
     \/ /\ pc[h] = "finish"
        /\ journal' = Finished(h)
        /\ UNCHANGED claims
  /\ Requeue(h)
  /\ UNCHANGED <<answers, ran, worked>>

(* getChannel rejects: the delivery is retried, and finds a terminal row.  *)
PublishFails(h) ==
  /\ pc[h] = "answer"
  /\ GoesWrong("broker")
  /\ Requeue(h)
  /\ UNCHANGED <<journal, claims, answers, ran, worked>>

(* The publish has no confirm: the answer can be lost without an error.    *)
AnswerIsLost(h) ==
  /\ pc[h] = "answer"
  /\ GoesWrong("broker")
  /\ Ack(h)
  /\ UNCHANGED <<journal, claims, answers, ran, worked>>

(* The channel closes: the broker redelivers the unacked copy, retry count *)
(* unchanged, while this handler goes on.                                  *)
ChannelCloses(h) ==
  /\ pc[h] # "idle" /\ ~cut[h]
  /\ GoesWrong("channel")
  /\ cut' = [cut EXCEPT ![h] = TRUE]
  /\ queue' = [queue EXCEPT ![copy[h]] = @ + 1]
  /\ UNCHANGED <<journal, claims, pc, copy, outcome, answers, ran, worked>>

Crash(h) ==
  /\ pc[h] # "idle"
  /\ GoesWrong("crash")
  /\ queue' = IF cut[h] THEN queue ELSE [queue EXCEPT ![copy[h]] = @ + 1]
  /\ Leave(h)
  /\ UNCHANGED <<journal, claims, answers, ran, worked>>

Duplicate(k) ==
  /\ GoesWrong("copy")
  /\ queue' = [queue EXCEPT ![<<k, 0>>] = @ + 1]
  /\ UNCHANGED <<journal, claims, pc, copy, outcome, cut, answers, ran, worked>>

-----------------------------------------------------------------------------
Results == {"success", "transient", "permanent"}

Claims(h) == FindTerminal(h) \/ FindOpen(h) \/ Insert(h) \/ ClaimAttempt(h)
             \/ AttemptIsTaken(h)

Carries(h) == (\E r \in Results : Execute(h, r)) \/ RecordAttempt(h)
              \/ Finish(h) \/ PublishAnswer(h)

Mishap(h) == StoreFails(h) \/ PublishFails(h) \/ AnswerIsLost(h)
             \/ ChannelCloses(h) \/ Crash(h)

Delivery(h) == (\E x \in Copies : Receive(h, x)) \/ Claims(h) \/ Carries(h)
               \/ Mishap(h)

ENext ==
  \/ \E k \in Keys : Request(k) \/ Duplicate(k)
  \/ \E h \in Handlers : Delivery(h)

ESpec == EInit /\ [][ENext]_evars

-----------------------------------------------------------------------------
Never(f) == f \in Faults => mishaps[f] = 0

(* Has claimed its attempt and not yet carried it out.                     *)
Claimed(h) == pc[h] = "execute"

(* Is somewhere between its claim and its return.                          *)
Owns(h) == pc[h] \in {"execute", "record", "finish", "answer"}

ETypeOK ==
  /\ queue \in [Copies -> Nat]
  /\ journal \in [Keys -> {"none", "running", "succeeded", "failed"}]
  /\ claims \in [Keys -> SUBSET (0..Levels)]
  /\ pc \in [Handlers -> {"idle", "find", "insert", "claim", "execute",
                          "record", "finish", "answer"}]
  /\ copy \in [Handlers -> Copies \union {NoCopy}]
  /\ outcome \in [Handlers -> Results \union {"none"}]
  /\ cut \in [Handlers -> BOOLEAN]
  /\ answers \subseteq Keys \X BOOLEAN
  /\ ran \subseteq Copies
  /\ worked \subseteq ran
  /\ mishaps \in [Faults -> Nat]
  /\ \A h \in Handlers : pc[h] # "idle" => copy[h] \in Copies

(* "Exactly-once per attempt" (final-action.consumer.ts:62): no attempt is *)
(* carried out twice, however deliveries are duplicated, redelivered under *)
(* a running handler or retried after a failed call of the journal.        *)
OncePerAttempt ==
  /\ \A h \in Handlers : Claimed(h) => copy[h] \notin ran
  /\ \A g, h \in Handlers :
       Owns(g) /\ Owns(h) /\ copy[g] = copy[h] => g = h

(* While the journal answers, an action succeeds once per key, and a key   *)
(* has one answer: no duplicate, lost answer, closed channel or crash has  *)
(* it carried out again after a success, or answered both ways.            *)
OnePerKey ==
  Never("store") =>
    /\ \A x, y \in worked : x[1] = y[1] => x = y
    /\ \A k \in Keys : ~ ({<<k, TRUE>>, <<k, FALSE>>} \subseteq answers)
=============================================================================
