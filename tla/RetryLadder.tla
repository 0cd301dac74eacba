---------------------------- MODULE RetryLadder ----------------------------
(***************************************************************************)
(* The consumer side of the bus: a work queue per consumer on the topic    *)
(* exchange, a bounded ladder of retry queues and a terminal dead-letter   *)
(* queue (shared/src/bus-topology.ts, consumer-dlq.ts, and the consumer    *)
(* class every domain has a copy of, orders/src/messaging/                 *)
(* rabbitmq.consumer.ts).                                                  *)
(*                                                                         *)
(* A copy <<m, n>> is a delivery of message m whose x-retry-count header   *)
(* says n; a queue counts the copies it holds, for deliveries duplicate.   *)
(* A consumer acks nothing before it is done: a copy is being handled, or  *)
(* done and its ack on the way.  A channel that drops gives the unacked    *)
(* copies back to the work queue, header unchanged.  The two frames of a   *)
(* failed delivery, the re-publish and the ack, go out in that order and   *)
(* the drop may fall between them.                                         *)
(***************************************************************************)
EXTENDS Integers

CONSTANTS
  Messages,
  Consumers,  \* the work queues bound to the messages' routing keys
  Levels,     \* DLQ_RETRY_LEVELS_MS.length, topology.maxAttempts
  MaxSends,   \* bound: times the publisher may publish a message
  MaxDrops    \* bound: times a channel drops

ASSUME LadderAssumption ==
  /\ Levels \in Nat
  /\ MaxSends \in Nat
  /\ MaxDrops \in Nat

VARIABLES
  sends,     \* Messages -> times published
  drops,     \* channel drops so far
  work,      \* Consumers -> copies in the work queue
  handling,  \* Consumers -> copies delivered, handler still running
  settled,   \* Consumers -> copies done with, ack not yet at the broker
  retry,     \* Consumers -> copies waiting out a retry delay
  dlq,       \* Consumers -> copies in <queue>.dlq
  handled,   \* Consumers -> messages the handler succeeded on
  gaveUp     \* Consumers -> messages the consumer dead-lettered

vars == <<sends, drops, work, handling, settled, retry, dlq, handled, gaveUp>>

Copies == Messages \X (0..Levels)

NoCopies == [x \in Copies |-> 0]

Put(queue, c, x) == [queue EXCEPT ![c][x] = @ + 1]

Take(queue, c, x) == [queue EXCEPT ![c][x] = @ - 1]

Holds(queue, c, m) == \E n \in 0..Levels : queue[c][<<m, n>>] > 0

Init ==
  /\ sends = [m \in Messages |-> 0]
  /\ drops = 0
  /\ work = [c \in Consumers |-> NoCopies]
  /\ handling = [c \in Consumers |-> NoCopies]
  /\ settled = [c \in Consumers |-> NoCopies]
  /\ retry = [c \in Consumers |-> NoCopies]
  /\ dlq = [c \in Consumers |-> NoCopies]
  /\ handled = [c \in Consumers |-> {}]
  /\ gaveUp = [c \in Consumers |-> {}]

-----------------------------------------------------------------------------
(* The topic exchange routes a message to every work queue bound to its    *)
(* key; the relay may publish it again.                                    *)
Publish(m) ==
  /\ sends[m] < MaxSends
  /\ sends' = [sends EXCEPT ![m] = @ + 1]
  /\ work' = [c \in Consumers |-> [work[c] EXCEPT ![<<m, 0>>] = @ + 1]]
  /\ UNCHANGED <<drops, handling, settled, retry, dlq, handled, gaveUp>>

(* The broker pushes a copy and the handler starts.  There is no prefetch: *)
(* any number of handlers run at once.                                     *)
Deliver(c, x) ==
  /\ work[c][x] > 0
  /\ work' = Take(work, c, x)
  /\ handling' = Put(handling, c, x)
  /\ UNCHANGED <<sends, drops, settled, retry, dlq, handled, gaveUp>>

HandlerSucceeds(c, x) ==
  /\ handling[c][x] > 0
  /\ handling' = Take(handling, c, x)
  /\ settled' = Put(settled, c, x)
  /\ handled' = [handled EXCEPT ![c] = @ \union {x[1]}]
  /\ UNCHANGED <<sends, drops, work, retry, dlq, gaveUp>>

(* A slip: the retry is stamped with the old count.                        *)
RetryKeepsCount(c, x) ==
  /\ x[2] < Levels
  /\ handling[c][x] > 0
  /\ handling' = Take(handling, c, x)
  /\ settled' = Put(settled, c, x)
  /\ retry' = Put(retry, c, x)
  /\ UNCHANGED <<sends, drops, work, dlq, handled, gaveUp>>

(* dlqDecision "retry": one more pass through the level's retry queue.     *)
HandlerFailsRetry(c, x) ==
  /\ x[2] < Levels
  /\ handling[c][x] > 0
  /\ handling' = Take(handling, c, x)
  /\ settled' = Put(settled, c, x)
  /\ retry' = Put(retry, c, <<x[1], x[2] + 1>>)
  /\ UNCHANGED <<sends, drops, work, dlq, handled, gaveUp>>

(* dlqDecision "dead_letter": the dead-letter exchange is a fanout that    *)
(* every consumer's dlq is bound to.                                       *)
HandlerFailsDeadLetter(c, x) ==
  /\ x[2] >= Levels
  /\ handling[c][x] > 0
  /\ handling' = Take(handling, c, x)
  /\ settled' = Put(settled, c, x)
  /\ dlq' = [d \in Consumers |-> [dlq[d] EXCEPT ![x] = @ + 1]]
  /\ gaveUp' = [gaveUp EXCEPT ![c] = @ \union {x[1]}]
  /\ UNCHANGED <<sends, drops, work, retry, handled>>

(* A slip: ack(message, allUpTo) also acks what is still being handled.    *)
AckAllUpTo(c, x) ==
  /\ settled[c][x] > 0
  /\ settled' = Take(settled, c, x)
  /\ handling' = [handling EXCEPT ![c] = NoCopies]
  /\ UNCHANGED <<sends, drops, work, retry, dlq, handled, gaveUp>>

Ack(c, x) ==
  /\ settled[c][x] > 0
  /\ settled' = Take(settled, c, x)
  /\ UNCHANGED <<sends, drops, work, handling, retry, dlq, handled, gaveUp>>

(* A slip, the one the topology's header tells of: an expired message goes *)
(* to the topic exchange, where nothing is bound to its key.               *)
ExpireUnroutable(c, x) ==
  /\ retry[c][x] > 0
  /\ retry' = Take(retry, c, x)
  /\ UNCHANGED <<sends, drops, work, handling, settled, dlq, handled, gaveUp>>

(* The delay of a retry queue is over: straight back to the work queue.    *)
Expire(c, x) ==
  /\ retry[c][x] > 0
  /\ retry' = Take(retry, c, x)
  /\ work' = Put(work, c, x)
  /\ UNCHANGED <<sends, drops, handling, settled, dlq, handled, gaveUp>>

(* The channel of one replica of c drops, or the replica dies: its unacked *)
(* copies are redelivered to whoever consumes the queue next.              *)
Drop(c) ==
  /\ drops < MaxDrops
  /\ drops' = drops + 1
  /\ \E S \in SUBSET {x \in Copies : handling[c][x] + settled[c][x] > 0} :
       /\ S # {}
       /\ work' = [work EXCEPT ![c] = [x \in Copies |->
                     IF x \in S THEN work[c][x] + handling[c][x] + settled[c][x]
                                ELSE work[c][x]]]
       /\ handling' = [handling EXCEPT ![c] =
                         [x \in Copies |-> IF x \in S THEN 0 ELSE handling[c][x]]]
       /\ settled' = [settled EXCEPT ![c] =
                        [x \in Copies |-> IF x \in S THEN 0 ELSE settled[c][x]]]
  /\ UNCHANGED <<sends, retry, dlq, handled, gaveUp>>

-----------------------------------------------------------------------------
HandlerReturns(c, x) ==
  HandlerSucceeds(c, x) \/ HandlerFailsRetry(c, x) \/ HandlerFailsDeadLetter(c, x)

Next ==
  \/ \E m \in Messages : Publish(m)
  \/ \E c \in Consumers : Drop(c)
  \/ \E c \in Consumers, x \in Copies :
       Deliver(c, x) \/ HandlerReturns(c, x) \/ Ack(c, x) \/ Expire(c, x)

Spec == Init /\ [][Next]_vars

(* The broker delivers and expires what it holds, and a handler returns,   *)
(* one way or the other: reconnectLoop keeps a consumer on the queue.      *)
Fairness ==
  \A c \in Consumers, x \in Copies :
    /\ WF_vars(Deliver(c, x))
    /\ WF_vars(HandlerReturns(c, x))
    /\ WF_vars(Expire(c, x))

FairSpec == Spec /\ Fairness

-----------------------------------------------------------------------------
(* The types of the variables.  What waits in a retry queue has been       *)
(* stamped with at least one retry.                                        *)
TypeOK ==
  /\ sends \in [Messages -> Nat]
  /\ drops \in 0..MaxDrops
  /\ \A queue \in {work, handling, settled, retry, dlq} :
       queue \in [Consumers -> [Copies -> Nat]]
  /\ handled \in [Consumers -> SUBSET Messages]
  /\ gaveUp \in [Consumers -> SUBSET Messages]
  /\ \A c \in Consumers, m \in Messages : retry[c][<<m, 0>>] = 0

(* A message that was published is never lost by a consumer: its handler   *)
(* succeeded, or a copy is still on its way to the handler, or the         *)
(* consumer gave up on it and it sits in its dead-letter queue.  "Never    *)
(* silently dropped" (consumer-dlq.ts dlqDecision), with channels dropping *)
(* between any two frames.                                                 *)
NeverDropped ==
  \A c \in Consumers, m \in Messages :
    sends[m] > 0 =>
      \/ m \in handled[c]
      \/ Holds(work, c, m) \/ Holds(handling, c, m) \/ Holds(retry, c, m)
      \/ m \in gaveUp[c] /\ Holds(dlq, c, m)

(* Every published message is dealt with in the end.                       *)
EventuallySettled ==
  \A c \in Consumers, m \in Messages :
    sends[m] > 0 ~> m \in handled[c] \union gaveUp[c]
=============================================================================
