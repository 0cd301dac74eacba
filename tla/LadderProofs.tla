---------------------------- MODULE LadderProofs ----------------------------
(***************************************************************************)
(* Proofs about the retry ladder, for any number of messages, consumers,   *)
(* retry levels, publishes and channel drops.                              *)
(***************************************************************************)
EXTENDS RetryLadder, TLAPS

Queues == [Consumers -> [Copies -> Nat]]

QueueTypes ==
  /\ work \in Queues /\ handling \in Queues /\ settled \in Queues
  /\ retry \in Queues /\ dlq \in Queues

(* TypeOK without its quantifier over the queues.                          *)
LEMMA TypeParts ==
  TypeOK <=>
    /\ QueueTypes
    /\ sends \in [Messages -> Nat]
    /\ drops \in 0..MaxDrops
    /\ handled \in [Consumers -> SUBSET Messages]
    /\ gaveUp \in [Consumers -> SUBSET Messages]
    /\ \A c \in Consumers, m \in Messages : retry[c][<<m, 0>>] = 0
BY DEF TypeOK, QueueTypes, Queues

(* What putting a copy into a queue, and taking one out, does to it.       *)
LEMMA PutTake ==
  ASSUME NEW queue \in Queues, NEW c \in Consumers, NEW x \in Copies
  PROVE  /\ Put(queue, c, x) \in Queues
         /\ queue[c][x] > 0 => Take(queue, c, x) \in Queues
         /\ \A d \in Consumers, y \in Copies :
              /\ Put(queue, c, x)[d][y] =
                   IF d = c /\ y = x THEN queue[d][y] + 1 ELSE queue[d][y]
              /\ Take(queue, c, x)[d][y] =
                   IF d = c /\ y = x THEN queue[d][y] - 1 ELSE queue[d][y]
BY DEF Put, Take, Queues

(* A copy of another message, or of another consumer, does not matter to   *)
(* who holds m; and taking from a queue gives it nothing.                  *)
LEMMA PutHolds ==
  ASSUME NEW queue \in Queues, NEW c \in Consumers, NEW x \in Copies,
         NEW d \in Consumers, NEW m \in Messages
  PROVE  /\ Holds(queue, d, m) => Holds(Put(queue, c, x), d, m)
         /\ d = c /\ x[1] = m => Holds(Put(queue, c, x), d, m)
<1>1. ASSUME NEW n \in 0..Levels, queue[d][<<m, n>>] > 0
      PROVE  Put(queue, c, x)[d][<<m, n>>] > 0
  <2>1. <<m, n>> \in Copies
    BY DEF Copies
  <2>2. queue[d][<<m, n>>] \in Nat
    BY <2>1 DEF Queues
  <2>3. QED
    BY <1>1, <2>1, <2>2, PutTake
<1>2. ASSUME d = c, x[1] = m
      PROVE  x[2] \in 0..Levels /\ Put(queue, c, x)[d][<<m, x[2]>>] > 0
  <2>1. x = <<m, x[2]>> /\ x[2] \in 0..Levels
    BY <1>2 DEF Copies
  <2>2. queue[d][x] \in Nat
    BY DEF Queues
  <2>3. QED
    BY <1>2, <2>1, <2>2, PutTake
<1>3. QED
  BY <1>1, <1>2 DEF Holds

LEMMA TakeHolds ==
  ASSUME NEW queue \in Queues, NEW c \in Consumers, NEW x \in Copies,
         NEW d \in Consumers, NEW m \in Messages, Holds(queue, d, m),
         ~(d = c /\ x[1] = m)
  PROVE  Holds(Take(queue, c, x), d, m)
<1>1. PICK n \in 0..Levels : queue[d][<<m, n>>] > 0
  BY DEF Holds
<1>2. <<m, n>> \in Copies /\ ~(d = c /\ <<m, n>> = x)
  BY DEF Copies
<1>3. Take(queue, c, x)[d][<<m, n>>] = queue[d][<<m, n>>]
  BY <1>2, PutTake
<1>4. QED
  BY <1>1, <1>3 DEF Holds

-----------------------------------------------------------------------------
LEMMA InitTypeOK == Init => TypeOK
<1> SUFFICES ASSUME Init PROVE TypeOK
  OBVIOUS
<1>1. NoCopies \in [Copies -> Nat]
  BY DEF NoCopies
<1>2. QueueTypes
  BY <1>1 DEF Init, QueueTypes, Queues
<1>3. \A c \in Consumers, m \in Messages : retry[c][<<m, 0>>] = 0
  <2>1. \A m \in Messages : <<m, 0>> \in Copies
    BY LadderAssumption DEF Copies
  <2>2. QED
    BY <2>1 DEF Init, NoCopies
<1>4. QED
  BY <1>2, <1>3, LadderAssumption, TypeParts DEF Init

(* What happens to one copy keeps the types, action by action.             *)
LEMMA CopyTypeOK ==
  ASSUME TypeOK, NEW c \in Consumers, NEW x \in Copies,
         Deliver(c, x) \/ HandlerReturns(c, x) \/ Ack(c, x) \/ Expire(c, x)
  PROVE  TypeOK'
<1> USE DEF QueueTypes
<1>1. /\ QueueTypes
      /\ sends \in [Messages -> Nat]
      /\ drops \in 0..MaxDrops
      /\ handled \in [Consumers -> SUBSET Messages]
      /\ gaveUp \in [Consumers -> SUBSET Messages]
        /\ \A d \in Consumers, m \in Messages : retry[d][<<m, 0>>] = 0
  BY TypeParts
<1>2. /\ x[1] \in Messages /\ x[2] \in 0..Levels
      /\ \A m \in Messages : <<m, 0>> \in Copies
      /\ x[2] < Levels => <<x[1], x[2] + 1>> \in Copies
  BY LadderAssumption DEF Copies
<1>3. CASE Deliver(c, x)
  <2>1. work' \in Queues /\ handling' \in Queues
    BY <1>1, <1>3, PutTake DEF Deliver
  <2>2. QED
    BY <1>1, <1>3, <2>1, TypeParts DEF Deliver, TypeOK, Queues
<1>4. CASE HandlerSucceeds(c, x)
  <2>1. handling' \in Queues /\ settled' \in Queues
    BY <1>1, <1>4, PutTake DEF HandlerSucceeds
  <2>2. handled' \in [Consumers -> SUBSET Messages]
    BY <1>1, <1>2, <1>4 DEF HandlerSucceeds
  <2>3. QED
    BY <1>1, <1>4, <2>1, <2>2 DEF HandlerSucceeds, TypeOK, Queues
<1>5. CASE HandlerFailsRetry(c, x)
  <2>1. handling' \in Queues /\ settled' \in Queues /\ retry' \in Queues
    BY <1>1, <1>2, <1>5, PutTake DEF HandlerFailsRetry
  <2>2. \A d \in Consumers, m \in Messages : retry'[d][<<m, 0>>] = 0
    <3> SUFFICES ASSUME NEW d \in Consumers, NEW m \in Messages
                 PROVE  retry'[d][<<m, 0>>] = 0
      OBVIOUS
    <3>1. PICK y \in Copies : y = <<x[1], x[2] + 1>>
      BY <1>2, <1>5 DEF HandlerFailsRetry
    <3>2. retry' = Put(retry, c, y) /\ <<m, 0>> # y
      BY <1>2, <1>5, <3>1 DEF HandlerFailsRetry
    <3>3. retry \in Queues /\ <<m, 0>> \in Copies
      BY <1>1, <1>2
    <3>4. Put(retry, c, y)[d][<<m, 0>>] = retry[d][<<m, 0>>]
      BY <3>2, <3>3, PutTake
    <3>5. QED
      BY <1>1, <3>2, <3>4
  <2>3. QED
    BY <1>1, <1>5, <2>1, <2>2 DEF HandlerFailsRetry, TypeOK, Queues
<1>6. CASE HandlerFailsDeadLetter(c, x)
  <2>1. handling' \in Queues /\ settled' \in Queues
    BY <1>1, <1>6, PutTake DEF HandlerFailsDeadLetter
  <2>2. dlq' \in Queues
    BY <1>1, <1>6 DEF HandlerFailsDeadLetter, Queues
  <2>3. gaveUp' \in [Consumers -> SUBSET Messages]
    BY <1>1, <1>2, <1>6 DEF HandlerFailsDeadLetter
  <2>4. QED
    BY <1>1, <1>6, <2>1, <2>2, <2>3 DEF HandlerFailsDeadLetter, TypeOK, Queues
<1>7. CASE Ack(c, x)
  <2>1. settled' \in Queues
    BY <1>1, <1>7, PutTake DEF Ack
  <2>2. QED
    BY <1>1, <1>7, <2>1 DEF Ack, TypeOK, Queues
<1>8. CASE Expire(c, x)
  <2>1. retry' \in Queues /\ work' \in Queues
    BY <1>1, <1>8, PutTake DEF Expire
  <2>2. \A d \in Consumers, m \in Messages : retry'[d][<<m, 0>>] = 0
    <3> SUFFICES ASSUME NEW d \in Consumers, NEW m \in Messages
                 PROVE  retry'[d][<<m, 0>>] = 0
      OBVIOUS
    <3>1. retry' = Take(retry, c, x) /\ retry[c][x] > 0
      BY <1>8 DEF Expire
    <3>2. retry[d][<<m, 0>>] = 0 /\ ~(d = c /\ <<m, 0>> = x)
      BY <1>1, <3>1
    <3>3. retry'[d][<<m, 0>>] = retry[d][<<m, 0>>]
      BY <1>1, <1>2, <3>1, <3>2, PutTake
    <3>4. QED
      BY <3>2, <3>3
  <2>3. QED
    BY <1>1, <1>8, <2>1, <2>2 DEF Expire, TypeOK, Queues
<1>9. QED
  BY <1>3, <1>4, <1>5, <1>6, <1>7, <1>8 DEF HandlerReturns

LEMMA PublishTypeOK ==
  ASSUME TypeOK, NEW m \in Messages, Publish(m)
  PROVE  TypeOK'
<1>1. QueueTypes /\ <<m, 0>> \in Copies /\ sends \in [Messages -> Nat]
  BY TypeParts, LadderAssumption DEF Copies
<1>2. work' \in Queues
  BY <1>1 DEF Publish, Queues, QueueTypes
<1>3. sends' \in [Messages -> Nat]
  BY <1>1 DEF Publish
<1>4. QED
  BY <1>1, <1>2, <1>3, TypeParts DEF Publish, TypeOK, QueueTypes, Queues

(* A drop moves copies from in hand to the work queue.                     *)
LEMMA DropTypeOK ==
  ASSUME TypeOK, NEW c \in Consumers, Drop(c)
  PROVE  TypeOK'
<1>1. QueueTypes /\ drops \in 0..MaxDrops
  BY TypeParts
<1>2. drops' \in 0..MaxDrops
  BY <1>1, LadderAssumption DEF Drop
<1>3. work' \in Queues /\ handling' \in Queues /\ settled' \in Queues
  BY <1>1 DEF Drop, Queues, QueueTypes
<1>4. QED
  BY <1>1, <1>2, <1>3, TypeParts DEF Drop, TypeOK, QueueTypes, Queues

LEMMA NextTypeOK == TypeOK /\ [Next]_vars => TypeOK'
<1>1. TypeOK /\ UNCHANGED vars => TypeOK'
  BY DEF TypeOK, vars
<1>2. QED
  BY <1>1, CopyTypeOK, PublishTypeOK, DropTypeOK DEF Next

(* Type correctness; and nothing waits in a retry queue that has not been  *)
(* counted as a retry (readRetryCount).                                    *)
THEOREM TypeCorrect == Spec => []TypeOK
<1>1. QED
  BY InitTypeOK, NextTypeOK, PTL DEF Spec

-----------------------------------------------------------------------------
(* Where a published message m is, for the consumer c.  With TypeOK this   *)
(* is inductive: what is unacked but done (settled) is not needed, for a   *)
(* failed copy is in the next queue before its ack goes out.               *)
Kept(c, m) ==
  \/ m \in handled[c]
  \/ Holds(work, c, m) \/ Holds(handling, c, m) \/ Holds(retry, c, m)
  \/ m \in gaveUp[c] /\ Holds(dlq, c, m)

(* A step on a copy of another message, or for another consumer, leaves    *)
(* the message where it is.                                                *)
LEMMA CopyKeepsOthers ==
  ASSUME TypeOK, NEW c \in Consumers, NEW x \in Copies,
         NEW d \in Consumers, NEW m \in Messages,
         Deliver(c, x) \/ HandlerReturns(c, x) \/ Ack(c, x) \/ Expire(c, x),
         Kept(d, m), ~(d = c /\ x[1] = m)
  PROVE  Kept(d, m)'
<1>1. /\ work \in Queues /\ handling \in Queues /\ retry \in Queues
      /\ dlq \in Queues
      /\ handled \in [Consumers -> SUBSET Messages]
      /\ gaveUp \in [Consumers -> SUBSET Messages]
  BY TypeParts DEF QueueTypes
<1>2. /\ m \in handled[d] => m \in handled'[d]
      /\ m \in gaveUp[d] => m \in gaveUp'[d]
  BY <1>1 DEF Deliver, HandlerReturns, HandlerSucceeds, HandlerFailsRetry,
              HandlerFailsDeadLetter, Ack, Expire
<1>3. Holds(work, d, m) => Holds(work', d, m)
  BY <1>1, PutHolds, TakeHolds
     DEF Deliver, HandlerReturns, HandlerSucceeds, HandlerFailsRetry,
         HandlerFailsDeadLetter, Ack, Expire
<1>4. Holds(handling, d, m) => Holds(handling', d, m)
  BY <1>1, PutHolds, TakeHolds
     DEF Deliver, HandlerReturns, HandlerSucceeds, HandlerFailsRetry,
         HandlerFailsDeadLetter, Ack, Expire
<1>5. Holds(retry, d, m) => Holds(retry', d, m)
  <2>1. x[1] \in Messages /\ x[2] < Levels => <<x[1], x[2] + 1>> \in Copies
    BY LadderAssumption DEF Copies
  <2>2. CASE HandlerFailsRetry(c, x)
    <3>1. PICK y \in Copies : y = <<x[1], x[2] + 1>>
      BY <2>1, <2>2 DEF HandlerFailsRetry, Copies
    <3>2. retry' = Put(retry, c, y)
      BY <2>2, <3>1 DEF HandlerFailsRetry
    <3>3. QED
      BY <1>1, <3>2, PutHolds
  <2>3. CASE retry' = retry
    BY <2>3
  <2>4. CASE Expire(c, x)
    BY <1>1, <2>4, TakeHolds DEF Expire
  <2>5. QED
    BY <2>2, <2>3, <2>4
       DEF Deliver, HandlerReturns, HandlerSucceeds, HandlerFailsDeadLetter, Ack
<1>6. Holds(dlq, d, m) => Holds(dlq', d, m)
  <2>1. CASE HandlerFailsDeadLetter(c, x)
    <3>1. ASSUME NEW n \in 0..Levels, dlq[d][<<m, n>>] > 0
          PROVE  dlq'[d][<<m, n>>] > 0
      <4>1. <<m, n>> \in Copies /\ dlq[d] \in [Copies -> Nat]
        BY <1>1 DEF Copies, Queues
      <4>2. dlq'[d] = [dlq[d] EXCEPT ![x] = @ + 1]
        BY <2>1 DEF HandlerFailsDeadLetter
      <4>3. QED
        BY <3>1, <4>1, <4>2
    <3>2. QED
      BY <3>1 DEF Holds
  <2>2. QED
    BY <2>1 DEF Deliver, HandlerReturns, HandlerSucceeds, HandlerFailsRetry,
                Ack, Expire
<1>7. QED
  BY <1>2, <1>3, <1>4, <1>5, <1>6 DEF Kept, Holds

(* The copy at hand itself: it goes to the next queue, or its message is   *)
(* handled or dead-lettered for good.                                      *)
LEMMA CopyKeepsItsOwn ==
  ASSUME TypeOK, NEW c \in Consumers, NEW x \in Copies, Kept(c, x[1]),
         Deliver(c, x) \/ HandlerReturns(c, x) \/ Ack(c, x) \/ Expire(c, x)
  PROVE  Kept(c, x[1])'
<1> DEFINE m == x[1]
<1>1. /\ work \in Queues /\ handling \in Queues /\ retry \in Queues
      /\ dlq \in Queues
      /\ handled \in [Consumers -> SUBSET Messages]
      /\ gaveUp \in [Consumers -> SUBSET Messages]
      /\ m \in Messages /\ x[2] \in 0..Levels /\ x = <<m, x[2]>>
  BY TypeParts DEF QueueTypes, Copies
<1>2. CASE Deliver(c, x)
  <2>1. Holds(Put(handling, c, x), c, m)
    BY <1>1, PutHolds
  <2>2. QED
    BY <1>2, <2>1 DEF Deliver, Kept, Holds
<1>3. CASE HandlerSucceeds(c, x)
  BY <1>1, <1>3 DEF HandlerSucceeds, Kept
<1>4. CASE HandlerFailsRetry(c, x)
  <2>1. PICK y \in Copies : y = <<x[1], x[2] + 1>>
    BY <1>1, <1>4, LadderAssumption DEF HandlerFailsRetry, Copies
  <2>2. Holds(Put(retry, c, y), c, m)
    BY <1>1, <2>1, PutHolds
  <2>3. QED
    BY <1>4, <2>1, <2>2 DEF HandlerFailsRetry, Kept, Holds
<1>5. CASE HandlerFailsDeadLetter(c, x)
  <2>1. m \in gaveUp'[c]
    BY <1>1, <1>5 DEF HandlerFailsDeadLetter
  <2>2. dlq[c] \in [Copies -> Nat] /\ dlq'[c] = [dlq[c] EXCEPT ![x] = @ + 1]
    BY <1>1, <1>5 DEF HandlerFailsDeadLetter, Queues
  <2>3. dlq'[c][<<m, x[2]>>] > 0
    BY <1>1, <2>2
  <2>4. QED
    BY <1>1, <2>1, <2>3 DEF Kept, Holds
<1>6. CASE Ack(c, x)
  BY <1>6 DEF Ack, Kept, Holds
<1>7. CASE Expire(c, x)
  <2>1. Holds(Put(work, c, x), c, m)
    BY <1>1, PutHolds
  <2>2. QED
    BY <1>7, <2>1 DEF Expire, Kept, Holds
<1>8. QED
  BY <1>2, <1>3, <1>4, <1>5, <1>6, <1>7 DEF HandlerReturns

(* A published message starts in every work queue.                         *)
LEMMA PublishKeeps ==
  ASSUME TypeOK, NEW c \in Consumers, NEW m \in Messages, NEW p \in Messages,
         Publish(p), Kept(c, m) \/ p = m
  PROVE  Kept(c, m)'
<1>1. work[c] \in [Copies -> Nat] /\ <<p, 0>> \in Copies /\ 0 \in 0..Levels
  <2>1. work \in Queues
    BY TypeParts DEF QueueTypes
  <2>2. 0 \in 0..Levels
    BY LadderAssumption
  <2>3. QED
    BY <2>1, <2>2 DEF Queues, Copies
<1>2. work'[c] = [work[c] EXCEPT ![<<p, 0>>] = @ + 1]
  BY DEF Publish
<1>3. CASE p = m
  <2>1. work'[c][<<m, 0>>] > 0
    BY <1>1, <1>2, <1>3
  <2>2. QED
    BY <1>1, <2>1 DEF Kept, Holds
<1>4. CASE Kept(c, m)
  <2>1. ASSUME NEW n \in 0..Levels, work[c][<<m, n>>] > 0
        PROVE  work'[c][<<m, n>>] > 0
    <3>1. <<m, n>> \in Copies
      BY DEF Copies
    <3>2. QED
      BY <1>1, <1>2, <2>1, <3>1
  <2>2. QED
    BY <1>4, <2>1 DEF Publish, Kept, Holds
<1>5. QED
  BY <1>3, <1>4

(* What was being handled when the channel dropped is in the work queue.   *)
LEMMA DropKeeps ==
  ASSUME TypeOK, NEW c \in Consumers, NEW m \in Messages, NEW d \in Consumers,
         Drop(d), Kept(c, m)
  PROVE  Kept(c, m)'
<1>1. QueueTypes
  BY TypeParts
<1>2. PICK S \in SUBSET Copies :
        /\ work' = [work EXCEPT ![d] = [x \in Copies |->
                      IF x \in S THEN work[d][x] + handling[d][x] + settled[d][x]
                                 ELSE work[d][x]]]
        /\ handling' = [handling EXCEPT ![d] =
                          [x \in Copies |-> IF x \in S THEN 0 ELSE handling[d][x]]]
  BY DEF Drop
<1>3. ASSUME NEW x \in Copies, work[c][x] > 0 \/ handling[c][x] > 0
      PROVE  work'[c][x] > 0 \/ handling'[c][x] > 0
  BY <1>1, <1>2, <1>3 DEF QueueTypes, Queues
<1>4. Holds(work, c, m) \/ Holds(handling, c, m)
        => Holds(work', c, m) \/ Holds(handling', c, m)
  <2>1. \A n \in 0..Levels : <<m, n>> \in Copies
    BY DEF Copies
  <2>2. QED
    BY <1>3, <2>1 DEF Holds
<1>5. QED
  BY <1>4 DEF Drop, Kept, Holds

LEMMA NextNeverDropped ==
  TypeOK /\ NeverDropped /\ [Next]_vars => NeverDropped'
<1> SUFFICES ASSUME TypeOK, NeverDropped, [Next]_vars,
                    NEW c \in Consumers, NEW m \in Messages, sends'[m] > 0
             PROVE  Kept(c, m)'
  BY DEF NeverDropped, Kept
<1>1. sends \in [Messages -> Nat] /\ (sends[m] > 0 => Kept(c, m))
  BY TypeParts DEF NeverDropped, Kept
<1>2. CASE \E p \in Messages : Publish(p)
  <2>1. PICK p \in Messages : Publish(p)
    BY <1>2
  <2>2. p = m \/ sends[m] > 0
    BY <1>1, <2>1 DEF Publish
  <2>3. QED
    BY <1>1, <2>1, <2>2, PublishKeeps
<1>3. CASE \E d \in Consumers : Drop(d)
  BY <1>1, <1>3, DropKeeps DEF Drop
<1>4. ASSUME NEW d \in Consumers, NEW x \in Copies,
             Deliver(d, x) \/ HandlerReturns(d, x) \/ Ack(d, x) \/ Expire(d, x)
      PROVE  Kept(c, m)'
  <2>1. Kept(c, m)
    BY <1>1, <1>4 DEF Deliver, HandlerReturns, HandlerSucceeds,
         HandlerFailsRetry, HandlerFailsDeadLetter, Ack, Expire
  <2>2. QED
    BY <1>4, <2>1, CopyKeepsOthers, CopyKeepsItsOwn
<1>5. CASE UNCHANGED vars
  BY <1>1, <1>5 DEF vars, Kept, Holds
<1>6. QED
  BY <1>2, <1>3, <1>4, <1>5 DEF Next

(* No consumer ever loses a message: it was handled, is on its way to the  *)
(* handler, or was given up and sits in the dead-letter queue; whatever    *)
(* the number of copies, channels dropping between any two frames.         *)
THEOREM NothingIsDropped == Spec => []NeverDropped
<1>1. Init => NeverDropped
  BY DEF Init, NeverDropped
<1>2. QED
  BY <1>1, NextNeverDropped, TypeCorrect, PTL DEF Spec
=============================================================================
