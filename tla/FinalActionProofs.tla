------------------------- MODULE FinalActionProofs -------------------------
(***************************************************************************)
(* Proofs about the final-action saga, for any number of deliveries and    *)
(* requests in progress, any length of the ladder, any choice of faults    *)
(* and any bounds.                                                         *)
(***************************************************************************)
EXTENDS FinalAction, TLAPS

Waits(x) == queue[x] > 0

InHand(x) == \E h \in Handlers : copy[h] = x

(* A copy of the attempt is on its way or in hand.                         *)
Present(x) == Waits(x) \/ InHand(x)

Terminal(k) == journal[k] \in {"succeeded", "failed"}

IdleIsFree ==
  \A h \in Handlers :
    /\ pc[h] = "idle" <=> copy[h] = NoCopy
    /\ pc[h] \in {"record", "finish", "answer"} => outcome[h] # "none"

(* What was carried out, and who is about to, has claimed its attempt.     *)
ClaimsComeFirst ==
  /\ \A x \in ran : x[2] \in claims[x[1]]
  /\ \A h \in Handlers : Owns(h) => attempt(h) \in claims[key(h)]
  /\ \A k \in Keys : journal[k] = "none" <=> claims[k] = {}

ExecInv ==
  /\ ETypeOK
  /\ IdleIsFree
  /\ ClaimsComeFirst
  /\ OncePerAttempt

(* The attempts of a key follow each other: an attempt has a copy only     *)
(* after the one before was claimed and given up.                          *)
InOrder ==
  /\ \A x \in Copies : Present(x) /\ x[2] > 0 => x[2] - 1 \in claims[x[1]]
  /\ \A k \in Keys : \A n \in claims[k] : \A m \in 0..n : m \in claims[k]
  /\ \A h \in Handlers : Owns(h) =>
       /\ claims[key(h)] \subseteq 0..attempt(h)
       /\ \A x \in Copies : x[1] = key(h) /\ x[2] > attempt(h) => ~Present(x)

OneOwnerPerKey ==
  \A g, h \in Handlers : Owns(g) /\ Owns(h) /\ key(g) = key(h) => g = h

(* The row runs until its owner finishes it, and then tells the outcome.   *)
OwnerKnows ==
  \A h \in Handlers :
    /\ pc[h] \in {"execute", "record", "finish"} => journal[key(h)] = "running"
    /\ pc[h] = "answer" =>
         journal[key(h)] = IF outcome[h] = "success" THEN "succeeded" ELSE "failed"
    /\ pc[h] = "record" => outcome[h] = "transient"
    /\ Owns(h) /\ copy[h] \in worked => outcome[h] = "success"

(* After a success nothing follows: no later attempt is claimed, and none  *)
(* has a copy unless the row is terminal.                                  *)
NothingAfterSuccess ==
  \A x \in worked :
    /\ claims[x[1]] \subseteq 0..x[2]
    /\ \/ Terminal(x[1])
       \/ \A y \in Copies : y[1] = x[1] /\ y[2] > x[2] => ~Present(y)

AnswersAreJournalled ==
  \A k \in Keys :
    /\ <<k, TRUE>> \in answers => journal[k] = "succeeded"
    /\ <<k, FALSE>> \in answers => journal[k] = "failed"

KeyOrder ==
  /\ InOrder
  /\ OneOwnerPerKey
  /\ OwnerKnows
  /\ NothingAfterSuccess
  /\ AnswersAreJournalled

KeyInv == Never("store") => KeyOrder

(* A success that is on record is one that took place.                     *)
SuccessIsEarned ==
  /\ \A h \in Handlers :
       pc[h] \in {"record", "finish", "answer"} /\ outcome[h] = "success"
         => copy[h] \in worked
  /\ \A k \in Keys : <<k, TRUE>> \in answers => \E x \in worked : x[1] = k

DoneInv ==
  /\ SuccessIsEarned
  /\ status = "DONE" => <<sentKey, TRUE>> \in answers

Answered(k) == \E ok \in BOOLEAN : <<k, ok>> \in answers

Owned(k) == \E h \in Handlers : Owns(h) /\ key(h) = k

(* A copy whose attempt can still be claimed.                              *)
Fresh(x) == Present(x) /\ x[2] \notin claims[x[1]] /\ ~Terminal(x[1])

OnItsWay(k) ==
  \/ Answered(k)
  \/ Owned(k)
  \/ \E x \in Copies : x[1] = k /\ Fresh(x)

NothingIsLost == \A f \in {"store", "broker", "channel", "crash"} : Never(f)

LossOrder ==
  /\ \A h \in Handlers :
       /\ ~cut[h]
       /\ pc[h] = "claim" => journal[key(h)] # "none"
       /\ pc[h] = "record" => attempt(h) < Levels
  /\ \A x \in Copies : Present(x) => x[1] \in sent
  /\ \A k \in Keys : claims[k] # {} => k \in sent
  /\ \A k \in sent : OnItsWay(k)

LossInv == NothingIsLost => LossOrder

-----------------------------------------------------------------------------
(* What a fault leaves behind, the bound set aside.                        *)
LEMMA Mishaps ==
  ASSUME NEW f, GoesWrong(f)
  PROVE  f \in Faults /\ mishaps' = [mishaps EXCEPT ![f] = @ + 1]
  BY DEF GoesWrong

(* The delivery in hand, taken apart.                                      *)
LEMMA CopyInHand ==
  ASSUME ETypeOK, NEW h \in Handlers, pc[h] # "idle"
  PROVE  /\ copy[h] \in Copies
         /\ key(h) \in Keys
         /\ attempt(h) \in 0..Levels
         /\ copy[h] = <<key(h), attempt(h)>>
  BY DEF ETypeOK, Copies, key, attempt

LEMMA Returns ==
  ASSUME ETypeOK, IdleIsFree, NEW h \in Handlers, Leave(h)
  PROVE  /\ pc' = [pc EXCEPT ![h] = "idle"]
         /\ copy' = [copy EXCEPT ![h] = NoCopy]
         /\ pc' \in [Handlers -> {"idle", "find", "insert", "claim", "execute",
                                  "record", "finish", "answer"}]
         /\ copy' \in [Handlers -> Copies \union {NoCopy}]
         /\ outcome' \in [Handlers -> Results \union {"none"}]
         /\ cut' \in [Handlers -> BOOLEAN]
         /\ \A g \in Handlers : pc'[g] # "idle" => copy'[g] \in Copies
         /\ IdleIsFree'
  BY DEF ETypeOK, IdleIsFree, Leave, Goto

(* Down the ladder, or out of it.                                          *)
LEMMA Requeues ==
  ASSUME ETypeOK, NEW h \in Handlers, pc[h] # "idle", Requeue(h)
  PROVE  /\ Leave(h)
         /\ queue' \in [Copies -> Nat]
         /\ \A x \in Copies :
              /\ queue'[x] >= queue[x]
              /\ queue'[x] > queue[x] => /\ x = <<key(h), attempt(h) + 1>>
                                         /\ ~cut[h]
         /\ ~cut[h] /\ attempt(h) < Levels =>
              queue'[<<key(h), attempt(h) + 1>>] > 0
<1>1. CASE cut[h] \/ attempt(h) >= Levels
  BY <1>1, CopyInHand, ExecutorAssumption DEF Requeue, ETypeOK
<1>2. CASE ~(cut[h] \/ attempt(h) >= Levels)
  <2>a. key(h) \in Keys /\ attempt(h) + 1 \in 0..Levels
    BY <1>2, CopyInHand, ExecutorAssumption
  <2>1. PICK y \in Copies : y = <<key(h), attempt(h) + 1>>
    BY <2>a DEF Copies
  <2>2. queue' = [queue EXCEPT ![y] = @ + 1]
    BY <1>2, <2>1 DEF Requeue
  <2> QED
    BY <1>2, <2>1, <2>2 DEF Requeue, ETypeOK
<1> QED
  BY <1>1, <1>2

-----------------------------------------------------------------------------
LEMMA InitIsTyped == Init => TypeOK /\ IdleIsFree
<1> SUFFICES ASSUME Init PROVE TypeOK /\ IdleIsFree
  OBVIOUS
<1>1. ETypeOK /\ IdleIsFree
  BY DEF Init, EInit, ETypeOK, IdleIsFree
<1> QED
  BY <1>1, OrdersAssumption DEF Init, TypeOK, Statuses, NoKey, Idle, Ops

(* Types survive every step of the executor.                               *)
LEMMA ExecutorIsTyped ==
  ASSUME ETypeOK, IdleIsFree, ENext
  PROVE  ETypeOK' /\ IdleIsFree'
<1>1. ASSUME NEW k \in Keys, Request(k) \/ Duplicate(k)
      PROVE  ETypeOK' /\ IdleIsFree'
  <2>0. 0 \in 0..Levels
    BY ExecutorAssumption
  <2>1. PICK x \in Copies : x = <<k, 0>>
    BY <2>0 DEF Copies
  <2>2. /\ queue' = [queue EXCEPT ![x] = @ + 1]
        /\ mishaps' \in [Faults -> Nat]
        /\ UNCHANGED <<journal, claims, pc, copy, outcome, cut, answers, ran, worked>>
    BY <1>1, <2>1, Mishaps DEF Request, Duplicate, ETypeOK
  <2> QED
    BY <2>1, <2>2 DEF ETypeOK, IdleIsFree
<1>2. ASSUME NEW h \in Handlers, NEW x \in Copies, Receive(h, x)
      PROVE  ETypeOK' /\ IdleIsFree'
  <2>1. queue' \in [Copies -> Nat] /\ x # NoCopy
    BY <1>2, ExecutorAssumption DEF Receive, ETypeOK, Copies
  <2> QED
    BY <1>2, <2>1 DEF Receive, ETypeOK, IdleIsFree, Goto
<1>3. ASSUME NEW h \in Handlers, Claims(h)
      PROVE  ETypeOK' /\ IdleIsFree'
  <2> USE <1>3
  <2>1. pc[h] # "idle"
    BY DEF Claims, FindTerminal, FindOpen, Insert, ClaimAttempt, AttemptIsTaken
  <2>2. CASE FindTerminal(h) \/ AttemptIsTaken(h)
    BY <2>1, <2>2, Returns DEF FindTerminal, AttemptIsTaken, Ack, ETypeOK
  <2>3. CASE FindOpen(h) \/ Insert(h) \/ ClaimAttempt(h)
    <3>1. journal' \in [Keys -> {"none", "running", "succeeded", "failed"}]
          /\ claims' \in [Keys -> SUBSET (0..Levels)]
      BY <2>1, <2>3, CopyInHand DEF FindOpen, Insert, ClaimAttempt, ETypeOK
    <3>2. \E l \in {"insert", "claim", "execute"} : Goto(h, l)
      BY <2>3 DEF FindOpen, Insert, ClaimAttempt
    <3>3. UNCHANGED <<queue, copy, outcome, cut, answers, ran, worked, mishaps>>
      BY <2>3 DEF FindOpen, Insert, ClaimAttempt
    <3> QED
      BY <2>1, <3>1, <3>2, <3>3 DEF ETypeOK, IdleIsFree, Goto
  <2> QED
    BY <2>2, <2>3 DEF Claims
<1>4. ASSUME NEW h \in Handlers, Carries(h)
      PROVE  ETypeOK' /\ IdleIsFree'
  <2> USE <1>4
  <2>1. pc[h] # "idle"
    BY DEF Carries, Execute, RecordAttempt, Finish, PublishAnswer
  <2>2. ASSUME NEW r \in Results, Execute(h, r)
        PROVE  ETypeOK' /\ IdleIsFree'
    <3>1. ran' \subseteq Copies /\ worked' \subseteq ran'
      BY <2>1, <2>2, CopyInHand DEF Execute, ETypeOK
    <3> QED
      BY <2>1, <2>2, <3>1 DEF Execute, ETypeOK, IdleIsFree, Goto, Results
  <2>3. CASE RecordAttempt(h)
    BY <2>1, <2>3, Requeues, Returns DEF RecordAttempt, ETypeOK
  <2>4. CASE Finish(h)
    <3>1. journal' \in [Keys -> {"none", "running", "succeeded", "failed"}]
      BY <2>1, <2>4, CopyInHand DEF Finish, Finished, ETypeOK
    <3> QED
      BY <2>1, <2>4, <3>1 DEF Finish, ETypeOK, IdleIsFree, Goto
  <2>5. CASE PublishAnswer(h)
    <3>0. key(h) \in Keys /\ (outcome[h] = "success") \in BOOLEAN
      BY <2>1, CopyInHand
    <3>1. PICK a \in Keys \X BOOLEAN : a = Answer(h)
      BY <3>0 DEF Answer
    <3>2. answers' \subseteq Keys \X BOOLEAN
      BY <2>5, <3>1 DEF PublishAnswer, ETypeOK
    <3> QED
      BY <2>1, <2>5, <3>2, Returns DEF PublishAnswer, Ack, ETypeOK
  <2> QED
    BY <2>2, <2>3, <2>4, <2>5 DEF Carries
<1>5. ASSUME NEW h \in Handlers, Mishap(h)
      PROVE  ETypeOK' /\ IdleIsFree'
  <2> USE <1>5
  <2>1. pc[h] # "idle"
    BY DEF Mishap, StoreFails, PublishFails, AnswerIsLost, ChannelCloses, Crash
  <2>2. mishaps' \in [Faults -> Nat]
    BY Mishaps DEF Mishap, StoreFails, PublishFails, AnswerIsLost, ChannelCloses,
                   Crash, ETypeOK
  <2>3. CASE StoreFails(h)
    <3>1. journal' \in [Keys -> {"none", "running", "succeeded", "failed"}]
          /\ claims' \in [Keys -> SUBSET (0..Levels)]
      BY <2>1, <2>3, CopyInHand DEF StoreFails, Finished, ETypeOK
    <3>2. Requeue(h) /\ UNCHANGED <<answers, ran, worked>>
      BY <2>3 DEF StoreFails
    <3> QED
      BY <2>1, <2>2, <3>1, <3>2, Requeues, Returns DEF ETypeOK
  <2>4. CASE PublishFails(h) \/ AnswerIsLost(h)
    <3>1. CASE PublishFails(h)
      BY <2>1, <2>2, <3>1, Requeues, Returns DEF PublishFails, ETypeOK
    <3>2. CASE AnswerIsLost(h)
      BY <2>1, <2>2, <3>2, Returns DEF AnswerIsLost, Ack, ETypeOK
    <3> QED
      BY <2>4, <3>1, <3>2
  <2>5. CASE ChannelCloses(h)
    BY <2>1, <2>2, <2>5 DEF ChannelCloses, ETypeOK, IdleIsFree
  <2>6. CASE Crash(h)
    <3>1. queue' \in [Copies -> Nat]
      BY <2>1, <2>6 DEF Crash, ETypeOK
    <3> QED
      BY <2>2, <2>6, <3>1, Returns DEF Crash, ETypeOK
  <2> QED
    BY <2>3, <2>4, <2>5, <2>6 DEF Mishap
<1> QED
  BY <1>1, <1>2, <1>3, <1>4, <1>5 DEF ENext, Delivery

-----------------------------------------------------------------------------
(* What is sent is asked under a key of the bounded set.                   *)
LEMMA SendsAKey ==
  ASSUME TypeOK, NEW u \in Users
  PROVE  /\ Move(u) => <<request[u].pgen, request[u].sgen>> \in Keys
         /\ Retry(u) => <<request[u].pgen, request[u].sgen + 1>> \in Keys
<1>1. ASSUME Move(u) \/ Retry(u)
      PROVE  request[u].pgen \in 1..MaxGen /\ request[u].sgen \in 1..MaxGen
  BY <1>1 DEF TypeOK, Move, Retry
<1>2. ASSUME Retry(u) PROVE request[u].sgen + 1 \in 1..MaxGen
  BY <1>1, <1>2, OrdersAssumption DEF Retry
<1> QED
  BY <1>1, <1>2, OrdersAssumption

(* To the executor, a step of the sale is a request or nothing at all.     *)
LEMMA StepsMap ==
  ASSUME TypeOK, Next
  PROVE  ENext \/ UNCHANGED evars
<1>1. ASSUME NEW u \in Users, API(u)
      PROVE  ENext \/ UNCHANGED evars
  <2>1. ASSUME NEW k \in Keys, Send(k) PROVE ENext
    BY <2>1 DEF Send, ENext
  <2>2. CASE Move(u)
    BY <2>1, <2>2, SendsAKey DEF Move
  <2>3. CASE Retry(u)
    BY <2>1, <2>3, SendsAKey DEF Retry
  <2>4. CASE \/ \E op \in Ops : Read(u, op)
             \/ Cancel(u) \/ Edit(u) \/ Abandon(u)
    BY <2>4 DEF Read, Cancel, Edit, Abandon
  <2> QED
    BY <1>1, <2>2, <2>3, <2>4 DEF API
<1>2. ASSUME NEW k, NEW ok, ApplyAnswer(k, ok) PROVE UNCHANGED evars
  BY <1>2 DEF ApplyAnswer
<1>3. CASE Watchdog
  BY <1>3 DEF Watchdog, Scan, Expire
<1>4. CASE Automation
  BY <1>4 DEF Automation, ENext, TypeOK
<1> QED
  BY <1>1, <1>2, <1>3, <1>4 DEF Next

OrderTyped ==
  /\ status \in Statuses
  /\ payloadGen \in 1..MaxGen
  /\ sendGen \in 1..MaxGen
  /\ sentKey \in Keys \union {NoKey}
  /\ asked \in Nat
  /\ request \in [Users -> [op : Ops \union {"none"}, pgen : 0..MaxGen,
                            sgen : 0..MaxGen]]
  /\ stale \in Keys \union {NoKey}
  /\ sent \subseteq Keys
  /\ \A u \in Users : request[u].op # "none" =>
       request[u].pgen \in 1..MaxGen /\ request[u].sgen \in 1..MaxGen
  /\ status = "SENDING" => sentKey \in Keys

LEMMA Replies ==
  ASSUME OrderTyped, NEW u \in Users, Reply(u)
  PROVE  /\ request' \in [Users -> [op : Ops \union {"none"}, pgen : 0..MaxGen,
                                    sgen : 0..MaxGen]]
         /\ \A v \in Users : request'[v].op # "none" =>
              request'[v].pgen \in 1..MaxGen /\ request'[v].sgen \in 1..MaxGen
         /\ \A v \in Users : request'[v].op # "none" => request'[v] = request[v]
<1>1. Idle \in [op : Ops \union {"none"}, pgen : 0..MaxGen, sgen : 0..MaxGen]
      /\ Idle.op = "none"
  BY OrdersAssumption DEF Idle
<1> QED
  BY <1>1 DEF OrderTyped, Reply

LEMMA OrdersAreTyped ==
  ASSUME TypeOK, Next
  PROVE  OrderTyped'
<1>0. OrderTyped
  BY DEF TypeOK, OrderTyped
<1>1. ASSUME NEW u \in Users, API(u)
      PROVE  OrderTyped'
  <2>1. ASSUME NEW op \in Ops, Read(u, op) PROVE OrderTyped'
    <3> DEFINE r == [op |-> op, pgen |-> payloadGen, sgen |-> sendGen]
    <3>1. /\ r \in [op : Ops \union {"none"}, pgen : 0..MaxGen, sgen : 0..MaxGen]
          /\ r.pgen \in 1..MaxGen /\ r.sgen \in 1..MaxGen
      BY <1>0, OrdersAssumption DEF OrderTyped
    <3>2. /\ request' = [request EXCEPT ![u] = r]
          /\ asked' \in Nat
          /\ UNCHANGED <<order, stale, sent>>
      BY <1>0, <2>1 DEF Read, OrderTyped
    <3> HIDE DEF r
    <3> QED
      BY <1>0, <3>1, <3>2 DEF OrderTyped, order
  <2>2. ASSUME NEW k \in Keys, Send(k), Reply(u), sendGen' \in 1..MaxGen,
               UNCHANGED <<payloadGen, asked, stale>>
        PROVE  OrderTyped'
    BY <1>0, <2>2, Replies DEF Send, OrderTyped, Statuses
  <2>3. CASE Move(u)
    <3>1. sendGen' \in 1..MaxGen
      BY <2>3 DEF Move, TypeOK
    <3> QED
      BY <2>2, <2>3, <3>1, SendsAKey DEF Move
  <2>4. CASE Retry(u)
    <3>1. sendGen' \in 1..MaxGen
      BY <2>4, OrdersAssumption DEF Retry, TypeOK
    <3> QED
      BY <2>2, <2>4, <3>1, SendsAKey DEF Retry
  <2>5. CASE Cancel(u)
    BY <1>0, <2>5, Replies DEF Cancel, OrderTyped, Statuses
  <2>6. CASE Edit(u)
    <3>1. payloadGen' \in 1..MaxGen
      BY <1>0, <2>6, OrdersAssumption DEF Edit, OrderTyped
    <3> QED
      BY <1>0, <2>6, <3>1, Replies DEF Edit, OrderTyped
  <2>7. CASE Abandon(u)
    BY <1>0, <2>7, Replies DEF Abandon, OrderTyped, order
  <2> QED
    BY <1>1, <2>1, <2>3, <2>4, <2>5, <2>6, <2>7 DEF API
<1>2. ASSUME NEW k, NEW ok, ApplyAnswer(k, ok) PROVE OrderTyped'
  BY <1>0, <1>2 DEF ApplyAnswer, OrderTyped, Statuses
<1>3. CASE Watchdog
  <2>1. CASE Scan
    BY <1>0, <2>1 DEF Scan, OrderTyped, order
  <2>2. CASE Expire
    BY <1>0, <2>2 DEF Expire, OrderTyped, Statuses
  <2> QED
    BY <1>3, <2>1, <2>2 DEF Watchdog
<1>4. CASE Automation
  BY <1>0, <1>4 DEF Automation, ovars, order, OrderTyped
<1> QED
  BY <1>1, <1>2, <1>3, <1>4 DEF Next

LEMMA StepIsTyped ==
  ASSUME TypeOK, IdleIsFree, [Next]_vars
  PROVE  TypeOK' /\ IdleIsFree'
<1>0. ETypeOK /\ OrderTyped
  BY DEF TypeOK, OrderTyped
<1>1. ASSUME UNCHANGED evars PROVE ETypeOK' /\ IdleIsFree'
  BY <1>0, <1>1 DEF evars, ETypeOK, IdleIsFree, Copies
<1>2. ASSUME UNCHANGED vars PROVE OrderTyped' /\ ETypeOK' /\ IdleIsFree'
  BY <1>0, <1>1, <1>2 DEF vars, ovars, order, OrderTyped
<1>3. ETypeOK' /\ IdleIsFree' /\ OrderTyped'
  BY <1>0, <1>1, <1>2, StepsMap, ExecutorIsTyped, OrdersAreTyped
<1> QED
  BY <1>3 DEF TypeOK, OrderTyped

(* The types hold of every reachable state, whatever fails.                *)
THEOREM TypeCorrect == Spec => [](TypeOK /\ IdleIsFree)
<1>1. Init => TypeOK /\ IdleIsFree
  BY InitIsTyped
<1>2. TypeOK /\ IdleIsFree /\ [Next]_vars => TypeOK' /\ IdleIsFree'
  BY StepIsTyped
<1> QED
  BY <1>1, <1>2, PTL DEF Spec

-----------------------------------------------------------------------------
(* Steps by which nobody comes to own an attempt.                          *)
LEMMA NobodyNewOwns ==
  ASSUME ExecInv, ETypeOK',
         \A k \in Keys : claims[k] \subseteq claims'[k],
         \A k \in Keys : journal'[k] = "none" <=> claims'[k] = {},
         ran' = ran,
         \A g \in Handlers : Owns(g)' =>
           Owns(g) /\ copy'[g] = copy[g] /\ (Claimed(g)' => Claimed(g))
  PROVE  ClaimsComeFirst' /\ OncePerAttempt'
<1>1. \A g \in Handlers : Owns(g) => copy[g] \in Copies /\ key(g) \in Keys
  BY CopyInHand DEF ExecInv, Owns
<1>2. \A x \in ran' : x[2] \in claims'[x[1]]
  BY DEF ExecInv, ETypeOK, ClaimsComeFirst, Copies
<1>3. \A g \in Handlers : Owns(g)' => attempt(g)' \in claims'[key(g)']
  BY <1>1 DEF ExecInv, ClaimsComeFirst, key, attempt
<1>4. ClaimsComeFirst'
  BY <1>2, <1>3 DEF ClaimsComeFirst
<1>5. \A g \in Handlers : Claimed(g)' => Owns(g)'
  BY DEF Claimed, Owns
<1>6. OncePerAttempt'
  BY <1>5 DEF ExecInv, OncePerAttempt
<1> QED
  BY <1>4, <1>6

(* A claim of an attempt that nobody had claimed.                          *)
LEMMA NewOwner ==
  ASSUME ExecInv, NEW h \in Handlers, pc[h] \in {"insert", "claim"},
         attempt(h) \notin claims[key(h)],
         claims' = [claims EXCEPT ![key(h)] = @ \union {attempt(h)}],
         \A k \in Keys : journal'[k] = IF k = key(h) THEN "running" ELSE journal[k],
         pc' = [pc EXCEPT ![h] = "execute"],
         copy' = copy, ran' = ran
  PROVE  ClaimsComeFirst' /\ OncePerAttempt'
<1>0. ETypeOK /\ ClaimsComeFirst /\ OncePerAttempt
  BY DEF ExecInv
<1>1. /\ copy[h] \in Copies /\ key(h) \in Keys /\ attempt(h) \in 0..Levels
      /\ copy[h] = <<key(h), attempt(h)>>
  BY CopyInHand DEF ExecInv
<1>2. \A k \in Keys : claims'[k] =
        IF k = key(h) THEN claims[k] \union {attempt(h)} ELSE claims[k]
  BY <1>0 DEF ETypeOK
<1>3. \A g \in Handlers : key(g)' = key(g) /\ attempt(g)' = attempt(g)
  BY DEF key, attempt
<1>4. \A g \in Handlers : /\ Owns(g)' <=> Owns(g) \/ g = h
                          /\ Claimed(g)' <=> Claimed(g) \/ g = h
  BY <1>0 DEF Owns, Claimed, ETypeOK
<1>5. \A g \in Handlers : Owns(g) => copy[g] \in Copies /\ key(g) \in Keys
                                    /\ copy[g] = <<key(g), attempt(g)>>
  BY <1>0, CopyInHand DEF Owns
<1>6. copy[h] \notin ran
  BY <1>0, <1>1 DEF ClaimsComeFirst, key, attempt
<1>7. \A g \in Handlers : Owns(g) => copy[g] # copy[h]
  BY <1>0, <1>1, <1>5 DEF ClaimsComeFirst, key, attempt
<1>8. \A x \in ran' : x[2] \in claims'[x[1]]
  BY <1>0, <1>2 DEF ETypeOK, ClaimsComeFirst, Copies
<1>9. \A g \in Handlers : Owns(g)' => attempt(g)' \in claims'[key(g)']
  BY <1>0, <1>1, <1>2, <1>3, <1>4, <1>5 DEF ClaimsComeFirst
<1>10. \A k \in Keys : journal'[k] = "none" <=> claims'[k] = {}
  BY <1>0, <1>2 DEF ClaimsComeFirst
<1>11. OncePerAttempt'
  BY <1>0, <1>4, <1>6, <1>7 DEF OncePerAttempt
<1> QED
  BY <1>8, <1>9, <1>10, <1>11 DEF ClaimsComeFirst

LEMMA ExecutorKeepsAttempts ==
  ASSUME ExecInv, ENext
  PROVE  ExecInv'
<1>0. /\ ETypeOK /\ IdleIsFree /\ ClaimsComeFirst /\ OncePerAttempt
      /\ ETypeOK' /\ IdleIsFree'
  BY ExecutorIsTyped DEF ExecInv
<1> SUFFICES ClaimsComeFirst' /\ OncePerAttempt'
  BY <1>0 DEF ExecInv
<1>j. \A k \in Keys : journal[k] = "none" <=> claims[k] = {}
  BY <1>0 DEF ClaimsComeFirst
<1>s. ASSUME UNCHANGED <<journal, claims, ran>>,
             \A g \in Handlers : Owns(g)' =>
               Owns(g) /\ copy'[g] = copy[g] /\ (Claimed(g)' => Claimed(g))
      PROVE  ClaimsComeFirst' /\ OncePerAttempt'
  BY <1>0, <1>j, <1>s, NobodyNewOwns
<1>r. ASSUME NEW h \in Handlers, Leave(h)
      PROVE  \A g \in Handlers : Owns(g)' =>
               Owns(g) /\ copy'[g] = copy[g] /\ (Claimed(g)' => Claimed(g))
  BY <1>0, <1>r, Returns DEF Owns, Claimed, ETypeOK
<1>1. ASSUME NEW k \in Keys, Request(k) \/ Duplicate(k)
      PROVE  ClaimsComeFirst' /\ OncePerAttempt'
  BY <1>1, <1>s DEF Request, Duplicate, Owns, Claimed
<1>2. ASSUME NEW h \in Handlers, NEW x \in Copies, Receive(h, x)
      PROVE  ClaimsComeFirst' /\ OncePerAttempt'
  BY <1>0, <1>2, <1>s DEF Receive, Goto, Owns, Claimed, ETypeOK
<1>3. ASSUME NEW h \in Handlers, Claims(h)
      PROVE  ClaimsComeFirst' /\ OncePerAttempt'
  <2>1. CASE FindTerminal(h) \/ AttemptIsTaken(h)
    BY <2>1, <1>r, <1>s DEF FindTerminal, AttemptIsTaken, Ack
  <2>2. CASE FindOpen(h)
    BY <1>0, <2>2, <1>s DEF FindOpen, Goto, Owns, Claimed, ETypeOK
  <2>3. CASE Insert(h)
    <3>1. CASE journal[key(h)] = "none"
      <4>1. key(h) \in Keys /\ pc[h] = "insert"
        BY <1>0, <2>3, CopyInHand DEF Insert
      <4>2. claims[key(h)] = {}
        BY <1>j, <3>1, <4>1
      <4>3. claims' = [claims EXCEPT ![key(h)] = @ \union {attempt(h)}]
        BY <2>3, <3>1, <4>2 DEF Insert
      <4>4. \A k \in Keys : journal'[k] = IF k = key(h) THEN "running" ELSE journal[k]
        BY <1>0, <2>3, <3>1 DEF Insert, ETypeOK
      <4> QED
        BY <2>3, <3>1, <4>1, <4>2, <4>3, <4>4, NewOwner DEF Insert, Goto
    <3>2. CASE journal[key(h)] # "none"
      BY <1>0, <2>3, <3>2, <1>s DEF Insert, Goto, Owns, Claimed, ETypeOK
    <3> QED
      BY <3>1, <3>2
  <2>4. CASE ClaimAttempt(h)
    <3>1. \A k \in Keys : journal'[k] = IF k = key(h) THEN "running" ELSE journal[k]
      BY <2>4 DEF ClaimAttempt
    <3> QED
      BY <2>4, <3>1, NewOwner DEF ClaimAttempt, Goto
  <2> QED
    BY <1>3, <2>1, <2>2, <2>3, <2>4 DEF Claims
<1>4. ASSUME NEW h \in Handlers, NEW r \in Results, Execute(h, r)
      PROVE  ClaimsComeFirst' /\ OncePerAttempt'
  <2>1. /\ copy[h] \in Copies /\ key(h) \in Keys
        /\ copy[h] = <<key(h), attempt(h)>>
    BY <1>0, <1>4, CopyInHand DEF Execute
  <2>2. /\ ran' = ran \union {copy[h]}
        /\ UNCHANGED <<journal, claims, copy>>
        /\ Owns(h) /\ pc'[h] \in {"record", "finish"}
        /\ \A g \in Handlers : g # h => pc'[g] = pc[g]
    BY <1>0, <1>4 DEF Execute, Goto, Owns, ETypeOK
  <2>3. \A g \in Handlers : /\ Owns(g)' <=> Owns(g)
                            /\ Claimed(g)' => Claimed(g) /\ g # h
    BY <2>2 DEF Owns, Claimed
  <2>4. \A g \in Handlers : key(g)' = key(g) /\ attempt(g)' = attempt(g)
    BY <2>2 DEF key, attempt
  <2>5. ClaimsComeFirst'
    BY <1>0, <2>1, <2>2, <2>3, <2>4 DEF ClaimsComeFirst, key, attempt
  <2>6. \A g \in Handlers : Claimed(g)' => copy[g] # copy[h]
    BY <1>0, <2>2, <2>3 DEF OncePerAttempt, Claimed, Owns
  <2>7. OncePerAttempt'
    BY <1>0, <2>2, <2>3, <2>6 DEF OncePerAttempt
  <2> QED
    BY <2>5, <2>7
<1>5. ASSUME NEW h \in Handlers, RecordAttempt(h) \/ PublishAnswer(h)
      PROVE  ClaimsComeFirst' /\ OncePerAttempt'
  BY <1>5, <1>r, <1>s DEF RecordAttempt, PublishAnswer, Requeue, Ack
<1>6. ASSUME NEW h \in Handlers, pc[h] = "finish" PROVE
        \A k \in Keys : Finished(h)[k] = "none" <=> claims[k] = {}
  <2>1. key(h) \in Keys /\ claims[key(h)] # {}
    BY <1>0, <1>6, CopyInHand DEF ClaimsComeFirst, Owns
  <2> QED
    BY <1>0, <1>j, <2>1 DEF Finished, ETypeOK
<1>7. ASSUME NEW h \in Handlers, Finish(h)
      PROVE  ClaimsComeFirst' /\ OncePerAttempt'
  <2>1. \A k \in Keys : journal'[k] = "none" <=> claims'[k] = {}
    BY <1>6, <1>7 DEF Finish
  <2>2. UNCHANGED <<copy, claims, ran>>
        /\ \A g \in Handlers : Owns(g)' => Owns(g) /\ (Claimed(g)' => Claimed(g))
    BY <1>0, <1>7 DEF Finish, Goto, Owns, Claimed, ETypeOK
  <2> QED
    BY <1>0, <2>1, <2>2, NobodyNewOwns
<1>8. ASSUME NEW h \in Handlers, StoreFails(h)
      PROVE  ClaimsComeFirst' /\ OncePerAttempt'
  <2>1. /\ key(h) \in Keys /\ attempt(h) \in 0..Levels
        /\ Leave(h) /\ ran' = ran
    BY <1>0, <1>8, CopyInHand DEF StoreFails, Requeue
  <2>2. /\ \A k \in Keys : claims[k] \subseteq claims'[k]
        /\ \A k \in Keys : journal'[k] = "none" <=> claims'[k] = {}
    <3>1. CASE UNCHANGED <<journal, claims>>
      BY <1>j, <3>1
    <3>2. CASE /\ journal[key(h)] = "none"
               /\ journal' = [journal EXCEPT ![key(h)] = "running"]
               /\ claims' = [claims EXCEPT ![key(h)] = {attempt(h)}]
      BY <1>0, <1>j, <2>1, <3>2 DEF ETypeOK
    <3>3. CASE /\ journal[key(h)] = "running"
               /\ claims' = [claims EXCEPT ![key(h)] = @ \union {attempt(h)}]
               /\ UNCHANGED journal
      BY <1>0, <1>j, <2>1, <3>3 DEF ETypeOK
    <3>4. CASE /\ pc[h] = "finish"
               /\ journal' = Finished(h)
               /\ UNCHANGED claims
      BY <1>6, <3>4
    <3> QED
      BY <1>8, <3>1, <3>2, <3>3, <3>4 DEF StoreFails
  <2> QED
    BY <1>0, <1>r, <2>1, <2>2, NobodyNewOwns
<1>9. ASSUME NEW h \in Handlers,
             PublishFails(h) \/ AnswerIsLost(h) \/ Crash(h)
      PROVE  ClaimsComeFirst' /\ OncePerAttempt'
  BY <1>9, <1>r, <1>s DEF PublishFails, AnswerIsLost, Crash, Requeue, Ack
<1>10. ASSUME NEW h \in Handlers, ChannelCloses(h)
       PROVE  ClaimsComeFirst' /\ OncePerAttempt'
  BY <1>10, <1>s DEF ChannelCloses, Owns, Claimed
<1> QED
  BY <1>1, <1>2, <1>3, <1>4, <1>5, <1>7, <1>8, <1>9, <1>10
  DEF ENext, Delivery, Carries, Mishap

LEMMA StepKeepsAttempts ==
  ASSUME TypeOK, ExecInv, [Next]_vars
  PROVE  ExecInv'
<1>1. ASSUME UNCHANGED evars PROVE ExecInv'
  BY <1>1 DEF evars, ExecInv, ETypeOK, IdleIsFree, ClaimsComeFirst, OncePerAttempt,
              Copies, Owns, Claimed, key, attempt
<1> QED
  BY <1>1, StepsMap, ExecutorKeepsAttempts DEF vars

LEMMA InitKeepsAttempts == Init => ExecInv
  BY InitIsTyped DEF Init, EInit, TypeOK, ExecInv, ClaimsComeFirst, OncePerAttempt,
                     Owns, Claimed

(* No attempt is carried out twice, and no two deliveries ever hold the    *)
(* same attempt, whatever fails and however often.                         *)
THEOREM AttemptsRunOnce == Spec => []OncePerAttempt
<1>1. Init => ExecInv
  BY InitKeepsAttempts
<1>2. TypeOK /\ ExecInv /\ [Next]_vars => ExecInv'
  BY StepKeepsAttempts
<1>3. ExecInv => OncePerAttempt
  BY DEF ExecInv
<1> QED
  BY <1>1, <1>2, <1>3, TypeCorrect, PTL DEF Spec

-----------------------------------------------------------------------------
(* What owners hold is a delivery that is in hand.                         *)
LEMMA OwnersHold ==
  ASSUME ETypeOK, NEW h \in Handlers, Owns(h)
  PROVE  /\ copy[h] \in Copies /\ key(h) \in Keys /\ attempt(h) \in 0..Levels
         /\ copy[h] = <<key(h), attempt(h)>>
         /\ Present(copy[h])
  BY CopyInHand DEF Owns, Present, InHand

(* Steps that move no journal and send no later attempt.                   *)
LEMMA QuietStep ==
  ASSUME ExecInv, KeyOrder, UNCHANGED <<journal, claims, worked>>, AnswersAreJournalled',
         \A x \in Copies : Present(x)' => Present(x) \/ x[2] = 0,
         \A g \in Handlers : Owns(g)' =>
           Owns(g) /\ pc'[g] = pc[g] /\ copy'[g] = copy[g] /\ outcome'[g] = outcome[g]
  PROVE  KeyOrder'
<1>0. /\ InOrder /\ OneOwnerPerKey /\ OwnerKnows /\ NothingAfterSuccess
      /\ AnswersAreJournalled /\ ETypeOK
  BY DEF KeyOrder, ExecInv
<1>1. \A g \in Handlers : Owns(g)' =>
        /\ copy[g] \in Copies /\ attempt(g) \in 0..Levels
        /\ key(g)' = key(g) /\ attempt(g)' = attempt(g)
  BY <1>0, OwnersHold DEF key, attempt
<1>2. InOrder'
  <2>1. \A x \in Copies : Present(x)' /\ x[2] > 0 => x[2] - 1 \in claims'[x[1]]
    BY <1>0 DEF InOrder
  <2>2. \A k \in Keys : \A n \in claims'[k] : \A m \in 0..n : m \in claims'[k]
    BY <1>0 DEF InOrder
  <2>3. ASSUME NEW h \in Handlers, Owns(h)'
        PROVE  /\ claims'[key(h)'] \subseteq 0..attempt(h)'
               /\ \A x \in Copies : x[1] = key(h)' /\ x[2] > attempt(h)' => ~Present(x)'
    BY <1>0, <1>1, <2>3 DEF InOrder, Copies
  <2> QED
    BY <2>1, <2>2, <2>3 DEF InOrder, Copies
<1>3. OneOwnerPerKey'
  BY <1>0, <1>1 DEF OneOwnerPerKey
<1>4. OwnerKnows'
  <2>1. \A g \in Handlers :
          pc'[g] \in {"execute", "record", "finish", "answer"} => Owns(g)'
    BY DEF Owns
  <2> QED
    BY <1>0, <1>1, <2>1 DEF OwnerKnows
<1>5. NothingAfterSuccess'
  <2> SUFFICES ASSUME NEW x \in worked
               PROVE  /\ claims[x[1]] \subseteq 0..x[2]
                      /\ \/ Terminal(x[1])
                         \/ \A y \in Copies : y[1] = x[1] /\ y[2] > x[2] => ~Present(y)'
    BY DEF NothingAfterSuccess, Terminal, Copies
  <2>1. x \in Copies /\ x[2] \in 0..Levels
    BY <1>0 DEF ETypeOK, Copies
  <2> QED
    BY <1>0, <2>1 DEF NothingAfterSuccess
<1> QED
  BY <1>2, <1>3, <1>4, <1>5 DEF KeyOrder

(* A delivery claims its attempt: it is the latest of its key, and nobody  *)
(* else owns one.                                                          *)
LEMMA ClaimStep ==
  ASSUME ExecInv, KeyOrder, NEW h \in Handlers, pc[h] \in {"insert", "claim"},
         attempt(h) \notin claims[key(h)],
         ~Terminal(key(h)),
         \A k \in Keys : claims'[k] =
           IF k = key(h) THEN claims[k] \union {attempt(h)} ELSE claims[k],
         \A k \in Keys : journal'[k] = IF k = key(h) THEN "running" ELSE journal[k],
         \A g \in Handlers : pc'[g] = IF g = h THEN "execute" ELSE pc[g],
         UNCHANGED <<queue, copy, outcome, worked, answers>>
  PROVE  KeyOrder'
<1> DEFINE k0 == key(h)
           n0 == attempt(h)
<1>0. /\ InOrder /\ OneOwnerPerKey /\ OwnerKnows /\ NothingAfterSuccess
      /\ AnswersAreJournalled /\ ETypeOK /\ ClaimsComeFirst
  BY DEF KeyOrder, ExecInv
<1>1. /\ copy[h] \in Copies /\ k0 \in Keys /\ n0 \in 0..Levels
      /\ copy[h] = <<k0, n0>> /\ copy[h][1] = k0 /\ copy[h][2] = n0
      /\ Present(copy[h])
  BY <1>0, CopyInHand DEF Present, InHand, key, attempt
<1>2. \A k \in Keys : claims'[k] = IF k = k0 THEN claims[k] \union {n0} ELSE claims[k]
  OBVIOUS
<1>3. \A x : Present(x)' <=> Present(x)
  BY DEF Present, Waits, InHand
<1>4. \A g \in Handlers : /\ key(g)' = key(g) /\ attempt(g)' = attempt(g)
                          /\ Owns(g)' <=> Owns(g) \/ g = h
                          /\ pc'[g] = IF g = h THEN "execute" ELSE pc[g]
  BY DEF key, attempt, Owns
<1>5. claims[k0] \subseteq 0..Levels /\ \A m \in claims[k0] : m < n0
  <2> SUFFICES ASSUME NEW m \in claims[k0], m >= n0 PROVE FALSE
    BY <1>0, <1>1 DEF ETypeOK
  <2>1. m \in Nat /\ n0 \in 0..m
    BY <1>0, <1>1 DEF ETypeOK
  <2>2. n0 \in claims[k0]
    BY <1>0, <1>1, <2>1 DEF InOrder
  <2> QED
    BY <2>2
<1>6. \A g \in Handlers : Owns(g) => key(g) # k0
  <2> SUFFICES ASSUME NEW g \in Handlers, Owns(g), key(g) = k0 PROVE FALSE
    OBVIOUS
  <2>1. attempt(g) \in claims[k0] /\ attempt(g) \in 0..Levels
    BY <1>0, OwnersHold DEF ClaimsComeFirst
  <2>2. n0 > attempt(g)
    BY <1>1, <1>5, <2>1
  <2> QED
    BY <1>0, <1>1, <2>2 DEF InOrder
<1>7. \A x \in Copies : x[1] = k0 /\ x[2] > n0 => ~Present(x)
  <2> SUFFICES ASSUME NEW x \in Copies, x[1] = k0, x[2] > n0, Present(x) PROVE FALSE
    OBVIOUS
  <2>1. x[2] \in 0..Levels /\ x[2] - 1 \in claims[k0]
    BY <1>0, <1>1 DEF InOrder, Copies
  <2> QED
    BY <1>1, <1>5, <2>1
<1>8. n0 > 0 => n0 - 1 \in claims[k0]
  BY <1>0, <1>1 DEF InOrder
<1> HIDE DEF k0, n0
<1>9. InOrder'
  <2>1. \A x \in Copies : Present(x)' /\ x[2] > 0 => x[2] - 1 \in claims'[x[1]]
    BY <1>0, <1>2, <1>3 DEF InOrder, Copies
  <2>2. \A k \in Keys : \A n \in claims'[k] : \A m \in 0..n : m \in claims'[k]
    <3> SUFFICES ASSUME NEW k \in Keys, NEW n \in claims'[k], NEW m \in 0..n
                 PROVE  m \in claims'[k]
      OBVIOUS
    <3>1. CASE n \in claims[k]
      BY <1>0, <1>2, <3>1 DEF InOrder
    <3>2. CASE k = k0 /\ n = n0 /\ m < n0
      <4>1. m \in 0..(n0 - 1) /\ n0 > 0
        BY <1>1, <3>2
      <4>2. m \in claims[k0]
        BY <1>0, <1>1, <1>8, <4>1 DEF InOrder
      <4> QED
        BY <1>1, <1>2, <3>2, <4>2
    <3>3. CASE k = k0 /\ m = n0
      BY <1>1, <1>2, <3>3
    <3>4. n \in claims[k] \/ (k = k0 /\ n = n0)
      BY <1>2
    <3>5. n = n0 => m < n0 \/ m = n0
      BY <1>1
    <3> QED
      BY <3>1, <3>2, <3>3, <3>4, <3>5
  <2>3. ASSUME NEW g \in Handlers, Owns(g)'
        PROVE  /\ claims'[key(g)'] \subseteq 0..attempt(g)'
               /\ \A x \in Copies : x[1] = key(g)' /\ x[2] > attempt(g)' => ~Present(x)'
    <3>1. CASE g = h
      <4>1. key(g)' = k0 /\ attempt(g)' = n0
        BY <1>4, <3>1 DEF k0, n0
      <4>2. claims'[k0] = claims[k0] \union {n0}
        BY <1>1, <1>2
      <4>3. claims'[k0] \subseteq 0..n0
        BY <1>1, <1>5, <4>2
      <4> QED
        BY <1>3, <1>7, <4>1, <4>3
    <3>2. CASE g # h
      <4>1. Owns(g) /\ key(g) # k0 /\ key(g) \in Keys
        BY <1>0, <1>4, <1>6, <2>3, <3>2, OwnersHold
      <4>2. claims'[key(g)] = claims[key(g)]
        BY <1>2, <4>1
      <4>3. /\ claims[key(g)] \subseteq 0..attempt(g)
            /\ \A x \in Copies : x[1] = key(g) /\ x[2] > attempt(g) => ~Present(x)
        BY <1>0, <4>1 DEF InOrder
      <4> QED
        BY <1>3, <1>4, <4>2, <4>3
    <3> QED
      BY <3>1, <3>2
  <2>4. Copies' = Copies
    BY DEF Copies
  <2> QED
    BY <2>1, <2>2, <2>3, <2>4 DEF InOrder
<1>10. OneOwnerPerKey'
  BY <1>0, <1>4, <1>6 DEF OneOwnerPerKey, k0
<1>11. OwnerKnows'
  <2> SUFFICES ASSUME NEW g \in Handlers
               PROVE  /\ pc'[g] \in {"execute", "record", "finish"} =>
                           journal'[key(g)] = "running"
                      /\ pc'[g] = "answer" => journal'[key(g)] =
                           IF outcome[g] = "success" THEN "succeeded" ELSE "failed"
                      /\ pc'[g] = "record" => outcome[g] = "transient"
                      /\ Owns(g)' /\ copy[g] \in worked => outcome[g] = "success"
    BY <1>4 DEF OwnerKnows
  <2>1. CASE g = h
    <3>1. copy[h] \notin worked
      BY <1>0, <1>1 DEF ETypeOK, ClaimsComeFirst, k0, n0
    <3> QED
      BY <1>1, <1>4, <2>1, <3>1 DEF k0
  <2>2. CASE g # h
    <3>1. pc'[g] = pc[g] /\ (Owns(g)' <=> Owns(g))
      BY <1>4, <2>2
    <3>2. Owns(g) => journal'[key(g)] = journal[key(g)]
      BY <1>0, <1>6, OwnersHold DEF k0
    <3>3. pc[g] \in {"execute", "record", "finish", "answer"} => Owns(g)
      BY DEF Owns
    <3> QED
      BY <1>0, <3>1, <3>2, <3>3 DEF OwnerKnows
  <2> QED
    BY <2>1, <2>2
<1>12. NothingAfterSuccess'
  <2> SUFFICES ASSUME NEW x \in worked
               PROVE  /\ claims'[x[1]] \subseteq 0..x[2]
                      /\ \/ Terminal(x[1])'
                         \/ \A y \in Copies : y[1] = x[1] /\ y[2] > x[2] => ~Present(y)'
    BY DEF NothingAfterSuccess, Copies
  <2>1. x \in Copies /\ x[1] \in Keys /\ x[2] \in 0..Levels
    BY <1>0 DEF ETypeOK, Copies
  <2>2. CASE x[1] = k0
    <3>1. \A y \in Copies : y[1] = k0 /\ y[2] > x[2] => ~Present(y)
      BY <1>0, <2>2 DEF NothingAfterSuccess, k0
    <3>2. n0 <= x[2]
      BY <1>1, <2>1, <3>1
    <3>3. claims[k0] \subseteq 0..x[2]
      BY <1>0, <2>2 DEF NothingAfterSuccess
    <3>4. claims'[k0] = claims[k0] \union {n0}
      BY <1>1, <1>2
    <3>5. claims'[k0] \subseteq 0..x[2]
      BY <1>1, <2>1, <3>2, <3>3, <3>4
    <3> QED
      BY <1>3, <2>2, <3>1, <3>5
  <2>3. CASE x[1] # k0
    <3>1. claims'[x[1]] = claims[x[1]] /\ (Terminal(x[1])' <=> Terminal(x[1]))
      BY <1>2, <2>1, <2>3 DEF Terminal, k0
    <3> QED
      BY <1>0, <1>3, <3>1 DEF NothingAfterSuccess
  <2> QED
    BY <2>2, <2>3
<1>13. AnswersAreJournalled'
  BY Zenon, <1>0 DEF AnswersAreJournalled, Terminal
<1> QED
  BY <1>9, <1>10, <1>11, <1>12, <1>13 DEF KeyOrder

(* An owner gives its attempt up for the next one.                         *)
LEMMA RequeueStep ==
  ASSUME ExecInv, KeyOrder, NEW h \in Handlers, Owns(h),
         outcome[h] = "transient" \/ Terminal(key(h)),
         UNCHANGED <<journal, claims, worked, answers>>,
         \A x \in Copies : Present(x)' =>
           Present(x) \/ (x[1] = key(h) /\ x[2] = attempt(h) + 1),
         \A g \in Handlers : Owns(g)' =>
           /\ Owns(g) /\ g # h
           /\ pc'[g] = pc[g] /\ copy'[g] = copy[g] /\ outcome'[g] = outcome[g]
  PROVE  KeyOrder'
<1>0. /\ InOrder /\ OneOwnerPerKey /\ OwnerKnows /\ NothingAfterSuccess
      /\ AnswersAreJournalled /\ ETypeOK /\ ClaimsComeFirst
  BY DEF KeyOrder, ExecInv
<1>1. /\ copy[h] \in Copies /\ key(h) \in Keys /\ attempt(h) \in 0..Levels
      /\ copy[h] = <<key(h), attempt(h)>>
      /\ attempt(h) \in claims[key(h)]
  BY <1>0, OwnersHold DEF ClaimsComeFirst
<1>2. \A g \in Handlers : Owns(g)' =>
        /\ copy[g] \in Copies /\ key(g) \in Keys /\ attempt(g) \in 0..Levels
        /\ key(g)' = key(g) /\ attempt(g)' = attempt(g)
        /\ key(g) # key(h)
  BY <1>0, OwnersHold DEF OneOwnerPerKey, key, attempt
<1>3. InOrder'
  <2>1. ASSUME NEW x \in Copies, Present(x)', x[2] > 0
        PROVE  x[2] - 1 \in claims'[x[1]]
    BY <1>0, <1>1, <2>1 DEF InOrder
  <2>2. \A k \in Keys : \A n \in claims'[k] : \A m \in 0..n : m \in claims'[k]
    BY <1>0 DEF InOrder
  <2>3. ASSUME NEW g \in Handlers, Owns(g)'
        PROVE  /\ claims'[key(g)'] \subseteq 0..attempt(g)'
               /\ \A x \in Copies : x[1] = key(g)' /\ x[2] > attempt(g)' => ~Present(x)'
    BY <1>0, <1>2, <2>3 DEF InOrder
  <2>4. Copies' = Copies
    BY DEF Copies
  <2> QED
    BY <2>1, <2>2, <2>3, <2>4 DEF InOrder
<1>4. OneOwnerPerKey'
  BY <1>0, <1>2 DEF OneOwnerPerKey
<1>5. OwnerKnows'
  <2>1. \A g \in Handlers :
          pc'[g] \in {"execute", "record", "finish", "answer"} => Owns(g)'
    BY DEF Owns
  <2> QED
    BY <1>0, <1>2, <2>1 DEF OwnerKnows
<1>6. NothingAfterSuccess'
  <2> SUFFICES ASSUME NEW x \in worked
               PROVE  /\ claims[x[1]] \subseteq 0..x[2]
                      /\ \/ Terminal(x[1])
                         \/ \A y \in Copies : y[1] = x[1] /\ y[2] > x[2] => ~Present(y)'
    BY DEF NothingAfterSuccess, Terminal, Copies
  <2>1. x \in Copies /\ x = <<x[1], x[2]>> /\ x[2] \in 0..Levels
    BY <1>0 DEF ETypeOK, Copies
  <2>2. claims[x[1]] \subseteq 0..x[2]
    BY <1>0 DEF NothingAfterSuccess
  <2>3. CASE Terminal(x[1])
    BY <2>2, <2>3
  <2>4. CASE ~Terminal(x[1])
    <3> SUFFICES ASSUME NEW y \in Copies, y[1] = x[1], y[2] > x[2], Present(y)'
                 PROVE  FALSE
      BY <2>2
    <3>1. ~Present(y)
      BY <1>0, <2>4 DEF NothingAfterSuccess
    <3>2. x[1] = key(h) /\ y[2] = attempt(h) + 1 /\ outcome[h] = "transient"
      BY <2>4, <3>1
    <3>3. attempt(h) \in 0..x[2]
      BY <1>1, <2>2, <3>2
    <3>4. x[2] = attempt(h)
      BY <1>1, <2>1, <3>2, <3>3
    <3>5. copy[h] \in worked
      BY <1>1, <2>1, <3>2, <3>4
    <3> QED
      BY <1>0, <3>2, <3>5 DEF OwnerKnows
  <2> QED
    BY <2>3, <2>4
<1>7. AnswersAreJournalled'
  BY Zenon, <1>0 DEF AnswersAreJournalled
<1> QED
  BY <1>3, <1>4, <1>5, <1>6, <1>7 DEF KeyOrder

(* An owner carries its attempt out.                                       *)
LEMMA ExecuteStep ==
  ASSUME ExecInv, KeyOrder, NEW h \in Handlers, NEW r \in Results, Execute(h, r)
  PROVE  KeyOrder'
<1>0. /\ InOrder /\ OneOwnerPerKey /\ OwnerKnows /\ NothingAfterSuccess
      /\ AnswersAreJournalled /\ ETypeOK /\ OncePerAttempt
  BY DEF KeyOrder, ExecInv
<1>1. Owns(h) /\ Claimed(h)
  BY DEF Execute, Owns, Claimed
<1>2. /\ copy[h] \in Copies /\ key(h) \in Keys /\ attempt(h) \in 0..Levels
      /\ copy[h][1] = key(h) /\ copy[h][2] = attempt(h)
  BY <1>0, <1>1, OwnersHold DEF key, attempt
<1>3. /\ UNCHANGED <<queue, journal, claims, copy, answers>>
      /\ worked' = IF r = "success" THEN worked \union {copy[h]} ELSE worked
      /\ outcome'[h] = r
      /\ pc'[h] = "finish" \/ (pc'[h] = "record" /\ r = "transient")
      /\ \A g \in Handlers : g # h => pc'[g] = pc[g] /\ outcome'[g] = outcome[g]
  BY <1>0 DEF Execute, Goto, ETypeOK
<1>4. \A g \in Handlers : key(g)' = key(g) /\ attempt(g)' = attempt(g)
                          /\ (Owns(g)' <=> Owns(g))
  BY <1>1, <1>3 DEF key, attempt, Owns
<1>5. \A x : Present(x)' <=> Present(x)
  BY <1>3 DEF Present, Waits, InHand
<1>6. InOrder'
  BY <1>0, <1>3, <1>4, <1>5 DEF InOrder, Copies
<1>7. OneOwnerPerKey'
  BY <1>0, <1>4 DEF OneOwnerPerKey
<1>8. OwnerKnows'
  <2>1. ASSUME NEW g \in Handlers, g # h, Owns(g) PROVE copy[g] # copy[h]
    BY <1>0, <1>1, <2>1 DEF OncePerAttempt
  <2>2. copy[h] \notin worked
    BY <1>0, <1>1 DEF OncePerAttempt, ETypeOK
  <2>3. journal[key(h)] = "running"
    BY <1>0 DEF OwnerKnows, Execute
  <2>4. ASSUME NEW g \in Handlers
        PROVE  /\ pc'[g] \in {"execute", "record", "finish"} =>
                    journal'[key(g)'] = "running"
               /\ pc'[g] = "answer" => journal'[key(g)'] =
                    IF outcome'[g] = "success" THEN "succeeded" ELSE "failed"
               /\ pc'[g] = "record" => outcome'[g] = "transient"
               /\ Owns(g)' /\ copy'[g] \in worked' => outcome'[g] = "success"
    <3>1. CASE g = h
      BY <1>3, <1>4, <2>2, <2>3, <3>1
    <3>2. CASE g # h
      BY <1>0, <1>3, <1>4, <2>1, <3>2 DEF OwnerKnows
    <3> QED
      BY <3>1, <3>2
  <2> QED
    BY <2>4 DEF OwnerKnows
<1>9. NothingAfterSuccess'
  <2> SUFFICES ASSUME NEW x \in worked'
               PROVE  /\ claims[x[1]] \subseteq 0..x[2]
                      /\ \/ Terminal(x[1])
                         \/ \A y \in Copies : y[1] = x[1] /\ y[2] > x[2] => ~Present(y)
    BY <1>3, <1>5 DEF NothingAfterSuccess, Terminal, Copies
  <2>1. CASE x \in worked
    BY <1>0, <2>1 DEF NothingAfterSuccess
  <2>2. CASE x = copy[h]
    BY <1>0, <1>1, <1>2, <2>2 DEF InOrder
  <2> QED
    BY <1>3, <2>1, <2>2
<1>10. AnswersAreJournalled'
  BY Zenon, <1>0, <1>3 DEF AnswersAreJournalled
<1> QED
  BY <1>6, <1>7, <1>8, <1>9, <1>10 DEF KeyOrder

(* An owner writes its outcome to the journal.                             *)
LEMMA FinishStep ==
  ASSUME ExecInv, KeyOrder, NEW h \in Handlers, Finish(h)
  PROVE  KeyOrder'
<1>0. /\ InOrder /\ OneOwnerPerKey /\ OwnerKnows /\ NothingAfterSuccess
      /\ AnswersAreJournalled /\ ETypeOK
  BY DEF KeyOrder, ExecInv
<1>1. Owns(h) /\ pc[h] = "finish"
  BY DEF Finish, Owns
<1>2. key(h) \in Keys /\ journal[key(h)] = "running"
  BY <1>0, <1>1, OwnersHold DEF OwnerKnows
<1>3. /\ UNCHANGED <<queue, claims, copy, outcome, worked, answers>>
      /\ \A k \in Keys : k # key(h) => journal'[k] = journal[k]
      /\ journal'[key(h)] = IF outcome[h] = "success" THEN "succeeded" ELSE "failed"
      /\ \A g \in Handlers : pc'[g] = IF g = h THEN "answer" ELSE pc[g]
  BY <1>0, <1>2 DEF Finish, Finished, Goto, ETypeOK
<1>4. \A g \in Handlers : key(g)' = key(g) /\ attempt(g)' = attempt(g)
                          /\ (Owns(g)' <=> Owns(g))
  BY <1>1, <1>3 DEF key, attempt, Owns
<1>5. \A x : Present(x)' <=> Present(x)
  BY <1>3 DEF Present, Waits, InHand
<1>6. InOrder'
  BY <1>0, <1>3, <1>4, <1>5 DEF InOrder, Copies
<1>7. OneOwnerPerKey'
  BY <1>0, <1>4 DEF OneOwnerPerKey
<1>8. OwnerKnows'
  <2>1. ASSUME NEW g \in Handlers
        PROVE  /\ pc'[g] \in {"execute", "record", "finish"} =>
                    journal'[key(g)'] = "running"
               /\ pc'[g] = "answer" => journal'[key(g)'] =
                    IF outcome'[g] = "success" THEN "succeeded" ELSE "failed"
               /\ pc'[g] = "record" => outcome'[g] = "transient"
               /\ Owns(g)' /\ copy'[g] \in worked' => outcome'[g] = "success"
    <3>1. CASE g = h
      BY <1>0, <1>1, <1>3, <1>4, <3>1 DEF OwnerKnows
    <3>2. CASE g # h
      <4>1. Owns(g) => journal'[key(g)] = journal[key(g)]
        BY <1>0, <1>1, <1>3, <3>2, OwnersHold DEF OneOwnerPerKey
      <4>2. pc[g] \in {"execute", "record", "finish", "answer"} => Owns(g)
        BY DEF Owns
      <4> QED
        BY <1>0, <1>3, <1>4, <3>2, <4>1, <4>2 DEF OwnerKnows
    <3> QED
      BY <3>1, <3>2
  <2> QED
    BY <2>1 DEF OwnerKnows
<1>9. NothingAfterSuccess'
  <2> SUFFICES ASSUME NEW x \in worked
               PROVE  /\ claims[x[1]] \subseteq 0..x[2]
                      /\ \/ Terminal(x[1])'
                         \/ \A y \in Copies : y[1] = x[1] /\ y[2] > x[2] => ~Present(y)
    BY <1>3, <1>5 DEF NothingAfterSuccess, Terminal, Copies
  <2>1. x[1] \in Keys
    BY <1>0 DEF ETypeOK, Copies
  <2>2. Terminal(x[1]) => Terminal(x[1])'
    BY <1>2, <1>3, <2>1 DEF Terminal
  <2> QED
    BY <1>0, <2>2 DEF NothingAfterSuccess
<1>10. AnswersAreJournalled'
  BY Zenon, <1>0, <1>2, <1>3 DEF AnswersAreJournalled
<1> QED
  BY <1>6, <1>7, <1>8, <1>9, <1>10 DEF KeyOrder

(* What a handler that returns leaves as it was.                           *)
LEMMA ReturnsQuietly ==
  ASSUME ExecInv, NEW h \in Handlers, Leave(h)
  PROVE  /\ \A g \in Handlers : Owns(g)' =>
              /\ Owns(g) /\ g # h
              /\ pc'[g] = pc[g] /\ copy'[g] = copy[g] /\ outcome'[g] = outcome[g]
         /\ \A x \in Copies : InHand(x)' => InHand(x)
<1>1. ETypeOK /\ IdleIsFree
  BY DEF ExecInv
<1>2. /\ pc'[h] = "idle"
      /\ \A g \in Handlers : g # h =>
           pc'[g] = pc[g] /\ copy'[g] = copy[g] /\ outcome'[g] = outcome[g]
      /\ copy'[h] = NoCopy
  BY <1>1 DEF Leave, Goto, ETypeOK
<1>3. NoCopy \notin Copies
  BY ExecutorAssumption DEF Copies
<1> QED
  BY <1>2, <1>3 DEF Owns, InHand

LEMMA ExecutorKeepsOrder ==
  ASSUME ExecInv, KeyInv, ENext
  PROVE  KeyInv'
<1>1. ETypeOK /\ IdleIsFree /\ ETypeOK'
  BY ExecutorIsTyped DEF ExecInv
<1>2. mishaps' = mishaps \/ \E f \in Faults : mishaps' = [mishaps EXCEPT ![f] = @ + 1]
  BY Mishaps
  DEF ENext, Request, Duplicate, Delivery, Receive, Claims, FindTerminal, FindOpen,
      Insert, ClaimAttempt, AttemptIsTaken, Carries, Execute, RecordAttempt, Finish,
      PublishAnswer, Mishap, StoreFails, PublishFails, AnswerIsLost, ChannelCloses,
      Crash
<1>3. Never("store")' => Never("store")
  BY <1>1, <1>2 DEF Never, ETypeOK
<1> SUFFICES ASSUME KeyOrder, Never("store")' PROVE KeyOrder'
  BY <1>3 DEF KeyInv
<1>4. ASSUME NEW h \in Handlers PROVE ~StoreFails(h)
  BY <1>1, Mishaps DEF StoreFails, Never, ETypeOK
<1>q. ASSUME UNCHANGED <<journal, claims, worked, answers>>,
             \A x \in Copies : queue'[x] > queue[x] => x[2] = 0 \/ InHand(x),
             \A x \in Copies : InHand(x)' => Present(x),
             \A g \in Handlers : Owns(g)' =>
               Owns(g) /\ pc'[g] = pc[g] /\ copy'[g] = copy[g] /\ outcome'[g] = outcome[g]
      PROVE  KeyOrder'
  <2>1. \A x \in Copies : queue[x] \in Nat /\ queue'[x] \in Nat
    BY <1>1 DEF ETypeOK, Copies
  <2>2. \A x \in Copies : Present(x)' => Present(x) \/ x[2] = 0
    BY <1>q, <2>1 DEF Present, Waits
  <2>3. AnswersAreJournalled'
    BY Zenon, <1>q DEF KeyOrder, AnswersAreJournalled
  <2> QED
    BY <1>q, <2>2, <2>3, QuietStep
<1>5. ASSUME NEW k \in Keys, Request(k) \/ Duplicate(k) PROVE KeyOrder'
  <2>0. 0 \in 0..Levels
    BY ExecutorAssumption
  <2>1. PICK y \in Copies : y = <<k, 0>>
    BY <2>0 DEF Copies
  <2>2. queue' = [queue EXCEPT ![y] = @ + 1]
        /\ UNCHANGED <<journal, claims, worked, answers, pc, copy, outcome>>
    BY <1>5, <2>1 DEF Request, Duplicate
  <2>3. \A x \in Copies : queue'[x] > queue[x] => x[2] = 0
    BY <1>1, <2>1, <2>2 DEF ETypeOK
  <2> QED
    BY <1>q, <2>2, <2>3 DEF InHand, Present, Owns
<1>6. ASSUME NEW h \in Handlers, NEW x \in Copies, Receive(h, x) PROVE KeyOrder'
  <2>1. /\ UNCHANGED <<journal, claims, worked, answers, outcome>>
        /\ queue' = [queue EXCEPT ![x] = @ - 1] /\ Waits(x)
        /\ pc'[h] = "find" /\ copy'[h] = x
        /\ \A g \in Handlers : g # h => pc'[g] = pc[g] /\ copy'[g] = copy[g]
    BY <1>1, <1>6 DEF Receive, Goto, ETypeOK, Waits
  <2>2. \A y \in Copies : ~(queue'[y] > queue[y])
    BY <1>1, <2>1 DEF ETypeOK
  <2> QED
    BY <1>q, <2>1, <2>2 DEF InHand, Present, Owns
<1>r. ASSUME NEW h \in Handlers, Ack(h), UNCHANGED <<journal, claims, worked, answers>>
      PROVE  KeyOrder'
  <2>1. Leave(h) /\ queue' = queue
    BY <1>r DEF Ack
  <2>2. \A x \in Copies : ~(queue'[x] > queue[x])
    BY <1>1, <2>1 DEF ETypeOK
  <2> QED
    BY <1>q, <1>r, <2>1, <2>2, ReturnsQuietly DEF Present
<1>7. ASSUME NEW h \in Handlers, Claims(h) PROVE KeyOrder'
  <2>1. CASE FindTerminal(h) \/ AttemptIsTaken(h)
    BY <1>r, <2>1 DEF FindTerminal, AttemptIsTaken
  <2>s. ASSUME UNCHANGED <<queue, journal, claims, copy, outcome, worked, answers>>,
               \A g \in Handlers : Owns(g)' => Owns(g) /\ pc'[g] = pc[g]
        PROVE  KeyOrder'
    <3>1. \A x \in Copies : ~(queue'[x] > queue[x])
      BY <1>1, <2>s DEF ETypeOK
    <3> QED
      BY <1>q, <2>s, <3>1 DEF InHand, Present
  <2>2. CASE FindOpen(h)
    BY <1>1, <2>2, <2>s DEF FindOpen, Goto, Owns, ETypeOK
  <2>c. ASSUME pc[h] \in {"insert", "claim"}, Goto(h, "execute"),
               ~Terminal(key(h)), attempt(h) \notin claims[key(h)],
               \A k \in Keys : claims'[k] =
                 IF k = key(h) THEN claims[k] \union {attempt(h)} ELSE claims[k],
               \A k \in Keys : journal'[k] =
                 IF k = key(h) THEN "running" ELSE journal[k],
               UNCHANGED <<queue, copy, outcome, worked, answers>>
        PROVE  KeyOrder'
    <3>1. \A g \in Handlers : pc'[g] = IF g = h THEN "execute" ELSE pc[g]
      BY <1>1, <2>c DEF Goto, ETypeOK
    <3> QED
      BY <2>c, <3>1, ClaimStep
  <2>3. CASE Insert(h) /\ journal[key(h)] = "none"
    <3>1. claims[key(h)] = {} /\ key(h) \in Keys
      BY <1>1, <2>3, CopyInHand DEF Insert, ExecInv, ClaimsComeFirst
    <3>2. /\ \A k \in Keys : claims'[k] =
               IF k = key(h) THEN claims[k] \union {attempt(h)} ELSE claims[k]
          /\ \A k \in Keys : journal'[k] =
               IF k = key(h) THEN "running" ELSE journal[k]
      BY <1>1, <2>3, <3>1 DEF Insert, ETypeOK
    <3> QED
      BY <2>3, <2>c, <3>1, <3>2 DEF Insert, Terminal
  <2>4. CASE Insert(h) /\ journal[key(h)] # "none"
    BY <1>1, <2>4, <2>s DEF Insert, Goto, Owns, ETypeOK
  <2>5. CASE ClaimAttempt(h)
    <3>1. /\ \A k \in Keys : claims'[k] =
               IF k = key(h) THEN claims[k] \union {attempt(h)} ELSE claims[k]
          /\ \A k \in Keys : journal'[k] =
               IF k = key(h) THEN "running" ELSE journal[k]
      BY <1>1, <2>5 DEF ClaimAttempt, ETypeOK
    <3> QED
      BY <2>5, <2>c, <3>1 DEF ClaimAttempt, Terminal
  <2> QED
    BY <1>7, <2>1, <2>2, <2>3, <2>4, <2>5 DEF Claims
<1>t. ASSUME NEW h \in Handlers, Owns(h), outcome[h] = "transient" \/ Terminal(key(h)),
             Requeue(h), UNCHANGED <<journal, claims, worked, answers>>
      PROVE  KeyOrder'
  <2>1. /\ Leave(h)
        /\ \A x \in Copies : queue'[x] > queue[x] => x = <<key(h), attempt(h) + 1>>
    BY <1>1, <1>t, Requeues DEF Owns
  <2>2. \A x \in Copies : queue[x] \in Nat /\ queue'[x] \in Nat
    BY <1>1 DEF ETypeOK, Copies
  <2>3. \A x \in Copies : Present(x)' =>
          Present(x) \/ (x[1] = key(h) /\ x[2] = attempt(h) + 1)
    BY <2>1, <2>2, ReturnsQuietly DEF Present, Waits
  <2> QED
    BY <1>t, <2>1, <2>3, ReturnsQuietly, RequeueStep
<1>8. ASSUME NEW h \in Handlers, Carries(h) PROVE KeyOrder'
  <2>1. CASE RecordAttempt(h)
    BY <1>t, <2>1 DEF RecordAttempt, Owns, KeyOrder, OwnerKnows
  <2>2. CASE PublishAnswer(h)
    <3>1. /\ Leave(h) /\ queue' = queue /\ UNCHANGED <<journal, claims, worked>>
          /\ answers' = answers \union {Answer(h)}
          /\ Owns(h)
      BY <2>2 DEF PublishAnswer, Ack, Owns
    <3>2. journal[key(h)] = IF outcome[h] = "success" THEN "succeeded" ELSE "failed"
      BY <2>2 DEF KeyOrder, OwnerKnows, PublishAnswer
    <3>3. AnswersAreJournalled'
      <4>1. ASSUME NEW k \in Keys, NEW ok \in BOOLEAN, <<k, ok>> = Answer(h)
            PROVE  k = key(h) /\ ok = (outcome[h] = "success")
        BY <4>1 DEF Answer
      <4>2. \A k \in Keys, ok \in BOOLEAN :
              <<k, ok>> \in answers' => <<k, ok>> \in answers \/ <<k, ok>> = Answer(h)
        BY <3>1
      <4>3. \A k \in Keys, ok \in BOOLEAN : <<k, ok>> \in answers' =>
              <<k, ok>> \in answers \/ (k = key(h) /\ ok = (outcome[h] = "success"))
        BY <4>1, <4>2
      <4>4. \A k \in Keys, ok \in BOOLEAN : <<k, ok>> \in answers =>
              journal[k] = IF ok THEN "succeeded" ELSE "failed"
        BY DEF KeyOrder, AnswersAreJournalled
      <4>5. \A k \in Keys, ok \in BOOLEAN : <<k, ok>> \in answers' =>
              journal[k] = IF ok THEN "succeeded" ELSE "failed"
        BY <3>2, <4>3, <4>4
      <4> QED
        BY <3>1, <4>5 DEF AnswersAreJournalled
    <3>4. \A x \in Copies : Present(x)' => Present(x)
      BY <3>1, ReturnsQuietly DEF Present, Waits
    <3> QED
      BY <3>1, <3>3, <3>4, ReturnsQuietly, QuietStep
  <2> QED
    BY <1>8, <2>1, <2>2, ExecuteStep, FinishStep DEF Carries
<1>9. ASSUME NEW h \in Handlers, Mishap(h) PROVE KeyOrder'
  <2>1. CASE PublishFails(h)
    <3>1. Owns(h) /\ Terminal(key(h))
      BY <2>1 DEF PublishFails, Owns, KeyOrder, OwnerKnows, Terminal
    <3> QED
      BY <1>t, <2>1, <3>1 DEF PublishFails
  <2>2. CASE AnswerIsLost(h)
    BY <1>r, <2>2 DEF AnswerIsLost
  <2>b. ASSUME pc[h] # "idle", queue' = queue \/ queue' = [queue EXCEPT ![copy[h]] = @ + 1]
        PROVE  \A x \in Copies : queue'[x] > queue[x] => InHand(x)
    BY <1>1, <2>b, CopyInHand DEF ETypeOK, InHand
  <2>3. CASE ChannelCloses(h)
    <3>1. \A x \in Copies : queue'[x] > queue[x] => InHand(x)
      BY <2>3, <2>b DEF ChannelCloses
    <3> QED
      BY <1>q, <2>3, <3>1 DEF ChannelCloses, InHand, Present, Owns
  <2>4. CASE Crash(h)
    <3>1. \A x \in Copies : queue'[x] > queue[x] => InHand(x)
      BY <2>4, <2>b DEF Crash
    <3> QED
      BY <1>q, <2>4, <3>1, ReturnsQuietly DEF Crash, Present
  <2> QED
    BY <1>4, <1>9, <2>1, <2>2, <2>3, <2>4 DEF Mishap
<1> QED
  BY <1>5, <1>6, <1>7, <1>8, <1>9 DEF ENext, Delivery

LEMMA StepKeepsOrder ==
  ASSUME TypeOK, ExecInv, KeyInv, [Next]_vars
  PROVE  KeyInv'
<1>1. ASSUME UNCHANGED evars PROVE KeyInv'
  <2>1. \A x : Present(x)' <=> Present(x)
    BY <1>1 DEF evars, Present, Waits, InHand
  <2>2. KeyOrder => KeyOrder'
    BY <1>1, <2>1 DEF evars, KeyOrder, InOrder, OneOwnerPerKey, OwnerKnows,
       NothingAfterSuccess, AnswersAreJournalled, Copies, Owns, key, attempt, Terminal
  <2> QED
    BY <1>1, <2>2 DEF evars, KeyInv, Never
<1> QED
  BY <1>1, StepsMap, ExecutorKeepsOrder DEF vars

LEMMA InitKeepsOrder == Init => KeyInv
<1> SUFFICES ASSUME EInit PROVE KeyOrder
  BY DEF Init, KeyInv
<1>1. \A x \in Copies : ~Present(x)
  BY ExecutorAssumption DEF EInit, Present, Waits, InHand, Copies
<1>2. \A h \in Handlers : pc[h] = "idle" /\ ~Owns(h)
  BY DEF EInit, Owns
<1> QED
  BY <1>1, <1>2 DEF EInit, KeyOrder, InOrder, OneOwnerPerKey, OwnerKnows,
     NothingAfterSuccess, AnswersAreJournalled

(* While the journal answers: one success per key and one answer per key,  *)
(* whatever else fails.                                                    *)
THEOREM SuccessIsUnique == Spec => []OnePerKey
<1>1. Init => ExecInv /\ KeyInv
  BY InitKeepsAttempts, InitKeepsOrder
<1>2. TypeOK /\ ExecInv /\ KeyInv /\ [Next]_vars => ExecInv' /\ KeyInv'
  BY StepKeepsAttempts, StepKeepsOrder
<1>3. ExecInv /\ KeyInv => OnePerKey
  <2> SUFFICES ASSUME ExecInv, KeyOrder
               PROVE  /\ \A x, y \in worked : x[1] = y[1] => x = y
                      /\ \A k \in Keys : ~({<<k, TRUE>>, <<k, FALSE>>} \subseteq answers)
    BY DEF KeyInv, OnePerKey
  <2>1. ASSUME NEW x \in worked, NEW y \in worked, x[1] = y[1] PROVE x = y
    <3>1. /\ x \in Copies /\ y \in Copies /\ x[2] \in 0..Levels /\ y[2] \in 0..Levels
          /\ x = <<x[1], x[2]>> /\ y = <<y[1], y[2]>>
      BY DEF ExecInv, ETypeOK, Copies
    <3>2. x[2] \in claims[x[1]] /\ y[2] \in claims[x[1]]
      BY <2>1 DEF ExecInv, ETypeOK, ClaimsComeFirst
    <3>3. claims[x[1]] \subseteq 0..x[2] /\ claims[x[1]] \subseteq 0..y[2]
      BY <2>1 DEF KeyOrder, NothingAfterSuccess
    <3>4. x[2] = y[2]
      BY <3>1, <3>2, <3>3
    <3> QED
      BY <2>1, <3>1, <3>4
  <2>2. \A k \in Keys : ~({<<k, TRUE>>, <<k, FALSE>>} \subseteq answers)
    BY Zenon DEF KeyOrder, AnswersAreJournalled
  <2> QED
    BY <2>1, <2>2
<1> QED
  BY <1>1, <1>2, <1>3, TypeCorrect, PTL DEF Spec

-----------------------------------------------------------------------------
LEMMA ExecutorEarnsSuccess ==
  ASSUME ExecInv, SuccessIsEarned, ENext
  PROVE  SuccessIsEarned' /\ answers \subseteq answers'
<1>0. ETypeOK /\ IdleIsFree
  BY DEF ExecInv
<1>q. ASSUME UNCHANGED <<answers, worked>>,
             \A g \in Handlers : pc'[g] \in {"record", "finish", "answer"} =>
               /\ pc[g] \in {"record", "finish", "answer"}
               /\ copy'[g] = copy[g] /\ outcome'[g] = outcome[g]
      PROVE  SuccessIsEarned' /\ answers \subseteq answers'
  BY <1>q DEF SuccessIsEarned
<1>r. ASSUME NEW h \in Handlers, Leave(h), UNCHANGED <<answers, worked>>
      PROVE  SuccessIsEarned' /\ answers \subseteq answers'
  BY <1>0, <1>q, <1>r DEF Leave, Goto, ETypeOK
<1>1. ASSUME NEW k \in Keys, Request(k) \/ Duplicate(k)
      PROVE  SuccessIsEarned' /\ answers \subseteq answers'
  BY <1>1, <1>q DEF Request, Duplicate
<1>2. ASSUME NEW h \in Handlers, NEW x \in Copies, Receive(h, x)
      PROVE  SuccessIsEarned' /\ answers \subseteq answers'
  BY <1>0, <1>2, <1>q DEF Receive, Goto, ETypeOK
<1>3. ASSUME NEW h \in Handlers, Claims(h)
      PROVE  SuccessIsEarned' /\ answers \subseteq answers'
  <2>1. CASE FindTerminal(h) \/ AttemptIsTaken(h)
    BY <2>1, <1>r DEF FindTerminal, AttemptIsTaken, Ack
  <2>2. CASE FindOpen(h) \/ Insert(h) \/ ClaimAttempt(h)
    BY <1>0, <2>2, <1>q DEF FindOpen, Insert, ClaimAttempt, Goto, ETypeOK
  <2> QED
    BY <1>3, <2>1, <2>2 DEF Claims
<1>4. ASSUME NEW h \in Handlers, NEW r \in Results, Execute(h, r)
      PROVE  SuccessIsEarned' /\ answers \subseteq answers'
  <2>1. /\ UNCHANGED <<copy, answers>>
        /\ outcome'[h] = r /\ worked \subseteq worked'
        /\ r = "success" => copy[h] \in worked'
        /\ \A g \in Handlers : g # h => pc'[g] = pc[g] /\ outcome'[g] = outcome[g]
    BY <1>0, <1>4 DEF Execute, Goto, ETypeOK
  <2> QED
    BY <2>1 DEF SuccessIsEarned
<1>5. ASSUME NEW h \in Handlers, Carries(h)
      PROVE  SuccessIsEarned' /\ answers \subseteq answers'
  <2>1. CASE RecordAttempt(h)
    BY <1>r, <2>1 DEF RecordAttempt, Requeue
  <2>2. CASE Finish(h)
    BY <1>0, <1>q, <2>2 DEF Finish, Goto, ETypeOK
  <2>3. CASE PublishAnswer(h)
    <3>1. /\ answers' = answers \union {Answer(h)} /\ worked' = worked
          /\ \A g \in Handlers : pc'[g] \in {"record", "finish", "answer"} =>
               /\ pc[g] \in {"record", "finish", "answer"}
               /\ copy'[g] = copy[g] /\ outcome'[g] = outcome[g]
      BY <1>0, <2>3 DEF PublishAnswer, Ack, Leave, Goto, ETypeOK
    <3>2. ASSUME NEW k \in Keys, <<k, TRUE>> = Answer(h)
          PROVE  \E x \in worked : x[1] = k
      BY <2>3, <3>2 DEF Answer, PublishAnswer, SuccessIsEarned, key
    <3>3. ASSUME NEW k \in Keys, <<k, TRUE>> \in answers'
          PROVE  \E x \in worked : x[1] = k
      BY <3>1, <3>2, <3>3 DEF SuccessIsEarned
    <3> QED
      BY <3>1, <3>3 DEF SuccessIsEarned
  <2> QED
    BY <1>4, <1>5, <2>1, <2>2, <2>3 DEF Carries
<1>6. ASSUME NEW h \in Handlers, Mishap(h)
      PROVE  SuccessIsEarned' /\ answers \subseteq answers'
  <2>1. CASE ChannelCloses(h)
    BY <1>q, <2>1 DEF ChannelCloses
  <2>2. CASE ~ChannelCloses(h)
    BY <1>6, <1>r, <2>2
    DEF Mishap, StoreFails, PublishFails, AnswerIsLost, Crash, Requeue, Ack
  <2> QED
    BY <2>1, <2>2
<1> QED
  BY <1>1, <1>2, <1>3, <1>5, <1>6 DEF ENext, Delivery

LEMMA StepKeepsDone ==
  ASSUME TypeOK, ExecInv, DoneInv, [Next]_vars
  PROVE  DoneInv'
<1>1. SuccessIsEarned' /\ answers \subseteq answers'
  <2>1. ASSUME UNCHANGED evars PROVE SuccessIsEarned' /\ answers \subseteq answers'
    BY <2>1 DEF evars, SuccessIsEarned, DoneInv
  <2> QED
    BY <2>1, StepsMap, ExecutorEarnsSuccess DEF DoneInv, vars
<1>2. CASE UNCHANGED <<status, sentKey>>
  BY <1>1, <1>2 DEF DoneInv
<1>3. ASSUME NEW u \in Users, API(u) PROVE DoneInv'
  <2>1. status' # "DONE" \/ UNCHANGED <<status, sentKey>>
    BY <1>3 DEF API, Read, Move, Cancel, Retry, Edit, Abandon, Send, order
  <2> QED
    BY <1>1, <1>2, <2>1 DEF DoneInv
<1>4. ASSUME NEW k \in Keys, NEW ok \in BOOLEAN, ApplyAnswer(k, ok) PROVE DoneInv'
  <2>1. /\ <<k, ok>> \in answers' /\ sentKey' = k
        /\ status' = "DONE" => ok = TRUE
    BY <1>1, <1>4 DEF ApplyAnswer, Applies
  <2> QED
    BY <1>1, <2>1 DEF DoneInv
<1>5. CASE Watchdog
  <2>1. status' # "DONE" \/ UNCHANGED <<status, sentKey>>
    BY <1>5 DEF Watchdog, Scan, Expire, order
  <2>2. sentKey' = sentKey
    BY <1>5 DEF Watchdog, Scan, Expire, order
  <2> QED
    BY <1>1, <1>2, <2>1, <2>2 DEF DoneInv
<1>6. CASE Automation
  BY <1>2, <1>6 DEF Automation, ovars, order
<1> QED
  BY <1>2, <1>3, <1>4, <1>5, <1>6 DEF Next, vars, ovars, order

(* Whatever fails, a sale that is done had its action carried out, with    *)
(* success, under the key of its last send.                                *)
THEOREM DoneIsEarned == Spec => []DoneWasCarriedOut
<1>1. Init => ExecInv /\ DoneInv
  BY InitKeepsAttempts DEF Init, EInit, DoneInv, SuccessIsEarned
<1>2. TypeOK /\ ExecInv /\ DoneInv /\ [Next]_vars => ExecInv' /\ DoneInv'
  BY StepKeepsAttempts, StepKeepsDone
<1>3. TypeOK /\ ExecInv /\ DoneInv => DoneWasCarriedOut
  <2> SUFFICES ASSUME TypeOK, ExecInv, DoneInv, status = "DONE"
               PROVE  \E x \in worked : x[1] = sentKey
    BY DEF DoneWasCarriedOut
  <2>1. <<sentKey, TRUE>> \in Keys \X BOOLEAN
    BY DEF DoneInv, ExecInv, ETypeOK
  <2>2. sentKey \in Keys
    BY <2>1
  <2> QED
    BY <2>2 DEF DoneInv, SuccessIsEarned
<1> QED
  BY <1>1, <1>2, <1>3, TypeCorrect, PTL DEF Spec

(* Without a move or a cancellation under way, done is the end.            *)
THEOREM DoneStaysDone == Spec => DoneIsFinal
<1>1. ASSUME TypeOK, [Next]_vars, Settled PROVE Settled'
  <2>1. CASE UNCHANGED <<status, request>>
    BY <1>1, <2>1 DEF Settled
  <2>2. ASSUME NEW u \in Users, API(u) PROVE Settled'
    <3>1. Idle.op = "none"
      BY DEF Idle
    <3>2. \A op \in Ops : ~Read(u, op)
      BY <1>1 DEF Read, Settled, Admits, Ops
    <3>3. ~Move(u) /\ ~Cancel(u) /\ ~Retry(u)
      BY <1>1 DEF Move, Cancel, Retry, Settled
    <3>4. UNCHANGED status /\ Reply(u)
      BY <2>2, <3>2, <3>3 DEF API, Edit, Abandon, order
    <3> QED
      BY <1>1, <3>1, <3>4 DEF Settled, Reply, TypeOK
  <2>3. ASSUME NEW k, NEW ok, ApplyAnswer(k, ok) PROVE FALSE
    BY <1>1, <2>3 DEF ApplyAnswer, Applies, Settled
  <2>4. CASE Watchdog
    BY <1>1, <2>1, <2>4 DEF Watchdog, Scan, Expire, Applies, Settled, order
  <2>5. CASE Automation
    BY <2>1, <2>5 DEF Automation, ovars, order
  <2> QED
    BY <1>1, <2>1, <2>2, <2>3, <2>4, <2>5 DEF Next, vars, ovars, order
<1>2. TypeOK /\ [Next]_vars => [Settled => Settled']_vars
  BY <1>1
<1> QED
  BY <1>2, TypeCorrect, PTL DEF Spec, DoneIsFinal

-----------------------------------------------------------------------------
(* What a handler says of itself while nothing is lost.                    *)
Sound(h) ==
  /\ ~cut[h]
  /\ pc[h] = "claim" => journal[key(h)] # "none"
  /\ pc[h] = "record" => attempt(h) < Levels

(* Steps that leave the journal alone.                                     *)
LEMMA JournalStands ==
  ASSUME LossOrder, UNCHANGED <<journal, claims>>,
         sent \subseteq sent', answers \subseteq answers',
         \A g \in Handlers : Sound(g)',
         \A x \in Copies : Present(x)' => Present(x) \/ x[1] \in sent',
         \A x \in Copies : Fresh(x) => Present(x)',
         \A k \in sent : Owned(k) => OnItsWay(k)',
         \A k \in sent' : k \in sent \/ OnItsWay(k)'
  PROVE  LossOrder'
<1>1. Copies' = Copies
  BY DEF Copies
<1>2. ASSUME NEW k \in sent PROVE OnItsWay(k)'
  <2>1. CASE Answered(k)
    BY <2>1 DEF OnItsWay, Answered
  <2>2. CASE Owned(k)
    BY <2>2
  <2>3. ASSUME NEW x \in Copies, x[1] = k, Fresh(x) PROVE OnItsWay(k)'
    <3>1. Fresh(x)'
      BY <2>3 DEF Fresh, Terminal
    <3> QED
      BY <1>1, <2>3, <3>1 DEF OnItsWay
  <2> QED
    BY <2>1, <2>2, <2>3 DEF LossOrder, OnItsWay
<1>3. \A k \in sent' : OnItsWay(k)'
  BY <1>2
<1>4. \A x \in Copies' : Present(x)' => x[1] \in sent'
  BY <1>1 DEF LossOrder
<1>5. \A k \in Keys : claims'[k] # {} => k \in sent'
  BY DEF LossOrder
<1> QED
  BY <1>3, <1>4, <1>5 DEF LossOrder, Sound

(* Steps by which the owner of a key writes the key's row.                 *)
LEMMA OwnerWrites ==
  ASSUME LossOrder, ETypeOK, NEW h \in Handlers, key(h) \in sent,
         Owns(h)', UNCHANGED <<queue, copy, cut, sent, answers>>,
         \A k \in Keys : k # key(h) => journal'[k] = journal[k] /\ claims'[k] = claims[k],
         journal'[key(h)] # "none",
         \A g \in Handlers : g # h => pc'[g] = pc[g],
         pc'[h] \in {"execute", "answer"},
         sent \subseteq Keys
  PROVE  LossOrder'
<1>1. Copies' = Copies
  BY DEF Copies
<1>2. \A x : Present(x)' <=> Present(x)
  BY DEF Present, Waits, InHand
<1>3. \A g \in Handlers : key(g)' = key(g) /\ attempt(g)' = attempt(g)
                          /\ (Owns(g) => Owns(g)')
  BY DEF key, attempt, Owns
<1>4. ASSUME NEW k \in sent PROVE OnItsWay(k)'
  <2>1. CASE k = key(h)
    BY <1>3, <2>1 DEF OnItsWay, Owned
  <2>2. CASE k # key(h) /\ Answered(k)
    BY <2>2 DEF OnItsWay, Answered
  <2>3. CASE k # key(h) /\ Owned(k)
    BY <1>3, <2>3 DEF OnItsWay, Owned
  <2>4. ASSUME NEW x \in Copies, x[1] = k, k # key(h), Fresh(x) PROVE OnItsWay(k)'
    <3>1. Fresh(x)'
      BY <1>2, <2>4 DEF Fresh, Terminal
    <3> QED
      BY <1>1, <2>4, <3>1 DEF OnItsWay
  <2> QED
    BY <2>1, <2>2, <2>3, <2>4 DEF LossOrder, OnItsWay
<1>5. \A x \in Copies' : Present(x)' => x[1] \in sent'
  BY <1>1, <1>2 DEF LossOrder
<1>6. \A k \in Keys : claims'[k] # {} => k \in sent'
  BY DEF LossOrder
<1>7. ASSUME NEW g \in Handlers PROVE Sound(g)'
  <2>1. CASE g = h
    BY <2>1 DEF Sound, LossOrder
  <2>2. CASE g # h
    <3>1. pc[g] = "claim" => key(g) \in Keys /\ journal[key(g)] # "none"
      BY CopyInHand DEF LossOrder
    <3> QED
      BY <1>3, <2>2, <3>1 DEF Sound, LossOrder
  <2> QED
    BY <2>1, <2>2
<1> QED
  BY <1>4, <1>5, <1>6, <1>7 DEF LossOrder, Sound

(* What the step of a handler leaves of the requests.                      *)
LEMMA DeliveryLosesNothing ==
  ASSUME TypeOK, ExecInv, KeyOrder, LossOrder, NothingIsLost',
         NEW h \in Handlers, Delivery(h), sent' = sent
  PROVE  LossOrder'
<1>0. /\ ETypeOK /\ IdleIsFree /\ ClaimsComeFirst /\ InOrder /\ OwnerKnows /\ ETypeOK'
      /\ sent \subseteq Keys /\ ENext
  BY ExecutorIsTyped DEF ExecInv, KeyOrder, TypeOK, ENext
<1>1. \A g \in Handlers : Sound(g)
  BY DEF LossOrder, Sound
<1>2. ~Mishap(h)
  <2>1. \A f \in {"store", "broker", "channel", "crash"} : ~GoesWrong(f)
    BY <1>0, Mishaps DEF NothingIsLost, Never, ETypeOK
  <2> QED
    BY <2>1 DEF Mishap, StoreFails, PublishFails, AnswerIsLost, ChannelCloses, Crash
<1>h. pc[h] # "idle" => /\ copy[h] \in Copies /\ key(h) \in Keys /\ key(h) \in sent
                       /\ copy[h][1] = key(h) /\ copy[h][2] = attempt(h)
  BY <1>0, CopyInHand DEF LossOrder, Present, InHand, key, attempt
<1>n. NoCopy \notin Copies
  BY ExecutorAssumption DEF Copies
<1>3. ASSUME NEW x \in Copies, Receive(h, x) PROVE LossOrder'
  <2>1. /\ UNCHANGED <<journal, claims, answers, cut>>
        /\ queue' = [queue EXCEPT ![x] = @ - 1] /\ queue[x] > 0
        /\ pc'[h] = "find" /\ copy'[h] = x /\ pc[h] = "idle"
        /\ \A g \in Handlers : g # h => pc'[g] = pc[g] /\ copy'[g] = copy[g]
    BY <1>0, <1>3 DEF Receive, Goto, ETypeOK
  <2>2. copy[h] = NoCopy
    BY <1>0, <2>1 DEF IdleIsFree
  <2>3. \A y \in Copies : queue'[y] = IF y = x THEN queue[y] - 1 ELSE queue[y]
    BY <1>0, <2>1 DEF ETypeOK
  <2>4. \A y \in Copies : Present(y)' <=> Present(y)
    <3>1. \A y \in Copies : y # x => (Present(y)' <=> Present(y))
      BY <1>n, <2>1, <2>2, <2>3 DEF Present, Waits, InHand
    <3>2. Present(x) /\ Present(x)'
      BY <2>1 DEF Present, Waits, InHand
    <3> QED
      BY <3>1, <3>2
  <2>5. \A g \in Handlers : Sound(g)'
    BY <1>1, <2>1 DEF Sound, key, attempt
  <2>6. \A k \in sent : Owned(k) => OnItsWay(k)'
    BY <2>1 DEF Owned, OnItsWay, Owns, key
  <2> QED
    BY <2>1, <2>4, <2>5, <2>6, JournalStands DEF Fresh
<1>r. ASSUME Leave(h), UNCHANGED <<journal, claims>>, answers \subseteq answers',
             \A x \in Copies : queue'[x] >= queue[x],
             \A x \in Copies : queue'[x] > queue[x] => x[1] = key(h),
             pc[h] # "idle",
             ~Fresh(copy[h]), \A k \in sent : Owns(h) /\ key(h) = k => OnItsWay(k)'
      PROVE  LossOrder'
  <2>1. /\ pc'[h] = "idle" /\ copy'[h] = NoCopy /\ cut'[h] = FALSE
        /\ \A g \in Handlers : g # h =>
             pc'[g] = pc[g] /\ copy'[g] = copy[g] /\ cut'[g] = cut[g]
    BY <1>0, <1>r DEF Leave, Goto, ETypeOK
  <2>2. \A x \in Copies : queue[x] \in Nat /\ queue'[x] \in Nat
    BY <1>0 DEF ETypeOK, Copies
  <2>3. \A x \in Copies : Present(x)' => Present(x) \/ x[1] = key(h)
    BY <1>n, <1>r, <2>1, <2>2 DEF Present, Waits, InHand
  <2>4. \A x \in Copies : Fresh(x) => Present(x)'
    BY <1>r, <2>1, <2>2 DEF Fresh, Present, Waits, InHand
  <2>5. \A g \in Handlers : Sound(g)'
    BY <1>1, <1>r, <2>1 DEF Sound, key, attempt
  <2>6. ASSUME NEW g \in Handlers, Owns(g), g # h, NEW k \in sent, key(g) = k
        PROVE  OnItsWay(k)'
    BY <2>1, <2>6 DEF Owned, OnItsWay, Owns, key
  <2>7. \A k \in sent : Owned(k) => OnItsWay(k)'
    BY <1>r, <2>6 DEF Owned
  <2>8. sent \subseteq sent' /\ \A k \in sent' : k \in sent
    OBVIOUS
  <2>9. \A x \in Copies : Present(x)' => Present(x) \/ x[1] \in sent'
    BY <1>h, <1>r, <2>3
  <2> QED
    BY <1>r, <2>4, <2>5, <2>7, <2>8, <2>9, JournalStands
<1>a. ASSUME Ack(h), UNCHANGED <<journal, claims, answers>>, pc[h] \in {"find", "claim"},
             ~Fresh(copy[h])
      PROVE  LossOrder'
  <2>1. Leave(h) /\ queue' = queue
    BY <1>a DEF Ack
  <2>2. \A x \in Copies : queue'[x] >= queue[x] /\ ~(queue'[x] > queue[x])
    BY <1>0, <2>1 DEF ETypeOK
  <2>3. ~Owns(h)
    BY <1>a DEF Owns
  <2> QED
    BY <1>a, <1>r, <2>1, <2>2, <2>3
<1>p. ASSUME UNCHANGED <<queue, copy>>
      PROVE  \A x : Present(x)' <=> Present(x)
  BY <1>p DEF Present, Waits, InHand
<1>s. ASSUME UNCHANGED <<queue, copy, cut, journal, claims, answers>>,
             \A g \in Handlers : g # h => pc'[g] = pc[g],
             Owns(h)' <=> Owns(h), Sound(h)'
      PROVE  LossOrder'
  <2>1. \A g \in Handlers : Sound(g)'
    BY <1>1, <1>s DEF Sound, key, attempt
  <2>2. \A g \in Handlers : (Owns(g)' <=> Owns(g)) /\ key(g)' = key(g)
    BY <1>s DEF Owns, key
  <2>3. \A k \in sent : Owned(k) => OnItsWay(k)'
    BY <2>2 DEF Owned, OnItsWay
  <2> QED
    BY <1>p, <1>s, <2>1, <2>3, JournalStands DEF Fresh
<1>4. CASE Claims(h)
  <2>1. CASE FindTerminal(h)
    BY <1>h, <1>a, <2>1 DEF FindTerminal, Fresh, Terminal
  <2>2. CASE AttemptIsTaken(h)
    <3>1. pc[h] = "claim" /\ journal[key(h)] # "none"
      BY <1>1, <2>2 DEF AttemptIsTaken, Sound
    <3>2. Terminal(key(h)) \/ attempt(h) \in claims[key(h)]
      BY <1>0, <1>h, <2>2, <3>1 DEF AttemptIsTaken, Terminal, ETypeOK
    <3> QED
      BY <1>h, <1>a, <2>2, <3>1, <3>2 DEF AttemptIsTaken, Fresh
  <2>3. CASE FindOpen(h)
    <3>1. pc'[h] = IF journal[key(h)] = "none" THEN "insert" ELSE "claim"
      BY <1>0, <2>3 DEF FindOpen, Goto, ETypeOK
    <3>2. Sound(h)'
      BY <1>1, <2>3, <3>1 DEF FindOpen, Sound, key, attempt
    <3> QED
      BY <1>0, <1>s, <2>3, <3>1, <3>2 DEF FindOpen, Goto, Owns, ETypeOK
  <2>4. CASE Insert(h) /\ journal[key(h)] # "none"
    <3>1. pc'[h] = "claim"
      BY <1>0, <2>4 DEF Insert, Goto, ETypeOK
    <3>2. Sound(h)'
      BY <1>1, <2>4, <3>1 DEF Insert, Sound, key, attempt
    <3> QED
      BY <1>0, <1>s, <2>4, <3>1, <3>2 DEF Insert, Goto, Owns, ETypeOK
  <2>w. ASSUME pc[h] # "idle", Goto(h, "execute"), UNCHANGED <<queue, copy, cut, answers>>,
               \A k \in Keys : k # key(h) =>
                 journal'[k] = journal[k] /\ claims'[k] = claims[k],
               journal'[key(h)] # "none"
        PROVE  LossOrder'
    <3>1. /\ pc'[h] = "execute"
          /\ \A g \in Handlers : g # h => pc'[g] = pc[g]
      BY <1>0, <2>w DEF Goto, ETypeOK
    <3> QED
      BY <1>0, <1>h, <2>w, <3>1, OwnerWrites DEF Owns
  <2>5. CASE Insert(h) /\ journal[key(h)] = "none"
    BY <1>0, <1>h, <2>5, <2>w DEF Insert, ETypeOK
  <2>6. CASE ClaimAttempt(h)
    BY <1>0, <1>h, <2>6, <2>w DEF ClaimAttempt, ETypeOK
  <2> QED
    BY <1>4, <2>1, <2>2, <2>3, <2>4, <2>5, <2>6 DEF Claims
<1>5. ASSUME NEW r \in Results, Execute(h, r) PROVE LossOrder'
  <2>1. /\ UNCHANGED <<queue, copy, cut, journal, claims, answers>>
        /\ pc'[h] = "finish" \/ (pc'[h] = "record" /\ attempt(h) + 1 < MaxDeliveries)
        /\ \A g \in Handlers : g # h => pc'[g] = pc[g]
        /\ pc[h] = "execute"
    BY <1>0, <1>5 DEF Execute, Goto, ETypeOK
  <2>2. attempt(h) + 1 < MaxDeliveries => attempt(h) < Levels
    BY <1>0, <2>1, CopyInHand, ExecutorAssumption
  <2>3. Sound(h)'
    BY <1>1, <2>1, <2>2 DEF Sound, key, attempt
  <2> QED
    BY <1>s, <2>1, <2>3 DEF Owns
<1>6. CASE RecordAttempt(h)
  <2>1. /\ pc[h] = "record" /\ ~cut[h] /\ attempt(h) < Levels /\ Owns(h)
        /\ Requeue(h) /\ UNCHANGED <<journal, claims, answers>>
    BY <1>1, <1>6 DEF RecordAttempt, Sound, Owns
  <2>2. key(h) \in Keys /\ attempt(h) + 1 \in 0..Levels
    BY <1>0, <2>1, CopyInHand, ExecutorAssumption
  <2>3. PICK y \in Copies : y = <<key(h), attempt(h) + 1>>
    BY <2>2 DEF Copies
  <2>4. /\ Leave(h)
        /\ \A x \in Copies : queue'[x] >= queue[x]
        /\ \A x \in Copies : queue'[x] > queue[x] => x = y
        /\ queue'[y] > 0
    BY <1>0, <2>1, <2>3, Requeues
  <2>5. y[2] \notin claims[y[1]] /\ ~Terminal(y[1])
    <3>1. /\ claims[key(h)] \subseteq 0..attempt(h)
          /\ journal[key(h)] = "running"
      BY <1>0, <2>1 DEF InOrder, OwnerKnows
    <3>2. attempt(h) \in 0..Levels
      BY <1>0, <2>1, CopyInHand
    <3>3. attempt(h) + 1 \notin claims[key(h)]
      BY <3>1, <3>2, ExecutorAssumption
    <3>4. y[1] = key(h) /\ y[2] = attempt(h) + 1
      BY <2>3
    <3> QED
      BY <3>1, <3>3, <3>4 DEF Terminal
  <2>6. Fresh(y)'
    BY <2>1, <2>4, <2>5 DEF Fresh, Present, Waits, Terminal
  <2>7. Copies' = Copies
    BY DEF Copies
  <2>8. \A k \in sent : key(h) = k => OnItsWay(k)'
    BY <2>3, <2>6, <2>7 DEF OnItsWay
  <2>9. ~Fresh(copy[h])
    BY <1>0, <1>h, <2>1 DEF ClaimsComeFirst, Fresh
  <2> QED
    BY <1>r, <2>1, <2>3, <2>4, <2>8, <2>9
<1>7. CASE Finish(h)
  <2>1. /\ UNCHANGED <<queue, copy, cut, claims, answers>>
        /\ pc[h] = "finish" /\ pc'[h] = "answer"
        /\ \A g \in Handlers : g # h => pc'[g] = pc[g]
        /\ journal' = Finished(h)
    BY <1>0, <1>7 DEF Finish, Goto, ETypeOK
  <2>2. /\ \A k \in Keys : k # key(h) => journal'[k] = journal[k]
        /\ journal'[key(h)] # "none"
    BY <1>0, <1>h, <2>1 DEF Finished, ETypeOK
  <2> QED
    BY <1>0, <1>h, <2>1, <2>2, OwnerWrites DEF Owns
<1>8. CASE PublishAnswer(h)
  <2>1. /\ pc[h] = "answer" /\ Leave(h) /\ queue' = queue /\ UNCHANGED <<journal, claims>>
        /\ answers' = answers \union {Answer(h)}
    BY <1>8 DEF PublishAnswer, Ack
  <2>2. \A k \in sent : key(h) = k => OnItsWay(k)'
    BY <2>1 DEF Answer, OnItsWay, Answered
  <2>3. ~Fresh(copy[h])
    BY <1>0, <1>h, <2>1 DEF ClaimsComeFirst, Fresh, Owns
  <2>4. \A x \in Copies : queue'[x] >= queue[x] /\ ~(queue'[x] > queue[x])
    BY <1>0, <2>1 DEF ETypeOK
  <2> QED
    BY <1>r, <2>1, <2>2, <2>3, <2>4
<1> QED
  BY <1>2, <1>3, <1>4, <1>5, <1>6, <1>7, <1>8 DEF Delivery, Carries

(* A request that goes out, or is copied, is on its way.                   *)
LEMMA RequestLosesNothing ==
  ASSUME ExecInv, LossOrder, NEW k \in Keys, Request(k) \/ Duplicate(k),
         sent' = sent \union {k}
  PROVE  LossOrder'
<1>0. ETypeOK /\ ClaimsComeFirst
  BY DEF ExecInv
<1>1. 0 \in 0..Levels
  BY ExecutorAssumption
<1>2. PICK y \in Copies : y = <<k, 0>>
  BY <1>1 DEF Copies
<1>3. /\ UNCHANGED <<journal, claims, pc, copy, cut, answers>>
      /\ queue' = [queue EXCEPT ![y] = @ + 1]
  BY <1>2 DEF Request, Duplicate
<1>4. \A x \in Copies : queue'[x] = IF x = y THEN queue[x] + 1 ELSE queue[x]
  BY <1>0, <1>3 DEF ETypeOK
<1>5. \A x \in Copies : queue[x] \in Nat
  BY <1>0 DEF ETypeOK, Copies
<1>6. \A x \in Copies : Present(x)' <=> Present(x) \/ x = y
  BY <1>3, <1>4, <1>5 DEF Present, Waits, InHand
<1>7. \A g \in Handlers : Sound(g)'
  BY <1>3 DEF LossOrder, Sound, key, attempt
<1>8. \A j \in sent : Owned(j) => OnItsWay(j)'
  BY <1>3 DEF OnItsWay, Owned, Owns, key
<1>9. k \in sent \/ OnItsWay(k)'
  <2> SUFFICES ASSUME k \notin sent PROVE OnItsWay(k)'
    OBVIOUS
  <2>1. claims[k] = {} /\ journal[k] = "none"
    BY <1>0 DEF LossOrder, ClaimsComeFirst
  <2>2. Fresh(y)'
    BY <1>2, <1>3, <1>6, <2>1 DEF Fresh, Terminal
  <2>3. Copies' = Copies
    BY DEF Copies
  <2> QED
    BY <1>2, <2>2, <2>3 DEF OnItsWay
<1> QED
  BY <1>2, <1>3, <1>6, <1>7, <1>8, <1>9, JournalStands DEF Fresh

LEMMA StepLosesNothing ==
  ASSUME TypeOK, ExecInv, KeyInv, LossInv, [Next]_vars
  PROVE  LossInv'
<1>0. TypeOK' /\ ETypeOK
  BY StepIsTyped DEF ExecInv
<1>1. mishaps' = mishaps \/ \E f \in Faults : mishaps' = [mishaps EXCEPT ![f] = @ + 1]
  <2>1. CASE ENext
    BY <2>1, Mishaps
    DEF ENext, Request, Duplicate, Delivery, Receive, Claims, FindTerminal, FindOpen,
        Insert, ClaimAttempt, AttemptIsTaken, Carries, Execute, RecordAttempt, Finish,
        PublishAnswer, Mishap, StoreFails, PublishFails, AnswerIsLost, ChannelCloses,
        Crash
  <2> QED
    BY <2>1, StepsMap DEF vars, evars
<1>2. \A f : Never(f)' => Never(f)
  BY <1>0, <1>1 DEF Never, ETypeOK
<1> SUFFICES ASSUME NothingIsLost' PROVE LossOrder'
  BY DEF LossInv
<1>3. LossOrder /\ KeyOrder
  BY <1>2 DEF LossInv, NothingIsLost, KeyInv
<1>s. CASE UNCHANGED <<evars, sent>>
  <2>1. \A x : Fresh(x)' <=> Fresh(x)
    BY <1>s DEF evars, Fresh, Present, Waits, InHand, Terminal
  <2>2. \A k : OnItsWay(k)' <=> OnItsWay(k)
    BY <1>s, <2>1 DEF evars, OnItsWay, Answered, Owned, Owns, key, Copies
  <2> QED
    BY <1>3, <1>s, <2>2 DEF evars, LossOrder, Present, Waits, InHand, key, attempt, Copies
<1>4. ASSUME NEW u \in Users, API(u) PROVE LossOrder'
  <2>1. ASSUME NEW k \in Keys, Send(k) PROVE LossOrder'
    BY <1>3, <2>1, RequestLosesNothing DEF Send
  <2>2. CASE Move(u)
    BY <2>1, <2>2, SendsAKey DEF Move
  <2>3. CASE Retry(u)
    BY <2>1, <2>3, SendsAKey DEF Retry
  <2>4. CASE ~Move(u) /\ ~Retry(u)
    BY <1>4, <1>s, <2>4 DEF API, Read, Cancel, Edit, Abandon
  <2> QED
    BY <2>2, <2>3, <2>4
<1>5. ASSUME NEW k, NEW ok, ApplyAnswer(k, ok) PROVE LossOrder'
  BY <1>5, <1>s DEF ApplyAnswer
<1>6. CASE Watchdog
  BY <1>6, <1>s DEF Watchdog, Scan, Expire
<1>7. CASE Automation
  <2>1. ASSUME NEW k \in sent, Duplicate(k) PROVE LossOrder'
    <3>1. k \in Keys /\ sent' = sent \union {k}
      BY <1>7, <2>1 DEF Automation, ovars, TypeOK
    <3> QED
      BY <1>3, <2>1, <3>1, RequestLosesNothing
  <2>2. ASSUME NEW h \in Handlers, Delivery(h) PROVE LossOrder'
    BY <1>3, <1>7, <2>2, DeliveryLosesNothing DEF Automation, ovars
  <2> QED
    BY <1>7, <2>1, <2>2 DEF Automation
<1> QED
  BY <1>4, <1>5, <1>6, <1>7, <1>s DEF Next, vars, ovars

(* While nothing is lost on the way, no request that went out is           *)
(* swallowed, however often it is duplicated and however it is retried.    *)
THEOREM NothingIsSwallowed == Spec => []NoRequestIsLost
<1>1. Init => ExecInv /\ KeyInv /\ LossInv
  <2>1. ASSUME Init PROVE LossOrder
    <3>1. \A x \in Copies : ~Present(x)
      BY <2>1, ExecutorAssumption DEF Init, EInit, Present, Waits, InHand, Copies
    <3> QED
      BY <2>1, <3>1 DEF Init, EInit, LossOrder
  <2> QED
    BY <2>1, InitKeepsAttempts, InitKeepsOrder DEF LossInv
<1>2. TypeOK /\ ExecInv /\ KeyInv /\ LossInv /\ [Next]_vars =>
        ExecInv' /\ KeyInv' /\ LossInv'
  BY StepKeepsAttempts, StepKeepsOrder, StepLosesNothing
<1>3. ExecInv /\ LossInv => NoRequestIsLost
  <2> SUFFICES ASSUME ExecInv, LossOrder, NEW k \in sent
               PROVE  \/ \E ok \in BOOLEAN : <<k, ok>> \in answers
                      \/ \E n \in 0..Levels : queue[<<k, n>>] > 0
                      \/ \E h \in Handlers : pc[h] # "idle" /\ key(h) = k
    BY DEF NoRequestIsLost, LossInv, NothingIsLost
  <2>1. CASE Answered(k)
    BY <2>1 DEF Answered
  <2>2. CASE Owned(k)
    BY <2>2 DEF Owned, Owns
  <2>3. ASSUME NEW x \in Copies, x[1] = k, Fresh(x)
        PROVE  \/ \E n \in 0..Levels : queue[<<k, n>>] > 0
               \/ \E h \in Handlers : pc[h] # "idle" /\ key(h) = k
    <3>1. x = <<k, x[2]>> /\ x[2] \in 0..Levels /\ x # NoCopy
      BY <2>3, ExecutorAssumption DEF Copies
    <3>2. CASE Waits(x)
      BY <3>1, <3>2 DEF Waits
    <3>3. CASE InHand(x)
      BY <2>3, <3>1, <3>3 DEF InHand, ExecInv, IdleIsFree, key
    <3> QED
      BY <2>3, <3>2, <3>3 DEF Fresh, Present
  <2> QED
    BY <2>1, <2>2, <2>3 DEF LossOrder, OnItsWay
<1> QED
  BY <1>1, <1>2, <1>3, TypeCorrect, PTL DEF Spec

-----------------------------------------------------------------------------
(* A copy is delivered only of a request that was sent, so nothing else is *)
(* carried out.                                                            *)
CopiesWereSent == \A x \in Copies : Present(x) => x[1] \in sent

LEMMA NoCopiesYet == Init => CopiesWereSent
BY ExecutorAssumption DEF Init, EInit, CopiesWereSent, Present, Waits, InHand,
   Copies

LEMMA DeliveryKeepsCopies ==
  ASSUME ETypeOK, IdleIsFree, CopiesWereSent, NEW h \in Handlers, Delivery(h),
         sent' = sent
  PROVE  CopiesWereSent'
<1>1. Copies' = Copies /\ NoCopy \notin Copies
  BY ExecutorAssumption DEF Copies
<1>2. ASSUME UNCHANGED <<queue, copy>> PROVE CopiesWereSent'
  BY <1>1, <1>2 DEF CopiesWereSent, Present, Waits, InHand
<1>3. pc[h] # "idle" => copy[h] \in Copies /\ copy[h][1] = key(h) /\ key(h) \in sent
  BY CopyInHand DEF CopiesWereSent, Present, InHand, key
<1>4. \A x \in Copies : queue[x] \in Nat
  BY DEF ETypeOK
<1>5. ASSUME NEW x \in Copies, Receive(h, x) PROVE CopiesWereSent'
  <2>1. /\ Present(x)
        /\ \A y \in Copies : queue'[y] = IF y = x THEN queue[y] - 1 ELSE queue[y]
        /\ \A g \in Handlers : copy'[g] = IF g = h THEN x ELSE copy[g]
    BY <1>5 DEF Receive, Present, Waits, ETypeOK
  <2>2. \A y \in Copies : Present(y)' => Present(y)
    BY <1>4, <2>1 DEF Present, Waits, InHand
  <2> QED
    BY <1>1, <2>2 DEF CopiesWereSent
<1>6. ASSUME Leave(h), pc[h] # "idle", queue' \in [Copies -> Nat],
             \A x \in Copies : queue'[x] > queue[x] => x[1] = key(h)
      PROVE  CopiesWereSent'
  <2>1. \A g \in Handlers : copy'[g] = IF g = h THEN NoCopy ELSE copy[g]
    BY <1>6 DEF Leave, ETypeOK
  <2>2. \A y \in Copies : Present(y)' => Present(y) \/ y[1] = key(h)
    BY <1>1, <1>4, <1>6, <2>1 DEF Present, Waits, InHand
  <2> QED
    BY <1>1, <1>3, <1>6, <2>2 DEF CopiesWereSent
<1>7. ASSUME pc[h] # "idle", Ack(h) PROVE CopiesWereSent'
  BY <1>4, <1>6, <1>7 DEF Ack, ETypeOK
<1>8. ASSUME pc[h] # "idle", Requeue(h) PROVE CopiesWereSent'
  <2>1. ASSUME NEW x \in Copies, queue'[x] > queue[x] PROVE x[1] = key(h)
    <3>1. x = <<key(h), attempt(h) + 1>>
      BY <1>8, <2>1, Requeues
    <3> QED
      BY <3>1
  <2> QED
    BY <1>6, <1>8, <2>1, Requeues
<1>9. CASE Claims(h)
  BY <1>2, <1>7, <1>9 DEF Claims, FindTerminal, FindOpen, Insert, ClaimAttempt,
     AttemptIsTaken
<1>10. CASE Carries(h)
  BY <1>2, <1>7, <1>8, <1>10 DEF Carries, Execute, RecordAttempt, Finish,
     PublishAnswer
<1>11. CASE Mishap(h)
  <2>1. CASE ChannelCloses(h)
    <3>1. copy[h] \in Copies /\ UNCHANGED copy
          /\ queue' = [queue EXCEPT ![copy[h]] = @ + 1]
      BY <1>3, <2>1 DEF ChannelCloses
    <3>2. \A y \in Copies : Present(y)' => Present(y) \/ y = copy[h]
      BY <3>1 DEF Present, Waits, InHand, ETypeOK
    <3> QED
      BY <1>1, <1>3, <2>1, <3>2 DEF CopiesWereSent, ChannelCloses
  <2>2. CASE Crash(h)
    <3>1. /\ Leave(h) /\ pc[h] # "idle" /\ copy[h] \in Copies
          /\ \/ queue' = queue
             \/ queue' = [queue EXCEPT ![copy[h]] = @ + 1]
      BY <1>3, <2>2 DEF Crash
    <3>2. /\ queue' \in [Copies -> Nat]
          /\ \A x \in Copies : queue'[x] > queue[x] => x = copy[h]
      BY <1>4, <3>1 DEF ETypeOK
    <3> QED
      BY <1>3, <1>6, <3>1, <3>2
  <2>3. CASE StoreFails(h) \/ PublishFails(h) \/ AnswerIsLost(h)
    BY <1>7, <1>8, <2>3 DEF StoreFails, PublishFails, AnswerIsLost
  <2> QED
    BY <1>11, <2>1, <2>2, <2>3 DEF Mishap
<1> QED
  BY <1>5, <1>9, <1>10, <1>11 DEF Delivery

LEMMA RequestKeepsCopies ==
  ASSUME ETypeOK, CopiesWereSent, NEW k \in Keys, Request(k) \/ Duplicate(k),
         sent \subseteq sent', k \in sent'
  PROVE  CopiesWereSent'
<1>1. PICK y \in Copies : y = <<k, 0>>
  <2>1. 0 \in 0..Levels
    BY ExecutorAssumption
  <2> QED
    BY <2>1 DEF Copies
<1>2. UNCHANGED copy /\ queue' = [queue EXCEPT ![y] = @ + 1]
  BY <1>1 DEF Request, Duplicate
<1>3. \A x \in Copies : Present(x)' => Present(x) \/ x = y
  BY <1>2 DEF Present, Waits, InHand, ETypeOK
<1>4. Copies' = Copies
  BY DEF Copies
<1> QED
  BY <1>1, <1>3, <1>4 DEF CopiesWereSent

LEMMA StepKeepsCopies ==
  ASSUME TypeOK, IdleIsFree, CopiesWereSent, [Next]_vars
  PROVE  CopiesWereSent'
<1>0. ETypeOK
  BY DEF TypeOK
<1>1. ASSUME UNCHANGED <<evars, sent>> PROVE CopiesWereSent'
  BY <1>1 DEF evars, CopiesWereSent, Present, Waits, InHand, Copies
<1>2. ASSUME NEW u \in Users, API(u) PROVE CopiesWereSent'
  <2>1. ASSUME NEW k \in Keys, Send(k) PROVE CopiesWereSent'
    BY <1>0, <2>1, RequestKeepsCopies DEF Send
  <2>2. CASE Move(u)
    BY <2>1, <2>2, SendsAKey DEF Move
  <2>3. CASE Retry(u)
    BY <2>1, <2>3, SendsAKey DEF Retry
  <2>4. CASE ~Move(u) /\ ~Retry(u)
    BY <1>1, <1>2, <2>4 DEF API, Read, Cancel, Edit, Abandon
  <2> QED
    BY <2>2, <2>3, <2>4
<1>3. ASSUME NEW k, NEW ok, ApplyAnswer(k, ok) PROVE CopiesWereSent'
  BY <1>1, <1>3 DEF ApplyAnswer
<1>4. CASE Watchdog
  BY <1>1, <1>4 DEF Watchdog, Scan, Expire
<1>5. CASE Automation
  BY <1>0, <1>5, DeliveryKeepsCopies, RequestKeepsCopies DEF Automation, ovars, TypeOK
<1>6. CASE UNCHANGED vars
  BY <1>1, <1>6 DEF vars, ovars
<1> QED
  BY <1>2, <1>3, <1>4, <1>5, <1>6 DEF Next

(* What a step of automation is to the sale: an action is carried out      *)
(* under a key that was sent, or nothing that shows.                       *)
LEMMA AutomationRefines ==
  ASSUME TypeOK, IdleIsFree, CopiesWereSent, Automation
  PROVE  [Promise!Next]_<<status, sentKey, sent, Carried, Plan>>
<1>0. ETypeOK /\ UNCHANGED <<status, sentKey, sent, request>>
  BY DEF TypeOK, Automation, ovars, order
<1>1. Plan' = Plan
  BY <1>0 DEF Plan
<1>2. CASE worked' = worked
  BY <1>0, <1>1, <1>2 DEF Carried
<1>3. CASE worked' # worked
  <2>1. PICK h \in Handlers : Delivery(h)
    BY <1>3 DEF Automation, Duplicate
  <2>2. PICK r \in Results : Execute(h, r)
    BY <1>3, <2>1 DEF Delivery, Receive, Claims, FindTerminal, FindOpen, Insert,
       ClaimAttempt, AttemptIsTaken, Carries, RecordAttempt, Finish,
       PublishAnswer, Mishap, StoreFails, PublishFails, AnswerIsLost,
       ChannelCloses, Crash
  <2>3. worked' = worked \union {copy[h]} /\ pc[h] = "execute"
    BY <1>3, <2>2 DEF Execute
  <2>4. copy[h] \in Copies /\ copy[h][1] \in sent
    BY <1>0, <2>3, CopyInHand DEF CopiesWereSent, Present, InHand
  <2>5. Carried' = Carried \union {copy[h][1]}
    BY <2>3 DEF Carried
  <2>6. Promise!CarryOut(copy[h][1])
    BY <1>0, <1>1, <2>4, <2>5 DEF Promise!CarryOut
  <2> QED
    BY <2>4, <2>6 DEF Promise!Next, TypeOK
<1> QED
  BY <1>2, <1>3

LEMMA PlanFollows ==
  ASSUME TypeOK, NEW u \in Users, NEW q, request' = [request EXCEPT ![u] = q]
  PROVE  Plan' = [Plan EXCEPT ![u] = IF q.op \in {"move", "cancel"} THEN q.op
                                                                    ELSE "none"]
  BY DEF Plan, TypeOK

(* A step of a request.                                                    *)
LEMMA RequestRefines ==
  ASSUME TypeOK, NEW u \in Users, API(u)
  PROVE  [Promise!Next]_<<status, sentKey, sent, Carried, Plan>>
<1>0. Idle.op = "none"
  BY DEF Idle
<1>1. Plan[u] = IF request[u].op \in {"move", "cancel"} THEN request[u].op
                                                        ELSE "none"
  BY DEF Plan
<1>2. \A v \in Users : Plan[v] \in {"none", "move", "cancel"}
  BY DEF Plan
<1>3. Reply(u) => Plan' = [Plan EXCEPT ![u] = "none"]
  BY <1>0, PlanFollows DEF Reply
<1>4. Plan[u] = "none" /\ Reply(u) => Plan' = Plan
  BY <1>3 DEF Plan
<1>5. ASSUME NEW op \in Ops, Read(u, op)
      PROVE  [Promise!Next]_<<status, sentKey, sent, Carried, Plan>>
  <2>1. /\ UNCHANGED <<status, sentKey, sent, worked>>
        /\ Plan[u] = "none" /\ Admits(op, status)
    BY <1>0, <1>1, <1>5 DEF Read, order, evars
  <2>2. Carried' = Carried
    BY <2>1 DEF Carried
  <2>3. Plan' = [Plan EXCEPT ![u] = IF op \in {"move", "cancel"} THEN op
                                                                 ELSE "none"]
    <3> DEFINE q == [op |-> op, pgen |-> payloadGen, sgen |-> sendGen]
    <3>1. request' = [request EXCEPT ![u] = q] /\ q.op = op
      BY <1>5 DEF Read
    <3> HIDE DEF q
    <3> QED
      BY <3>1, PlanFollows
  <2>4. CASE op \in {"move", "cancel"}
    <3>1. Promise!Admit(u, op)
      BY <2>1, <2>2, <2>3, <2>4 DEF Promise!Admit, Admits, TypeOK, Statuses
    <3> QED
      BY <2>4, <3>1 DEF Promise!Next
  <2>5. CASE op \notin {"move", "cancel"}
    BY <2>1, <2>2, <2>3, <2>5 DEF Plan
  <2> QED
    BY <2>4, <2>5
<1>6. CASE Move(u) \/ Retry(u)
  <2>1. PICK k \in Keys : Send(k)
    BY <1>6, SendsAKey DEF Move, Retry
  <2>2. Promise!SendUnder(k)
    BY <2>1 DEF Send, Request, Carried, Promise!SendUnder
  <2>3. CASE Move(u)
    <3>1. Promise!Move(u, k)
      BY <1>1, <1>3, <2>2, <2>3 DEF Move, Promise!Move
    <3> QED
      BY <3>1 DEF Promise!Next
  <2>4. CASE Retry(u)
    <3>1. Promise!Resend(k)
      BY <1>1, <1>4, <2>2, <2>4 DEF Retry, Promise!Resend
    <3> QED
      BY <3>1 DEF Promise!Next
  <2> QED
    BY <1>6, <2>3, <2>4
<1>7. CASE Cancel(u)
  <2>1. Promise!Cancel(u)
    BY <1>1, <1>3, <1>7 DEF Cancel, Promise!Cancel, Carried, evars
  <2> QED
    BY <2>1 DEF Promise!Next
<1>8. CASE Edit(u) \/ Abandon(u)
  <2>1. Promise!Drop(u)
    BY <1>3, <1>8 DEF Edit, Abandon, order, Promise!Drop, Carried, evars
  <2> QED
    BY <2>1 DEF Promise!Next
<1> QED
  BY <1>5, <1>6, <1>7, <1>8 DEF API

(* A step that ends a send, by an answer or by the watchdog.               *)
LEMMA AnswerRefines ==
  ASSUME TypeOK, DoneInv,
         Watchdog \/ \E k \in Keys, ok \in BOOLEAN : ApplyAnswer(k, ok)
  PROVE  [Promise!Next]_<<status, sentKey, sent, Carried, Plan>>
<1>1. UNCHANGED <<sentKey, sent, worked, request>>
  BY DEF Watchdog, Scan, Expire, ApplyAnswer, order, evars
<1>2. Carried' = Carried /\ Plan' = Plan
  BY <1>1 DEF Carried, Plan
<1>3. ASSUME NEW k \in Keys, ApplyAnswer(k, TRUE)
      PROVE  Promise!Succeed
  <2>1. PICK x \in worked : x[1] = k
    BY <1>3 DEF ApplyAnswer, DoneInv, SuccessIsEarned
  <2>2. sentKey \in Carried
    BY <1>3, <2>1 DEF ApplyAnswer, Applies, Carried
  <2> QED
    BY <1>1, <1>2, <1>3, <2>2 DEF ApplyAnswer, Applies, Promise!Succeed
<1>4. ASSUME NEW k \in Keys, ApplyAnswer(k, FALSE)
      PROVE  Promise!Fail
  BY <1>1, <1>2, <1>4 DEF ApplyAnswer, Applies, Promise!Fail
<1>5. Watchdog => Promise!Fail \/ UNCHANGED status
  BY <1>1, <1>2 DEF Watchdog, Scan, Expire, Applies, order, Promise!Fail
<1> QED
  BY <1>1, <1>2, <1>3, <1>4, <1>5 DEF Promise!Next

(* The saga keeps the promise of Sale, whatever is lost, duplicated, late  *)
(* or dead: each of its steps is one of Sale's, or does not show.          *)
THEOREM SagaImplementsSale == Spec => ImplementsSale
<1> DEFINE Inv == /\ TypeOK /\ IdleIsFree /\ ExecInv
                  /\ DoneInv /\ CopiesWereSent
<1>1. Init => Inv /\ Promise!Init
  <2> SUFFICES ASSUME Init PROVE Inv /\ Promise!Init
    OBVIOUS
  <2>1. CopiesWereSent
    BY NoCopiesYet
  <2>2. DoneInv
    BY DEF Init, EInit, DoneInv, SuccessIsEarned
  <2>3. Promise!Init
    BY DEF Init, EInit, Promise!Init, Carried, Plan, Idle
  <2> QED
    BY <2>1, <2>2, <2>3, InitIsTyped, InitKeepsAttempts
<1>2. Inv /\ [Next]_vars => Inv'
  BY StepIsTyped, StepKeepsAttempts, StepKeepsDone, StepKeepsCopies
<1>3. Inv /\ [Next]_vars =>
        [Promise!Next]_<<status, sentKey, sent, Carried, Plan>>
  <2> SUFFICES ASSUME Inv, [Next]_vars
               PROVE  [Promise!Next]_<<status, sentKey, sent, Carried, Plan>>
    OBVIOUS
  <2>1. CASE UNCHANGED vars
    BY <2>1 DEF vars, evars, ovars, order, Carried, Plan
  <2> QED
    BY <2>1, AutomationRefines, RequestRefines, AnswerRefines DEF Next
<1> QED
  BY <1>1, <1>2, <1>3, PTL DEF Spec, ImplementsSale, Promise!Spec

-----------------------------------------------------------------------------
(* Automation knows only keys that were sent; an active sale was never     *)
(* sent.                                                                   *)
KnownWasSent ==
  /\ \A k \in Keys : journal[k] # "none" => k \in sent
  /\ status = "ACTIVE" => sent = {}

(* While requests do not race, what one has read still holds when it       *)
(* writes, and no key is ahead of the sale's own generation.               *)
ReadIsCurrent ==
  /\ \A u \in Users :
       /\ request[u].op # "none" => request[u].sgen = sendGen
       /\ request[u].op = "move" => status \in {"ACTIVE", "CANCELLED"}
  /\ \A k \in sent : k[2] <= sendGen

LEMMA JournalFollowsCopies ==
  ASSUME ETypeOK, CopiesWereSent, KnownWasSent, NEW h \in Handlers, Delivery(h),
         sent' = sent, NEW k \in Keys, journal'[k] # "none"
  PROVE  k \in sent
<1>1. pc[h] # "idle" => copy[h] \in Copies /\ copy[h][1] = key(h) /\ key(h) \in sent
  BY CopyInHand DEF CopiesWereSent, Present, InHand, key
<1>2. CASE journal'[k] = journal[k]
  BY <1>2 DEF KnownWasSent
<1>3. CASE journal'[k] # journal[k]
  <2>1. pc[h] # "idle" /\ k = key(h)
    BY <1>3 DEF Delivery, Receive, Claims, FindTerminal, FindOpen, Insert,
       ClaimAttempt, AttemptIsTaken, Carries, Execute, RecordAttempt, Finish,
       Finished, PublishAnswer, Mishap, StoreFails, PublishFails, AnswerIsLost,
       ChannelCloses, Crash, ETypeOK
  <2> QED
    BY <1>1, <2>1
<1> QED
  BY <1>2, <1>3

LEMMA StepKeepsKnown ==
  ASSUME TypeOK, CopiesWereSent, KnownWasSent, [Next]_vars
  PROVE  KnownWasSent'
<1>1. ASSUME UNCHANGED <<journal, sent>>, status' = status \/ status' # "ACTIVE"
      PROVE  KnownWasSent'
  BY <1>1 DEF KnownWasSent
<1>2. ASSUME NEW u \in Users, API(u) PROVE KnownWasSent'
  <2>1. ASSUME NEW k \in Keys, Send(k) PROVE KnownWasSent'
    BY <2>1 DEF Send, Request, KnownWasSent
  <2>2. CASE Move(u) \/ Retry(u)
    BY <2>1, <2>2, SendsAKey DEF Move, Retry
  <2>3. CASE ~Move(u) /\ ~Retry(u)
    BY <1>1, <1>2, <2>3 DEF API, Read, Cancel, Edit, Abandon, evars, order
  <2> QED
    BY <2>2, <2>3
<1>3. ASSUME NEW k, NEW ok, ApplyAnswer(k, ok) PROVE KnownWasSent'
  BY <1>1, <1>3 DEF ApplyAnswer, evars
<1>4. CASE Watchdog
  BY <1>1, <1>4 DEF Watchdog, Scan, Expire, evars, order
<1>5. CASE Automation
  <2>1. sent' = sent /\ status' = status
    BY <1>5 DEF Automation, ovars, order
  <2>2. CASE journal' = journal
    BY <1>1, <2>1, <2>2
  <2>3. CASE journal' # journal
    <3>1. PICK h \in Handlers : Delivery(h)
      BY <1>5, <2>3 DEF Automation, Duplicate
    <3>2. \A k \in Keys : journal'[k] # "none" => k \in sent
      BY <2>1, <3>1, JournalFollowsCopies DEF TypeOK
    <3> QED
      BY <2>1, <3>2 DEF KnownWasSent
  <2> QED
    BY <2>2, <2>3
<1>6. CASE UNCHANGED vars
  BY <1>1, <1>6 DEF vars, evars, ovars, order
<1> QED
  BY <1>2, <1>3, <1>4, <1>5, <1>6 DEF Next

LEMMA StepKeepsCurrent ==
  ASSUME \A u, v \in Users : u = v, TypeOK, ReadIsCurrent, [Next]_vars
  PROVE  ReadIsCurrent'
<1>1. sendGen \in Nat /\ sent \subseteq Keys /\ \A k \in Keys : k[2] \in Nat
  BY OrdersAssumption DEF TypeOK
<1>2. CASE UNCHANGED <<order, request, sent>>
  BY <1>2 DEF ReadIsCurrent, order
<1>3. ASSUME UNCHANGED <<sendGen, request, sent>>, status = "SENDING"
      PROVE  ReadIsCurrent'
  BY <1>3 DEF ReadIsCurrent
<1>4. ASSUME NEW u \in Users, API(u) PROVE ReadIsCurrent'
  <2>1. ASSUME NEW op \in Ops, Read(u, op) PROVE ReadIsCurrent'
    <3>1. /\ UNCHANGED <<order, sent>> /\ Admits(op, status)
          /\ request'[u].op = op /\ request'[u].sgen = sendGen
      BY <2>1 DEF Read, TypeOK
    <3>2. op = "move" => status \in {"ACTIVE", "CANCELLED"}
      BY <3>1 DEF Admits, TypeOK, Statuses
    <3>3. \A v \in Users : v = u
      OBVIOUS
    <3> QED
      BY <3>1, <3>2, <3>3 DEF ReadIsCurrent, order
  <2>2. CASE ~ \E op \in Ops : Read(u, op)
    <3>1. Reply(u)
      BY <1>4, <2>2 DEF API, Move, Cancel, Retry, Edit, Abandon
    <3>2. \A v \in Users : request'[v].op = "none"
      BY <3>1 DEF Reply, Idle, TypeOK
    <3>3. \A k \in sent' : k[2] <= sendGen'
      <4>1. CASE Move(u)
        <5>1. /\ sent' = sent \union {<<request[u].pgen, request[u].sgen>>}
              /\ sendGen' = request[u].sgen
          BY <4>1 DEF Move, Send
        <5>2. request[u].sgen = sendGen
          BY <4>1 DEF Move, ReadIsCurrent
        <5> QED
          BY <1>1, <5>1, <5>2 DEF ReadIsCurrent
      <4>2. CASE Retry(u)
        <5>1. /\ sent' = sent \union {<<request[u].pgen, request[u].sgen + 1>>}
              /\ sendGen' = request[u].sgen + 1
          BY <4>2 DEF Retry, Send
        <5>2. request[u].sgen = sendGen
          BY <4>2 DEF Retry, ReadIsCurrent
        <5>3. \A k \in sent : k[2] \in Nat /\ k[2] <= sendGen
          BY <1>1 DEF ReadIsCurrent
        <5> QED
          BY <1>1, <5>1, <5>2, <5>3
      <4>3. CASE ~Move(u) /\ ~Retry(u)
        BY <1>4, <2>2, <4>3 DEF API, Cancel, Edit, Abandon, order, ReadIsCurrent
      <4> QED
        BY <4>1, <4>2, <4>3
    <3> QED
      BY <3>2, <3>3 DEF ReadIsCurrent
  <2> QED
    BY <2>1, <2>2
<1>5. ASSUME NEW k, NEW ok, ApplyAnswer(k, ok) PROVE ReadIsCurrent'
  BY <1>3, <1>5 DEF ApplyAnswer, Applies
<1>6. CASE Watchdog
  BY <1>2, <1>3, <1>6 DEF Watchdog, Scan, Expire, Applies, order
<1>7. CASE Automation \/ UNCHANGED vars
  BY <1>2, <1>7 DEF Automation, ovars, vars
<1> QED
  BY <1>4, <1>5, <1>6, <1>7 DEF Next

(* While the requests of the API do not race, a send goes out under a key  *)
(* that automation has never seen, whatever fails; the one exception is a  *)
(* move that revives a cancelled sale.                                     *)
THEOREM ResendsAreNew ==
  ASSUME \A u, v \in Users : u = v
  PROVE  Spec => OnlyRevivalsRepeat
<1> DEFINE Inv == /\ TypeOK /\ IdleIsFree /\ CopiesWereSent
                  /\ KnownWasSent /\ ReadIsCurrent
<1>1. Init => Inv
  <2> SUFFICES ASSUME Init PROVE Inv
    OBVIOUS
  <2>1. CopiesWereSent
    BY NoCopiesYet
  <2>2. KnownWasSent /\ ReadIsCurrent
    BY DEF Init, EInit, KnownWasSent, ReadIsCurrent, Idle
  <2> QED
    BY <2>1, <2>2, InitIsTyped
<1>2. Inv /\ [Next]_vars => Inv'
  BY StepIsTyped, StepKeepsCopies, StepKeepsKnown, StepKeepsCurrent
<1>3. Inv => \A u \in Users :
        Move(u) \/ Retry(u) =>
          \/ journal[sentKey'] = "none"
          \/ Move(u) /\ status = "CANCELLED"
  <2> SUFFICES ASSUME Inv, NEW u \in Users, Move(u) \/ Retry(u)
               PROVE  \/ journal[sentKey'] = "none"
                      \/ Move(u) /\ status = "CANCELLED"
    OBVIOUS
  <2>1. sentKey' \in Keys
    BY SendsAKey DEF Move, Retry, Send
  <2>2. CASE Move(u)
    BY <2>1, <2>2 DEF Move, ReadIsCurrent, KnownWasSent
  <2>3. CASE Retry(u)
    <3>1. sentKey'[2] = sendGen + 1 /\ sendGen \in Nat
      BY <2>3, OrdersAssumption DEF Retry, Send, ReadIsCurrent, TypeOK
    <3>2. sentKey' \notin sent
      BY <3>1 DEF ReadIsCurrent
    <3> QED
      BY <2>1, <3>2 DEF KnownWasSent
  <2> QED
    BY <2>2, <2>3
<1>4. Inv => [\A u \in Users :
                Move(u) \/ Retry(u) =>
                  \/ journal[sentKey'] = "none"
                  \/ Move(u) /\ status = "CANCELLED"]_vars
  BY <1>3
<1> QED
  BY <1>1, <1>2, <1>4, PTL DEF Spec, OnlyRevivalsRepeat
=============================================================================
