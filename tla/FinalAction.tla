---------------------------- MODULE FinalAction ----------------------------
(***************************************************************************)
(* The final-action saga of one sale (orders/src/orders/orders.service.ts, *)
(* final-action-result.consumer.ts, sending-watchdog.service.ts) on top of *)
(* its executor in automation (FinalActionExecutor).                       *)
(*                                                                         *)
(* A sale of a type with a final action enters SENDING when it is moved to *)
(* a terminal stage, or resent by a manager, and asks automation under the *)
(* key <<payloadGen, sendGen>>.  It leaves SENDING by automation's answer  *)
(* or by the watchdog.  The requests of the API read the sale, check what  *)
(* they read and write later, after calls to other services: moves and     *)
(* cancellations write by _id alone, resends only where the status still   *)
(* is SEND_ERROR.  The update and the request to automation are one        *)
(* transaction (Outbox).                                                   *)
(***************************************************************************)
EXTENDS FinalActionExecutor

CONSTANTS
  Users,       \* requests of the API that are in progress at a time
  MaxGen,      \* bound: generations of the payload and of the send
  MaxRequests  \* bound: requests of the API in all

Nobody == "nobody"

NoKey == <<0, 0>>

ASSUME OrdersAssumption ==
  /\ MaxGen \in Nat \ {0}
  /\ MaxRequests \in Nat
  /\ Keys = (1..MaxGen) \X (1..MaxGen)

VARIABLES
  status,      \* the sale's status
  payloadGen,  \* finalActionState.payloadGen
  sendGen,     \* finalActionState.sendGen
  sentKey,     \* finalActionState.idempotencyKey
  asked,       \* requests of the API so far
  request,     \* Users -> what a request is to do, and what it has read
  stale,       \* the key the watchdog has read of a sale it takes for stuck
  sent         \* the keys that a request went out under

order == <<status, payloadGen, sendGen, sentKey>>

ovars == <<order, asked, request, stale, sent>>

vars == <<evars, ovars>>

Statuses == {"ACTIVE", "SENDING", "SEND_ERROR", "DONE", "CANCELLED"}

Idle == [op |-> "none", pgen |-> 0, sgen |-> 0]

Init ==
  /\ EInit
  /\ status = "ACTIVE"
  /\ payloadGen = 1
  /\ sendGen = 1
  /\ sentKey = NoKey
  /\ asked = 0
  /\ request = [u \in Users |-> Idle]
  /\ stale = NoKey
  /\ sent = {}

-----------------------------------------------------------------------------
(* What each request demands of the status it reads: moveOrder refuses     *)
(* what has been sent before, cancelOrder what is being sent or done,      *)
(* retryFinalAction all but SEND_ERROR.  updateOrder takes any status, and *)
(* bumps the payload's generation in SEND_ERROR; elsewhere it changes      *)
(* nothing of what is modelled.                                            *)
Admits(op, st) ==
  CASE op = "move"   -> st \notin {"SENDING", "SEND_ERROR", "DONE"}
    [] op = "cancel" -> st \in {"ACTIVE", "SEND_ERROR"}
    [] op = "retry"  -> st = "SEND_ERROR"
    [] op = "edit"   -> st = "SEND_ERROR"

Ops == {"move", "cancel", "retry", "edit"}

(* loadVisible and the guards; the gates that refuse for other reasons are *)
(* requests that are not made.                                             *)
Read(u, op) ==
  /\ request[u] = Idle
  /\ asked < MaxRequests
  /\ Admits(op, status)
  /\ asked' = asked + 1
  /\ request' = [request EXCEPT ![u] =
       [op |-> op, pgen |-> payloadGen, sgen |-> sendGen]]
  /\ UNCHANGED <<evars, order, stale, sent>>

Reply(u) == request' = [request EXCEPT ![u] = Idle]

(* A slip: the key of the send is not stored with the sale.                *)
SendWithoutKey(k) ==
  /\ status' = "SENDING"
  /\ UNCHANGED sentKey
  /\ sent' = sent \union {k}
  /\ Request(k)

Send(k) ==
  /\ status' = "SENDING"
  /\ sentKey' = k
  /\ sent' = sent \union {k}
  /\ Request(k)

Move(u) ==
  /\ request[u].op = "move"
  /\ Send(<<request[u].pgen, request[u].sgen>>)
  /\ sendGen' = request[u].sgen
  /\ Reply(u)
  /\ UNCHANGED <<payloadGen, asked, stale>>

Cancel(u) ==
  /\ request[u].op = "cancel"
  /\ status' = "CANCELLED"
  /\ Reply(u)
  /\ UNCHANGED <<evars, payloadGen, sendGen, sentKey, asked, stale, sent>>

Retry(u) ==
  /\ request[u].op = "retry"
  /\ request[u].sgen < MaxGen
  /\ status = "SEND_ERROR"
  /\ Send(<<request[u].pgen, request[u].sgen + 1>>)
  /\ sendGen' = request[u].sgen + 1
  /\ Reply(u)
  /\ UNCHANGED <<payloadGen, asked, stale>>

(* $inc by _id alone, because the status that was read was SEND_ERROR.     *)
Edit(u) ==
  /\ request[u].op = "edit"
  /\ payloadGen < MaxGen
  /\ payloadGen' = payloadGen + 1
  /\ Reply(u)
  /\ UNCHANGED <<evars, status, sendGen, sentKey, asked, stale, sent>>

(* The request ends without a write: its process dies, a gate or a call in *)
(* between refuses, or a resend comes too late to find SEND_ERROR.         *)
Abandon(u) ==
  /\ request[u] # Idle
  /\ Reply(u)
  /\ UNCHANGED <<evars, order, asked, stale, sent>>

-----------------------------------------------------------------------------
(* A slip: an answer counts for whatever send is in flight.                *)
AppliesToAny(k) == status = "SENDING"

(* applyFinalActionResult: only the send in flight, by its exact key.      *)
Applies(k) == status = "SENDING" /\ sentKey = k

(* An answer is delivered at least once, at any time, in any order.        *)
ApplyAnswer(k, ok) ==
  /\ <<k, ok>> \in answers
  /\ Applies(k)
  /\ status' = IF ok THEN "DONE" ELSE "SEND_ERROR"
  /\ UNCHANGED <<evars, payloadGen, sendGen, sentKey, asked, request, stale,
                 sent>>

(* expireStaleSending: the scan for sales that have been SENDING for long. *)
(* How long is the watchdog's budget against automation's delays, which    *)
(* nothing bounds: it may find any send.                                   *)
Scan ==
  /\ stale = NoKey
  /\ status = "SENDING"
  /\ stale' = sentKey
  /\ UNCHANGED <<evars, order, asked, request, sent>>

(* A slip: the watchdog takes it for certain that the sale still waits.    *)
ExpireUnseen ==
  /\ stale # NoKey
  /\ status' = "SEND_ERROR"
  /\ stale' = NoKey
  /\ UNCHANGED <<evars, payloadGen, sendGen, sentKey, asked, request, sent>>

(* A slip: the expiry is filed under the empty key of legacy documents.    *)
ExpireLegacy ==
  /\ stale # NoKey
  /\ status' = IF Applies(NoKey) THEN "SEND_ERROR" ELSE status
  /\ stale' = NoKey
  /\ UNCHANGED <<evars, payloadGen, sendGen, sentKey, asked, request, sent>>

Expire ==
  /\ stale # NoKey
  /\ status' = IF Applies(stale) THEN "SEND_ERROR" ELSE status
  /\ stale' = NoKey
  /\ UNCHANGED <<evars, payloadGen, sendGen, sentKey, asked, request, sent>>

-----------------------------------------------------------------------------
API(u) == (\E op \in Ops : Read(u, op)) \/ Move(u) \/ Cancel(u) \/ Retry(u)
          \/ Edit(u) \/ Abandon(u)

Watchdog == Scan \/ Expire

Automation ==
  /\ \/ \E k \in sent : Duplicate(k)
     \/ \E h \in Handlers : Delivery(h)
  /\ UNCHANGED ovars

Next ==
  \/ \E u \in Users : API(u)
  \/ \E k \in Keys, ok \in BOOLEAN : ApplyAnswer(k, ok)
  \/ Watchdog
  \/ Automation

Spec == Init /\ [][Next]_vars

(* The watchdog's timer goes on.  Nothing is assumed of users, of the bus  *)
(* or of automation: SENDING must end when they are silent for ever.       *)
FairSpec == Spec /\ WF_vars(Watchdog)

-----------------------------------------------------------------------------
TypeOK ==
  /\ ETypeOK
  /\ status \in Statuses
  /\ payloadGen \in 1..MaxGen
  /\ sendGen \in 1..MaxGen
  /\ sentKey \in Keys \union {NoKey}
  /\ asked \in Nat
  /\ request \in [Users -> [op : Ops \union {"none"}, pgen : 0..MaxGen,
                            sgen : 0..MaxGen]]
  /\ stale \in Keys \union {NoKey}
  /\ sent \subseteq Keys
  /\ \A u \in Users : request[u].op # "none" =>
       request[u].pgen \in 1..MaxGen /\ request[u].sgen \in 1..MaxGen
  /\ status = "SENDING" => sentKey \in Keys

(* A sale is done only if its action was carried out, with success, under  *)
(* the very key of its last send: no late answer of an earlier generation, *)
(* no watchdog and no race of requests can make it so (applyFinalAction-   *)
(* Result's exact-key filter).                                             *)
DoneWasCarriedOut ==
  status = "DONE" => \E x \in worked : x[1] = sentKey

(* Once a sale is done, and no move or cancellation is under way that read *)
(* it earlier, it stays done: neither a late failure, nor the watchdog     *)
(* that took it for stuck, nor a resend or a new request moves it again.   *)
Settled ==
  /\ status = "DONE"
  /\ \A u \in Users : request[u].op \notin {"move", "cancel"}

DoneIsFinal == [][Settled => Settled']_vars

(* "SENDING always resolves" (sending-watchdog.service.ts:14): whatever is *)
(* lost, a sale does not stay in SENDING.                                  *)
SendingEnds == status = "SENDING" ~> status # "SENDING"

(* While nothing is lost on the way, a request that went out is answered,  *)
(* or waits, or is in hand: neither its duplicates nor the end of the      *)
(* ladder swallow it.                                                      *)
NoRequestIsLost ==
  (\A f \in {"store", "broker", "channel", "crash"} : Never(f)) =>
    \A k \in sent :
      \/ \E ok \in BOOLEAN : <<k, ok>> \in answers
      \/ \E n \in 0..Levels : queue[<<k, n>>] > 0
      \/ \E h \in Handlers : pc[h] # "idle" /\ key(h) = k

(* moveOrder's guard and retryFinalAction's fresh sendGen are there so     *)
(* that no send goes out under a key that automation has settled           *)
(* (orders.service.ts:1747, :2354).                                        *)
NoFalseSending ==
  [][\A u \in Users : Move(u) \/ Retry(u) =>
       journal[sentKey'] \notin {"succeeded", "failed"}]_vars

(* What is true of it: while requests do not race, a resend has a key that *)
(* automation has never seen, and so has a move, unless it revives a sale  *)
(* that was cancelled (moveOrder refuses SENDING, SEND_ERROR and DONE).    *)
OnlyRevivalsRepeat ==
  [][\A u \in Users :
       Move(u) \/ Retry(u) =>
         \/ journal[sentKey'] = "none"
         \/ Move(u) /\ status = "CANCELLED"]_vars

(* What Sale sees of the saga.                                             *)
Carried == {x[1] : x \in worked}

Plan ==
  [u \in Users |-> IF request[u].op \in {"move", "cancel"} THEN request[u].op
                                                           ELSE "none"]

Promise == INSTANCE Sale WITH lastKey <- sentKey, carried <- Carried, plan <- Plan

(* The saga keeps what Sale promises: an action is carried out only under  *)
(* a key that was sent, a sale is done only by the success of its last     *)
(* send, and no late answer, resend or watchdog takes it out of DONE, only *)
(* a move or a cancellation that read the sale earlier.                    *)
ImplementsSale == Promise!Spec
=============================================================================
