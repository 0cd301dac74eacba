-------------------------------- MODULE Sale --------------------------------
(***************************************************************************)
(* What the final-action saga promises of a sale, whatever carries the     *)
(* requests and the answers (final-action-result.consumer.ts, "closes the  *)
(* final-action saga on the orders side"; the guards of orders.service.ts).*)
(* An action is carried out only under a key the sale was sent with; the   *)
(* sale is done only from SENDING, by the success of the key it was sent   *)
(* with last; and out of DONE leads nothing but a move or a cancellation   *)
(* that was admitted before.                                               *)
(***************************************************************************)
CONSTANTS Keys, NoKey, Users

VARIABLES status,   \* the sale's status
          lastKey,  \* the key of its last send
          sent,     \* the keys it was ever sent with
          carried,  \* the keys whose action was carried out with success
          plan      \* Users -> the move or cancellation that was admitted

Init ==
  /\ status = "ACTIVE"
  /\ lastKey = NoKey
  /\ sent = {}
  /\ carried = {}
  /\ plan = [u \in Users |-> "none"]

Admit(u, what) ==
  /\ plan[u] = "none"
  /\ \/ what = "move" /\ status \in {"ACTIVE", "CANCELLED"}
     \/ what = "cancel" /\ status \in {"ACTIVE", "SEND_ERROR"}
  /\ plan' = [plan EXCEPT ![u] = what]
  /\ UNCHANGED <<status, lastKey, sent, carried>>

Drop(u) ==
  /\ plan' = [plan EXCEPT ![u] = "none"]
  /\ UNCHANGED <<status, lastKey, sent, carried>>

SendUnder(k) ==
  /\ status' = "SENDING"
  /\ lastKey' = k
  /\ sent' = sent \union {k}
  /\ UNCHANGED carried

Move(u, k) ==
  /\ plan[u] = "move"
  /\ SendUnder(k)
  /\ plan' = [plan EXCEPT ![u] = "none"]

Resend(k) ==
  /\ status = "SEND_ERROR"
  /\ SendUnder(k)
  /\ UNCHANGED plan

Cancel(u) ==
  /\ plan[u] = "cancel"
  /\ status' = "CANCELLED"
  /\ plan' = [plan EXCEPT ![u] = "none"]
  /\ UNCHANGED <<lastKey, sent, carried>>

CarryOut(k) ==
  /\ k \in sent
  /\ carried' = carried \union {k}
  /\ UNCHANGED <<status, lastKey, sent, plan>>

Succeed ==
  /\ status = "SENDING"
  /\ lastKey \in carried
  /\ status' = "DONE"
  /\ UNCHANGED <<lastKey, sent, carried, plan>>

Fail ==
  /\ status = "SENDING"
  /\ status' = "SEND_ERROR"
  /\ UNCHANGED <<lastKey, sent, carried, plan>>

Next ==
  \/ \E u \in Users : \/ \E what \in {"move", "cancel"} : Admit(u, what)
                      \/ Drop(u) \/ Cancel(u)
                      \/ \E k \in Keys : Move(u, k)
  \/ \E k \in Keys : Resend(k) \/ CarryOut(k)
  \/ Succeed \/ Fail

Spec == Init /\ [][Next]_<<status, lastKey, sent, carried, plan>>
=============================================================================
