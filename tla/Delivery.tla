------------------------------ MODULE Delivery ------------------------------
(***************************************************************************)
(* What event delivery promises, whatever carries it (shared/src/outbox.ts *)
(* lines 1-8): a message exists because a business mutation was stored,    *)
(* and only such a message is ever delivered.  A delivery is for good;     *)
(* repeating one changes nothing, for the readers deduplicate.             *)
(***************************************************************************)
CONSTANT Messages

VARIABLES committed,  \* messages whose business mutation is stored
          delivered   \* messages handed over at least once

Init == committed = {} /\ delivered = {}

Commit(m) ==
  /\ m \in Messages \ committed
  /\ committed' = committed \union {m}
  /\ UNCHANGED delivered

Deliver(m) ==
  /\ m \in committed
  /\ delivered' = delivered \union {m}
  /\ UNCHANGED committed

Next == \E m \in Messages : Commit(m) \/ Deliver(m)

Spec == Init /\ [][Next]_<<committed, delivered>>
=============================================================================
