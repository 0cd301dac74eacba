--------------------------- MODULE DealWonProofs ---------------------------
(***************************************************************************)
(* Proofs about the auto-sale of a won deal, for any number of deliveries  *)
(* and copies of the event.  They reuse the ledger's invariant: a step of  *)
(* the consumer is a step of one ledger call, or ends a delivery before it *)
(* has touched the ledger.                                                 *)
(***************************************************************************)
EXTENDS DealWon, IdempotencyProofs

(* Faults that leave a claim without an owner, or an owner without a row.  *)
NoOrphans == mishaps \intersect {"crash", "ledger", "ttl"} = {}

(* A pending row has its owner; and what the consumer knows of the win is  *)
(* somewhere: in a copy still to come, in the delivery that owns the claim *)
(* (nobody else can be told busy), in a sale, or in a refusal.             *)
WinIsSomewhere ==
  NoOrphans =>
    /\ row = "pending" => Owners # {}
    /\ row = "done" => applied > 0
    /\ waiting > 0 \/ Owners # {} \/ applied > 0 \/ declined
    /\ \A c \in Callers :
         pc[c] = "release" /\ outcome[c] = "rejected" => declined

DInv ==
  /\ IInv
  /\ waiting \in Nat
  /\ declined \in BOOLEAN
  /\ WinIsSomewhere

LEMMA InitDInv == DInit => DInv
<1> SUFFICES ASSUME DInit PROVE DInv
  OBVIOUS
<1>1. IInv
  BY InitIInv DEF DInit
<1>2. \A c \in Callers : pc[c] = "claim"
  BY DEF DInit, Init
<1>3. WinIsSomewhere
  BY <1>2, CopiesAssumption DEF DInit, Init, WinIsSomewhere
<1>4. QED
  BY <1>1, <1>3, CopiesAssumption DEF DInit, DInv

(* A delivery that ends before the ledger leaves the ledger's invariant.   *)
LEMMA EarlyReturnIInv ==
  ASSUME IInv, NEW c \in Callers, NEW o \in {"rejected", "error"},
         pc[c] = "claim", Return(c, o),
         UNCHANGED <<ledger, applied, polls, result, mishaps>>
  PROVE  IInv' /\ Owners' = Owners
BY DEF IInv, TypeOK, Owners, OneOwner, OwnerHasRow, ResultsAreReal,
     NothingBeforeTheOwner, CleanSoFar, ledger, Goto, Return

LEMMA HandleWin ==
  ASSUME DInv, NEW c \in Callers, Handle(c)
  PROVE  waiting' \in Nat /\ WinIsSomewhere'
<1>1. /\ Call(c)
      /\ pc[c] = "claim" => waiting > 0
      /\ waiting' = waiting - Delivered(c) + Returned(c)
  BY DEF Handle
<1>2. (declined => declined') /\ (outcome'[c] = "rejected" => declined')
  BY DEF Handle
<1> USE <1>1, <1>2
    DEF DInv, IInv, TypeOK, Owners, OneOwner, OwnerHasRow, ResultsAreReal,
        NothingBeforeTheOwner, CleanSoFar, ledger, Goto, Return, Delivered,
        Returned, WinIsSomewhere, NoOrphans, GoesWrong
<1>3. CASE Claim(c)
  BY <1>3 DEF Claim
<1>4. CASE ClaimIsTaken(c)
  BY <1>4 DEF ClaimIsTaken
<1>5. CASE ClaimFails(c)
  BY <1>5 DEF ClaimFails
<1>6. CASE ExecutorSucceeds(c)
  BY <1>6 DEF ExecutorSucceeds
<1>7. CASE ExecutorFails(c)
  BY <1>7 DEF ExecutorFails
<1>8. CASE Complete(c)
  BY <1>8 DEF Complete
<1>9. CASE CompleteFails(c)
  BY <1>9 DEF CompleteFails
<1>10. CASE Release(c)
  BY <1>10 DEF Release
<1>11. CASE Replay(c)
  BY <1>11 DEF Replay
<1>12. CASE PollAgain(c)
  BY <1>12 DEF PollAgain
<1>13. CASE GiveUp(c)
  BY <1>13 DEF GiveUp
<1>14. CASE Crash(c)
  BY <1>14 DEF Crash
<1>15. QED
  BY <1>3, <1>4, <1>5, <1>6, <1>7, <1>8,
     <1>9, <1>10, <1>11, <1>12, <1>13, <1>14 DEF Call, Work

LEMMA NextDInv == DInv /\ [DNext]_dvars => DInv'
<1> SUFFICES ASSUME DInv, [DNext]_dvars PROVE DInv'
  OBVIOUS
<1>1. ASSUME NEW c \in Callers, Handle(c) PROVE DInv'
  <2>1. IInv'
    BY <1>1, CallIInv DEF DInv, Handle
  <2>2. declined' \in BOOLEAN
    BY <1>1 DEF DInv, Handle
  <2>3. QED
    BY <1>1, <2>1, <2>2, HandleWin DEF DInv
<1>2. ASSUME NEW c \in Callers, Skip(c) PROVE DInv'
  <2>1. IInv' /\ Owners' = Owners
    BY <1>2, EarlyReturnIInv DEF DInv, Skip
  <2>2. QED
    BY <1>2, <2>1 DEF DInv, Skip, WinIsSomewhere, NoOrphans, ledger
<1>3. ASSUME NEW c \in Callers, ReadFails(c) PROVE DInv'
  <2>1. IInv' /\ Owners' = Owners
    BY <1>3, EarlyReturnIInv DEF DInv, ReadFails
  <2>2. \A d \in Callers : pc'[d] = "release" =>
           pc[d] = "release" /\ outcome'[d] = outcome[d]
    BY <1>3 DEF ReadFails, Return, Goto, DInv, IInv, TypeOK
  <2>3. QED
    BY <1>3, <2>1, <2>2 DEF DInv, ReadFails, WinIsSomewhere, NoOrphans, ledger
<1>4. CASE UNCHANGED dvars
  BY <1>4 DEF dvars, vars, DInv, IInv, TypeOK, Owners, OneOwner, OwnerHasRow,
       ResultsAreReal, NothingBeforeTheOwner, CleanSoFar, WinIsSomewhere,
       NoOrphans
<1>5. QED
  BY <1>1, <1>2, <1>3, <1>4 DEF DNext

THEOREM DealWonInvariant == DSpec => []DInv
BY InitDInv, NextDInv, PTL DEF DSpec

-----------------------------------------------------------------------------
(* The consumer's types and the ledger's.                                  *)
THEOREM DTypeCorrect == DSpec => []DTypeOK
<1>1. DInv => DTypeOK
  BY DEF DInv, IInv, DTypeOK
<1>2. QED
  BY <1>1, DealWonInvariant, PTL

(* However often the event of a win is delivered, and whatever crashes,    *)
(* one sale is created, while createOrder fails clean and the ledger can   *)
(* be written.                                                             *)
THEOREM OneSale == DSpec => []AtMostOnce
<1>1. DInv => AtMostOnce
  BY DEF DInv, IInv, NothingBeforeTheOwner, AtMostOnce
<1>2. QED
  BY <1>1, DealWonInvariant, PTL

(* While no process dies and the ledger can be written, no win ends        *)
(* without a sale or a refusal by the business: a delivery is told busy    *)
(* only while another one owns the claim.                                  *)
THEOREM WinIsNotForgotten == DSpec => []SaleIsNotLost
<1>1. DInv => SaleIsNotLost
  BY DEF DInv, IInv, TypeOK, WinIsSomewhere, NoOrphans, SaleIsNotLost,
       AtRest, Owners
<1>2. QED
  BY <1>1, DealWonInvariant, PTL
=============================================================================
