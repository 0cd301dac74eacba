------------------------- MODULE IdempotencyProofs -------------------------
(***************************************************************************)
(* Proofs about the mutation ledger, for any number of calls and polls and *)
(* any choice of faults; each conclusion names the faults it survives.     *)
(***************************************************************************)
EXTENDS Idempotency, TLAPS

(* Only Expire takes a row from under its owner, so a claim finds no owner *)
(* where it finds no row.                                                  *)
OwnerHasRow == "ttl" \notin mishaps => (Owners # {} => row # "none")

(* A result in hand or in the ledger comes from a run that applied the     *)
(* mutation; a call that releases its claim has failed.                    *)
ResultsAreReal ==
  /\ row = "done" => stored \in 1..applied
  /\ \A c \in Callers :
       /\ pc[c] = "complete" => result[c] \in 1..applied
       /\ pc[c] = "release" => outcome[c] \in {"rejected", "error"}
       /\ outcome[c] = "ok" => pc[c] = "end" /\ result[c] \in 1..applied

(* Without faults, who may still run the executor finds nothing applied.   *)
NothingBeforeTheOwner ==
  CleanSoFar =>
    /\ applied <= 1
    /\ row = "none" => applied = 0
    /\ \A c \in Callers : pc[c] \in {"execute", "release"} => applied = 0

IInv ==
  /\ TypeOK
  /\ OneOwner
  /\ OwnerHasRow
  /\ ResultsAreReal
  /\ NothingBeforeTheOwner

LEMMA InitIInv == Init => IInv
<1> SUFFICES ASSUME Init PROVE IInv
  OBVIOUS
<1>1. TypeOK
  BY LedgerAssumption DEF Init, TypeOK
<1>2. Owners = {}
  BY DEF Init, Owners
<1>3. QED
  BY <1>1, <1>2 DEF Init, IInv, OneOwner, OwnerHasRow, ResultsAreReal,
       NothingBeforeTheOwner

(* A step of one call preserves the invariant: one step per action.        *)
LEMMA CallIInv ==
  ASSUME IInv, NEW c \in Callers, Call(c)
  PROVE  IInv'
<1> USE LedgerAssumption
    DEF IInv, TypeOK, Owners, OneOwner, OwnerHasRow, ResultsAreReal,
        NothingBeforeTheOwner, CleanSoFar, ledger, Goto, Return,
        GoesWrong
<1>1. CASE Claim(c)
  BY <1>1 DEF Claim
<1>2. CASE ClaimIsTaken(c)
  BY <1>2 DEF ClaimIsTaken
<1>3. CASE ClaimFails(c)
  BY <1>3 DEF ClaimFails
<1>4. CASE ExecutorSucceeds(c)
  BY <1>4 DEF ExecutorSucceeds
<1>5. CASE ExecutorFails(c)
  <2>1. PICK why \in {"rejected", "error"} :
          /\ outcome' = [outcome EXCEPT ![c] = why]
          /\ \/ UNCHANGED <<applied, mishaps>>
             \/ GoesWrong("late") /\ applied' = applied + 1
    BY <1>5 DEF ExecutorFails
  <2>2. /\ pc[c] = "execute"
        /\ pc' = [pc EXCEPT ![c] = "release"]
        /\ UNCHANGED <<row, stored, polls, result>>
    BY <1>5 DEF ExecutorFails
  <2>3. CASE UNCHANGED <<applied, mishaps>>
    BY <2>1, <2>2, <2>3
  <2>4. CASE GoesWrong("late") /\ applied' = applied + 1
    <3>1. ~CleanSoFar'
      BY <2>4
    <3>2. NothingBeforeTheOwner'
      BY <3>1
    <3>3. ResultsAreReal'
      BY <2>1, <2>2, <2>4
    <3>4. TypeOK' /\ OneOwner' /\ OwnerHasRow'
      BY <2>1, <2>2, <2>4
    <3>5. QED
      BY <3>2, <3>3, <3>4
  <2>5. QED
    BY <2>1, <2>3, <2>4
<1>6. CASE Complete(c)
  BY <1>6 DEF Complete
<1>7. CASE CompleteFails(c)
  BY <1>7 DEF CompleteFails
<1>8. CASE Release(c)
  <2>1. CASE row' = "none" /\ stored' = 0 /\ UNCHANGED mishaps
    BY <1>8, <2>1 DEF Release
  <2>2. CASE GoesWrong("ledger") /\ UNCHANGED ledger
    BY <1>8, <2>2 DEF Release
  <2>3. QED
    BY <1>8, <2>1, <2>2 DEF Release
<1>9. CASE Replay(c)
  BY <1>9 DEF Replay
<1>10. CASE PollAgain(c)
  BY <1>10 DEF PollAgain
<1>11. CASE GiveUp(c)
  BY <1>11 DEF GiveUp
<1>12. CASE Crash(c)
  BY <1>12 DEF Crash
<1>13. QED
  BY <1>1, <1>2, <1>3, <1>4, <1>5, <1>6, <1>7, <1>8, <1>9, <1>10, <1>11,
     <1>12 DEF Call, Work

LEMMA NextIInv == IInv /\ [Next]_vars => IInv'
<1> SUFFICES ASSUME IInv, [Next]_vars PROVE IInv'
  OBVIOUS
<1>1. CASE Expire
  BY <1>1 DEF Expire, GoesWrong, IInv, TypeOK, Owners, OneOwner, OwnerHasRow,
       ResultsAreReal, NothingBeforeTheOwner, CleanSoFar
<1>2. ASSUME NEW c \in Callers, Call(c) PROVE IInv'
  BY <1>2, CallIInv
<1>3. CASE UNCHANGED vars
  BY <1>3 DEF vars, IInv, TypeOK, Owners, OneOwner, OwnerHasRow,
       ResultsAreReal, NothingBeforeTheOwner, CleanSoFar
<1>4. QED
  BY <1>1, <1>2, <1>3 DEF Next

(* In a clean run there is one result to hand out: the first.              *)
LEMMA IInvAnswers == IInv => AnswersAgree
<1> SUFFICES ASSUME IInv PROVE AnswersAgree
  OBVIOUS
<1>1. \A c \in Callers : outcome[c] = "ok" => result[c] \in 1..applied
  BY DEF IInv, ResultsAreReal
<1>2. ASSUME CleanSoFar, NEW c \in Callers, outcome[c] = "ok" PROVE result[c] = 1
  BY <1>1, <1>2 DEF IInv, TypeOK, NothingBeforeTheOwner
<1>3. QED
  BY <1>1, <1>2 DEF AnswersAgree, CleanSoFar

THEOREM LedgerInvariant == Spec => []IInv
BY InitIInv, NextIInv, PTL DEF Spec

-----------------------------------------------------------------------------
(* Every reachable state of withIdempotency is well typed: polls stay in   *)
(* their budget and a call that is over has an outcome.                    *)
THEOREM TypeCorrect == Spec => []TypeOK
<1>1. IInv => TypeOK
  BY DEF IInv
<1>2. QED
  BY <1>1, LedgerInvariant, PTL

(* Whatever fails, short of the TTL index reaping a row in use, one call   *)
(* at a time owns the key: the claim is a lock.                            *)
THEOREM OneOwnerAtATime == Spec => []OneOwner
<1>1. IInv => OneOwner
  BY DEF IInv
<1>2. QED
  BY <1>1, LedgerInvariant, PTL

(* While executors fail before they apply anything and the ledger can be   *)
(* written, calls and crashes in any number apply the mutation at most     *)
(* once.                                                                   *)
THEOREM AppliedAtMostOnce == Spec => []AtMostOnce
<1>1. IInv => AtMostOnce
  BY DEF IInv, NothingBeforeTheOwner, CleanSoFar, AtMostOnce
<1>2. QED
  BY <1>1, LedgerInvariant, PTL

(* Whatever fails, an answer "ok" is the result of a run that applied the  *)
(* mutation; in a clean run all such answers are the same.                 *)
THEOREM OkAnswersAgree == Spec => []AnswersAgree
BY IInvAnswers, LedgerInvariant, PTL
=============================================================================
