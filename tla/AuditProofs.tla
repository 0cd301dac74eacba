----------------------------- MODULE AuditProofs -----------------------------
(***************************************************************************)
(* Proofs about the audit chain, for any number of events, calls and       *)
(* handlers, any choice of faults and any bound on them.                   *)
(***************************************************************************)
EXTENDS AuditChain, SequenceTheorems, TLAPS

IsInitial(s, t) == Len(s) <= Len(t) /\ \A i \in 1..Len(s) : s[i] = t[i]

(* Has won the compare-and-set, and has not stored its record.             *)
Midway(h) == pc[h] \in {"insert", "rollback"}

(* What is stored and what is about to be lies on one line of history, the *)
(* head's, each record at a place of its own.                              *)
OneHistory ==
  /\ \A r \in records : IsInitial(r, head)
  /\ \A h \in Handlers :
       Midway(h) =>
         /\ IsInitial(linkRecord(h), head)
         /\ Len(linkRecord(h)) \notin Seqs
  /\ \A g, h \in Handlers :
       Midway(g) /\ Midway(h) /\ Len(linkRecord(g)) = Len(linkRecord(h))
         => g = h

Linked == Never("insert") => OneHistory

(* Without failures every place up to the head is taken, or in hand.       *)
NoGaps ==
  (\A f \in {"call", "insert", "crash"} : Never(f)) =>
    /\ \A h \in Handlers : pc[h] # "rollback"
    /\ \A i \in 1..Len(head) :
         \/ i \in Seqs
         \/ \E h \in Handlers : pc[h] = "insert" /\ Len(linkRecord(h)) = i

(* A claim is done, or about to be, only when the record is in.            *)
DoneIsRecorded ==
  /\ \A e \in Events : claim[e] = "done" => Recorded(e)
  /\ \A h \in Handlers : pc[h] = "confirm" => Recorded(job[h])

(* Nothing of an event that was never claimed is in the chain.             *)
UnclaimedIsUntouched ==
  /\ \A e \in Events : claim[e] = "none" => ~Recorded(e)
  /\ \A h \in Handlers :
       job[h] \in Events /\ pc[h] # "claim" => claim[job[h]] # "none"

(* Is on its way to store the record of an event.                          *)
Appending(h) ==
  pc[h] \in {"read", "cas", "insert"} /\ job[h] \in Events

(* A single copy of an event is in the queue, in one handler's hand, or    *)
(* gone; and who is going to append it finds it not appended.              *)
OneCopy ==
  Never("duplicate") =>
    /\ \A i \in Items : due[i] <= 1
    /\ \A h \in Handlers : job[h] \in Items => due[job[h]] = 0
    /\ \A g, h \in Handlers : job[g] \in Items /\ job[g] = job[h] => g = h
    /\ \A h \in Handlers : Appending(h) => ~Recorded(job[h])
    /\ NoDuplicateRecord

IdleIsFree == \A h \in Handlers : pc[h] = "idle" <=> job[h] = NoItem

IInv ==
  /\ TypeOK
  /\ IdleIsFree
  /\ Linked
  /\ NoGaps
  /\ DoneIsRecorded
  /\ NoEventIsLost
  /\ UnclaimedIsUntouched
  /\ OneCopy

-----------------------------------------------------------------------------
(* What a record that is linked to the head a handler has read looks like. *)
LEMMA LinkedRecord ==
  ASSUME TypeOK, NEW h \in Handlers, job[h] \in Items
  PROVE  /\ linkRecord(h) \in Seq(Items) \ {Genesis}
         /\ Len(prev[h]) \in Nat
         /\ Len(linkRecord(h)) = Len(prev[h]) + 1
         /\ \A i \in 1..Len(prev[h]) : linkRecord(h)[i] = prev[h][i]
         /\ linkRecord(h)[Len(linkRecord(h))] = job[h]
<1>1. prev[h] \in Seq(Items)
  BY DEF TypeOK
<1>2. QED
  BY <1>1, AppendProperties, LenProperties DEF linkRecord, Genesis

(* Places in the chain are positive numbers.                               *)
LEMMA Places ==
  ASSUME TypeOK
  PROVE  /\ Len(head) \in Nat
         /\ \A r \in records : Len(r) \in Nat \ {0}
<1>1. head \in Seq(Items) /\ \A r \in records : r \in Seq(Items) /\ r # <<>>
  BY DEF TypeOK, Genesis
<1>2. QED
  BY <1>1, EmptySeq, LenProperties

LEMMA NothingYet == Init => IInv
<1> SUFFICES ASSUME Init PROVE IInv
  OBVIOUS
<1>1. TypeOK
  BY ChainAssumption, EmptySeq DEF Init, TypeOK, Genesis
<1>2. Len(head) = 0 /\ records = {}
  BY EmptySeq DEF Init, Genesis
<1>3. Linked /\ NoGaps
  BY <1>2 DEF Init, Linked, OneHistory, NoGaps, Midway
<1>4. DoneIsRecorded /\ NoEventIsLost /\ UnclaimedIsUntouched
  BY <1>2, ChainAssumption
     DEF Init, DoneIsRecorded, NoEventIsLost, UnclaimedIsUntouched, Items,
         Recorded
<1>5. OneCopy /\ IdleIsFree
  BY <1>2, ChainAssumption
     DEF Init, OneCopy, NoDuplicateRecord, Appending, Items, IdleIsFree
<1>6. QED
  BY <1>1, <1>3, <1>4, <1>5 DEF IInv

(* Faults are never forgotten.                                             *)
LEMMA FaultsStay ==
  ASSUME TypeOK, [Next]_vars, NEW f \in {"call", "insert", "crash", "duplicate"},
         Never(f)'
  PROVE  Never(f)
<1>1. mishaps' = mishaps \/ \E g \in Faults : GoesWrong(g)
  BY DEF Next, vars, Receive, Work, Mishap, Claim, SkipDone, FindPending,
     LookUp, ReadHead, AdvanceHead, InsertRecord, InsertCollides, RollBack,
     Confirm, CallRejects, InsertRejects, InsertAnswerLost, Crash, Duplicate,
     GoesWrong
<1>2. QED
  BY <1>1, ChainAssumption DEF Never, GoesWrong, TypeOK

-----------------------------------------------------------------------------
(* Each action, with the reader's choice of handler, preserves the types.  *)
LEMMA StepTypes ==
  ASSUME TypeOK, IdleIsFree, [Next]_vars
  PROVE  TypeOK' /\ IdleIsFree'
<1> USE ChainAssumption DEF Items
<1>0. Genesis \in Seq(Items)
  BY EmptySeq DEF Genesis
<1>1. ASSUME NEW h \in Handlers, NEW i \in Items, Receive(h, i)
      PROVE  TypeOK' /\ IdleIsFree'
  BY <1>1 DEF Receive, TypeOK, IdleIsFree, Goto
<1>2. ASSUME NEW h \in Handlers, Work(h) PROVE TypeOK' /\ IdleIsFree'
  <2> USE DEF TypeOK, IdleIsFree, Goto, Forget, GiveBack
  <2>1. CASE Claim(h)
    <3>1. job[h] \in Events /\ UNCHANGED <<due, head, records, job, prev, mishaps>>
      BY <2>1 DEF Claim
    <3>2. CASE claim[job[h]] = "none"
      <4>1. /\ pc' = [pc EXCEPT ![h] = "read"]
            /\ claim' = [claim EXCEPT ![job[h]] = "pending"]
        BY <2>1, <3>2 DEF Claim
      <4>2. claim' \in [Events -> {"none", "pending", "done"}]
        BY <4>1
      <4>3. QED
        BY <2>1, <3>1, <4>1, <4>2 DEF Claim
    <3>3. CASE claim[job[h]] # "none"
      <4>1. pc' = [pc EXCEPT ![h] = "taken"] /\ UNCHANGED claim
        BY <2>1, <3>3 DEF Claim
      <4>2. QED
        BY <2>1, <3>1, <4>1 DEF Claim
    <3>4. QED
      BY <3>2, <3>3
  <2>2. CASE SkipDone(h)
    BY <1>0, <2>2 DEF SkipDone
  <2>3. CASE FindPending(h)
    BY <2>3 DEF FindPending
  <2>4. CASE LookUp(h)
    BY <2>4 DEF LookUp
  <2>5. CASE ReadHead(h)
    BY <2>5 DEF ReadHead
  <2>6. CASE AdvanceHead(h)
    <3>1. linkRecord(h) \in Seq(Items)
      BY <2>6, LinkedRecord DEF AdvanceHead
    <3>2. QED
      BY <2>6, <3>1 DEF AdvanceHead
  <2>7. CASE InsertRecord(h)
    <3>1. linkRecord(h) \in Seq(Items) \ {Genesis}
      BY <2>7, LinkedRecord DEF InsertRecord
    <3>2. CASE job[h] \in Events
      BY <2>7, <3>1, <3>2 DEF InsertRecord
    <3>3. CASE job[h] \notin Events
      <4>1. /\ pc' = [pc EXCEPT ![h] = "idle"]
            /\ job' = [job EXCEPT ![h] = NoItem]
            /\ prev' = [prev EXCEPT ![h] = Genesis]
            /\ UNCHANGED <<due, claim, head, mishaps>>
        BY <2>7, <3>3 DEF InsertRecord
      <4>2. records' \subseteq Seq(Items) \ {Genesis}
        BY <2>7, <3>1 DEF InsertRecord
      <4>3. QED
        BY <1>0, <4>1, <4>2
    <3>4. QED
      BY <3>2, <3>3
  <2>8. CASE InsertCollides(h)
    BY <2>8 DEF InsertCollides
  <2>9. CASE RollBack(h)
    BY <1>0, <2>9 DEF RollBack
  <2>10. CASE Confirm(h)
    BY <1>0, <2>10 DEF Confirm
  <2>11. QED
    BY <1>2, <2>1, <2>2, <2>3, <2>4, <2>5, <2>6, <2>7, <2>8, <2>9, <2>10
       DEF Work
<1>3. ASSUME NEW h \in Handlers, Mishap(h) PROVE TypeOK' /\ IdleIsFree'
  <2> USE DEF TypeOK, IdleIsFree, Goto, Forget, GiveBack, GoesWrong
  <2>1. CASE CallRejects(h)
    <3>1. linkRecord(h) \in Seq(Items)
      BY <2>1, LinkedRecord DEF CallRejects
    <3>2. /\ claim' \in [Events -> {"none", "pending", "done"}]
          /\ head' \in Seq(Items)
      BY <2>1, <3>1 DEF CallRejects, Applied
    <3>3. QED
      BY <1>0, <2>1, <3>2 DEF CallRejects
  <2>2. CASE InsertRejects(h)
    BY <2>2 DEF InsertRejects
  <2>3. CASE InsertAnswerLost(h)
    <3>1. linkRecord(h) \in Seq(Items) \ {Genesis}
      BY <2>3, LinkedRecord DEF InsertAnswerLost
    <3>2. QED
      BY <2>3, <3>1 DEF InsertAnswerLost
  <2>4. CASE Crash(h)
    BY <1>0, <2>4 DEF Crash
  <2>5. QED
    BY <1>3, <2>1, <2>2, <2>3, <2>4 DEF Mishap
<1>4. ASSUME NEW e \in Events, Duplicate(e) PROVE TypeOK' /\ IdleIsFree'
  BY <1>4 DEF Duplicate, GoesWrong, TypeOK, IdleIsFree
<1>5. CASE UNCHANGED vars
  BY <1>5 DEF vars, TypeOK, IdleIsFree
<1>6. QED
  BY <1>1, <1>2, <1>3, <1>4, <1>5 DEF Next

-----------------------------------------------------------------------------
(* The three things a step can do to the line of history.  Who is not the  *)
(* handler h keeps what it is about to store.                              *)
Elsewhere(h) ==
  \A g \in Handlers \ {h} :
    /\ Midway(g)' <=> Midway(g)
    /\ linkRecord(g)' = linkRecord(g)

(* The head stays, and so do the records; h may let go of its own.         *)
LEMMA HistoryStays ==
  ASSUME OneHistory, NEW h \in Handlers, Elsewhere(h),
         UNCHANGED <<head, records>>,
         Midway(h)' => Midway(h) /\ linkRecord(h)' = linkRecord(h)
  PROVE  OneHistory'
<1>1. \A g \in Handlers : Midway(g)' =>
         Midway(g) /\ linkRecord(g)' = linkRecord(g)
  BY DEF Elsewhere
<1>2. QED
  BY <1>1 DEF OneHistory, IsInitial, Seqs

(* h advances the head, and may go on to store its record or not.          *)
LEMMA HistoryGrows ==
  ASSUME TypeOK, OneHistory, NEW h \in Handlers, Elsewhere(h),
         pc[h] = "cas", head = prev[h], head' = linkRecord(h),
         UNCHANGED records,
         Midway(h)' => linkRecord(h)' = linkRecord(h)
  PROVE  OneHistory'
<1>0. job[h] \in Items
  BY DEF TypeOK
<1>1. /\ Len(head) \in Nat
      /\ Len(head') = Len(head) + 1
      /\ \A i \in 1..Len(head) : head'[i] = head[i]
  BY <1>0, LinkedRecord
<1>2. \A s : Len(s) \in Nat /\ IsInitial(s, head) => IsInitial(s, head')
  BY <1>1 DEF IsInitial
<1>3. \A r \in records : Len(r) \in Nat /\ Len(r) # Len(head')
  BY <1>1, Places DEF OneHistory, IsInitial
<1>4. \A g \in Handlers : Midway(g) => job[g] \in Items
  BY DEF Midway, TypeOK
<1>5. \A g \in Handlers : Midway(g) =>
         Len(linkRecord(g)) \in Nat /\ Len(linkRecord(g)) # Len(head')
  BY <1>1, <1>4, LinkedRecord DEF OneHistory, IsInitial
<1>6. \A g \in Handlers \ {h} : Midway(g)' =>
         Midway(g) /\ linkRecord(g)' = linkRecord(g)
  BY DEF Elsewhere
<1>7. IsInitial(head', head')
  BY <1>1 DEF IsInitial
<1>8. (\A r \in records : IsInitial(r, head))'
  BY <1>2, <1>3 DEF OneHistory
<1>9. ASSUME NEW g \in Handlers, Midway(g)'
      PROVE  /\ IsInitial(linkRecord(g), head)'
             /\ (Len(linkRecord(g)) \notin Seqs)'
  <2>1. CASE g = h
    BY <1>3, <1>7, <1>9, <2>1 DEF Seqs
  <2>2. CASE g # h
    BY <1>2, <1>5, <1>6, <1>9, <2>2 DEF OneHistory, Seqs
  <2>3. QED
    BY <2>1, <2>2
<1>10. ASSUME NEW f \in Handlers, NEW g \in Handlers,
              Midway(f)', Midway(g)',
              (Len(linkRecord(f)) = Len(linkRecord(g)))'
       PROVE  f = g
  BY <1>5, <1>6, <1>10 DEF OneHistory
<1>11. QED
  BY <1>8, <1>9, <1>10 DEF OneHistory

(* h takes the head back from its own record, and gives up.                *)
LEMMA HistoryShrinks ==
  ASSUME TypeOK, OneHistory, NEW h \in Handlers, Elsewhere(h),
         pc[h] = "rollback", head = linkRecord(h), head' = prev[h],
         UNCHANGED records, ~Midway(h)'
  PROVE  OneHistory'
<1>0. job[h] \in Items /\ Midway(h)
  BY DEF TypeOK, Midway
<1>1. /\ Len(head') \in Nat
      /\ Len(head) = Len(head') + 1
      /\ \A i \in 1..Len(head') : head'[i] = head[i]
  BY <1>0, LinkedRecord
<1>2. \A s : Len(s) \in Nat /\ Len(s) # Len(head) /\ IsInitial(s, head)
             => IsInitial(s, head')
  BY <1>1 DEF IsInitial
<1>3. \A r \in records : Len(r) \in Nat /\ Len(r) # Len(head)
  BY <1>0, Places DEF OneHistory, Seqs
<1>4. \A g \in Handlers : Midway(g) => job[g] \in Items
  BY DEF Midway, TypeOK
<1>5. \A g \in Handlers \ {h} : Midway(g) =>
         Len(linkRecord(g)) \in Nat /\ Len(linkRecord(g)) # Len(head)
  BY <1>0, <1>1, <1>4, LinkedRecord DEF OneHistory
<1>6. \A g \in Handlers : Midway(g)' =>
         g # h /\ Midway(g) /\ linkRecord(g)' = linkRecord(g)
  BY DEF Elsewhere
<1>7. (\A r \in records : IsInitial(r, head))'
  BY <1>2, <1>3 DEF OneHistory
<1>8. ASSUME NEW g \in Handlers, Midway(g)'
      PROVE  /\ IsInitial(linkRecord(g), head)'
             /\ (Len(linkRecord(g)) \notin Seqs)'
  BY <1>2, <1>5, <1>6, <1>8 DEF OneHistory, Seqs
<1>9. QED
  BY <1>6, <1>7, <1>8 DEF OneHistory

(* h stores its record.                                                    *)
LEMMA HistoryIsStored ==
  ASSUME TypeOK, OneHistory, NEW h \in Handlers, Elsewhere(h),
         pc[h] = "insert", records' = records \union {linkRecord(h)},
         UNCHANGED head, ~Midway(h)'
  PROVE  OneHistory'
<1>0. Midway(h)
  BY DEF Midway
<1>1. \A g \in Handlers : Midway(g)' =>
         g # h /\ Midway(g) /\ linkRecord(g)' = linkRecord(g)
  BY DEF Elsewhere
<1>2. (\A r \in records : IsInitial(r, head))'
  BY <1>0 DEF OneHistory, IsInitial
<1>3. ASSUME NEW g \in Handlers, Midway(g)'
      PROVE  /\ IsInitial(linkRecord(g), head)'
             /\ (Len(linkRecord(g)) \notin Seqs)'
  <2>1. IsInitial(linkRecord(g), head)'
    BY <1>1, <1>3 DEF OneHistory, IsInitial
  <2>2. Len(linkRecord(g)) # Len(linkRecord(h))
    BY <1>0, <1>1, <1>3 DEF OneHistory
  <2>3. QED
    BY <1>1, <1>3, <2>1, <2>2 DEF OneHistory, Seqs
<1>4. QED
  BY <1>1, <1>2, <1>3 DEF OneHistory
-----------------------------------------------------------------------------
LEMMA OthersGoOn ==
  ASSUME TypeOK, NEW h \in Handlers, Work(h) \/ Mishap(h)
  PROVE  Elsewhere(h)
<1>1. \A g \in Handlers \ {h} :
        pc'[g] = pc[g] /\ job'[g] = job[g] /\ prev'[g] = prev[g]
  <2> USE DEF TypeOK, Goto, Forget, GiveBack
  <2>1. CASE Work(h)
    BY <2>1 DEF Work, Claim, SkipDone, FindPending, LookUp, ReadHead,
       AdvanceHead, InsertRecord, InsertCollides, RollBack, Confirm
  <2>2. CASE Mishap(h)
    BY <2>2 DEF Mishap, CallRejects, InsertRejects, InsertAnswerLost, Crash
  <2>3. QED
    BY <2>1, <2>2
<1>2. QED
  BY <1>1 DEF Elsewhere, Midway, linkRecord

(* One step of the history per action: all but a few leave it alone.       *)
LEMMA WorkKeepsHistory ==
  ASSUME TypeOK, OneHistory, NEW h \in Handlers, Work(h)
  PROVE  OneHistory'
<1> USE DEF TypeOK, Goto, Forget, GiveBack, Midway
<1>0. Elsewhere(h)
  BY OthersGoOn
<1>1. CASE Claim(h) \/ SkipDone(h) \/ FindPending(h) \/ LookUp(h)
           \/ ReadHead(h) \/ Confirm(h)
  <2>1. UNCHANGED <<head, records>> /\ ~Midway(h)'
    BY <1>1 DEF Claim, SkipDone, FindPending, LookUp, ReadHead, Confirm
  <2>2. QED
    BY <1>0, <2>1, HistoryStays
<1>2. CASE AdvanceHead(h)
  <2>1. CASE head = prev[h]
    <3>1. pc[h] = "cas" /\ head' = linkRecord(h) /\ UNCHANGED records
      BY <1>2, <2>1 DEF AdvanceHead
    <3>2. linkRecord(h)' = linkRecord(h)
      BY <1>2 DEF AdvanceHead, linkRecord
    <3>3. QED
      BY <1>0, <2>1, <3>1, <3>2, HistoryGrows
  <2>2. CASE head # prev[h]
    <3>1. UNCHANGED <<head, records>> /\ ~Midway(h)'
      BY <1>2, <2>2 DEF AdvanceHead
    <3>2. QED
      BY <1>0, <3>1, HistoryStays
  <2>3. QED
    BY <2>1, <2>2
<1>3. CASE InsertRecord(h)
  <2>1. /\ pc[h] = "insert" /\ records' = records \union {linkRecord(h)}
        /\ UNCHANGED head /\ ~Midway(h)'
    BY <1>3 DEF InsertRecord
  <2>2. QED
    BY <1>0, <2>1, HistoryIsStored
<1>4. CASE InsertCollides(h)
  <2>1. /\ UNCHANGED <<head, records>> /\ Midway(h)
        /\ linkRecord(h)' = linkRecord(h)
    BY <1>4 DEF InsertCollides, linkRecord
  <2>2. QED
    BY <1>0, <2>1, HistoryStays
<1>5. CASE RollBack(h)
  <2>1. pc[h] = "rollback" /\ UNCHANGED records /\ ~Midway(h)'
    BY <1>5 DEF RollBack
  <2>2. CASE head = linkRecord(h)
    <3>1. head' = prev[h]
      BY <1>5, <2>2 DEF RollBack
    <3>2. QED
      BY <1>0, <2>1, <2>2, <3>1, HistoryShrinks
  <2>3. CASE head # linkRecord(h)
    <3>1. UNCHANGED head
      BY <1>5, <2>3 DEF RollBack
    <3>2. QED
      BY <1>0, <2>1, <3>1, HistoryStays
  <2>4. QED
    BY <2>2, <2>3
<1>6. QED
  BY <1>1, <1>2, <1>3, <1>4, <1>5 DEF Work

LEMMA MishapKeepsHistory ==
  ASSUME TypeOK, OneHistory, NEW h \in Handlers, Mishap(h),
         ~InsertAnswerLost(h)
  PROVE  OneHistory'
<1> USE DEF TypeOK, Goto, Forget, GiveBack, Midway
<1>0. Elsewhere(h)
  BY OthersGoOn
<1>1. CASE CallRejects(h)
  <2>1. UNCHANGED records /\ ~Midway(h)'
    BY <1>1 DEF CallRejects
  <2>2. CASE UNCHANGED head
    BY <1>0, <2>1, <2>2, HistoryStays
  <2>3. CASE pc[h] = "cas" /\ head = prev[h] /\ head' = linkRecord(h)
    BY <1>0, <2>1, <2>3, HistoryGrows
  <2>4. CASE pc[h] = "rollback" /\ head = linkRecord(h) /\ head' = prev[h]
    BY <1>0, <2>1, <2>4, HistoryShrinks
  <2>5. QED
    BY <1>1, <2>2, <2>3, <2>4 DEF CallRejects, Applied
<1>2. CASE InsertRejects(h)
  <2>1. /\ UNCHANGED <<head, records>> /\ Midway(h)
        /\ linkRecord(h)' = linkRecord(h)
    BY <1>2 DEF InsertRejects, linkRecord
  <2>2. QED
    BY <1>0, <2>1, HistoryStays
<1>3. CASE Crash(h)
  <2>1. UNCHANGED <<head, records>> /\ ~Midway(h)'
    BY <1>3 DEF Crash
  <2>2. QED
    BY <1>0, <2>1, HistoryStays
<1>4. QED
  BY <1>1, <1>2, <1>3 DEF Mishap

LEMMA StepLinked ==
  ASSUME TypeOK, Linked, [Next]_vars
  PROVE  Linked'
<1> SUFFICES ASSUME Never("insert")' PROVE OneHistory'
  BY DEF Linked
<1>0. OneHistory
  BY FaultsStay DEF Linked
<1>1. ASSUME NEW h \in Handlers, NEW i \in Items, Receive(h, i)
      PROVE  OneHistory'
  <2>1. \A g \in Handlers \ {h} : pc'[g] = pc[g] /\ job'[g] = job[g]
    BY <1>1 DEF Receive, Goto, TypeOK
  <2>2. Elsewhere(h)
    BY <1>1, <2>1 DEF Receive, Elsewhere, Midway, linkRecord
  <2>3. UNCHANGED <<head, records>> /\ ~Midway(h)'
    BY <1>1 DEF Receive, Goto, TypeOK, Midway
  <2>4. QED
    BY <1>0, <2>2, <2>3, HistoryStays
<1>2. ASSUME NEW h \in Handlers, Work(h) PROVE OneHistory'
  BY <1>0, <1>2, WorkKeepsHistory
<1>3. ASSUME NEW h \in Handlers, Mishap(h) PROVE OneHistory'
  <2>1. ~InsertAnswerLost(h)
    BY DEF InsertAnswerLost, GoesWrong, Never, TypeOK
  <2>2. QED
    BY <1>0, <1>3, <2>1, MishapKeepsHistory
<1>4. ASSUME NEW e \in Events, Duplicate(e) PROVE OneHistory'
  BY <1>0, <1>4 DEF Duplicate, OneHistory, Midway, linkRecord, IsInitial, Seqs
<1>5. CASE UNCHANGED vars
  BY <1>0, <1>5 DEF vars, OneHistory, Midway, linkRecord, IsInitial, Seqs
<1>6. QED
  BY <1>1, <1>2, <1>3, <1>4, <1>5 DEF Next
-----------------------------------------------------------------------------
Smooth == \A f \in {"call", "insert", "crash"} : Never(f)

Held(i) == \E h \in Handlers : pc[h] = "insert" /\ Len(linkRecord(h)) = i

Filled(i) == i \in Seqs \/ Held(i)

(* A place that is held by another handler stays so.                       *)
LEMMA OthersHold ==
  ASSUME TypeOK, NEW h \in Handlers, Work(h), NEW g \in Handlers \ {h},
         pc[g] = "insert"
  PROVE  pc'[g] = "insert" /\ linkRecord(g)' = linkRecord(g)
<1>1. pc'[g] = "insert"
  BY DEF TypeOK, Goto, Forget, GiveBack, Work, Claim, SkipDone, FindPending,
     LookUp, ReadHead, AdvanceHead, InsertRecord, InsertCollides, RollBack,
     Confirm
<1>2. linkRecord(g)' = linkRecord(g)
  BY OthersGoOn DEF Elsewhere
<1>3. QED
  BY <1>1, <1>2

LEMMA WorkLeavesNoGap ==
  ASSUME TypeOK, OneHistory, NoGaps, Smooth, NEW h \in Handlers, Work(h)
  PROVE  /\ pc'[h] # "rollback"
         /\ \A i \in 1..Len(head') : Filled(i)'
<1>0. \A i \in 1..Len(head) : Filled(i)
  BY DEF NoGaps, Smooth, Filled, Held
<1>1. pc[h] # "rollback"
  BY DEF NoGaps, Smooth
<1>2. ASSUME NEW i, Held(i)
      PROVE  Held(i)' \/ (pc[h] = "insert" /\ Len(linkRecord(h)) = i)
  <2>1. PICK g \in Handlers : pc[g] = "insert" /\ Len(linkRecord(g)) = i
    BY <1>2 DEF Held
  <2>2. CASE g = h
    BY <2>1, <2>2
  <2>3. CASE g # h
    <3>1. pc'[g] = "insert" /\ linkRecord(g)' = linkRecord(g)
      BY <2>1, <2>3, OthersHold
    <3>2. QED
      BY <2>1, <3>1 DEF Held
  <2>4. QED
    BY <2>2, <2>3
<1>3. records \subseteq records'
  BY DEF Work, Claim, SkipDone, FindPending, LookUp, ReadHead, AdvanceHead,
     InsertRecord, InsertCollides, RollBack, Confirm
<1>4. Seqs \subseteq Seqs'
  BY <1>3 DEF Seqs
<1>5. CASE pc[h] # "insert" /\ UNCHANGED head
  <2>1. pc'[h] # "rollback"
    BY <1>1, <1>5 DEF TypeOK, Goto, Forget, GiveBack, Work, Claim, SkipDone,
       FindPending, LookUp, ReadHead, AdvanceHead, InsertRecord,
       InsertCollides, RollBack, Confirm
  <2>2. QED
    BY <1>0, <1>2, <1>4, <1>5, <2>1 DEF Filled
<1>6. CASE AdvanceHead(h) /\ head = prev[h]
  <2>1. /\ pc[h] = "cas" /\ pc' = [pc EXCEPT ![h] = "insert"]
        /\ head' = linkRecord(h)
        /\ UNCHANGED <<job, prev>>
    BY <1>6 DEF AdvanceHead, Goto
  <2>2. job[h] \in Items
    BY <2>1 DEF TypeOK
  <2>3. Len(head') = Len(head) + 1 /\ Len(head) \in Nat
    BY <1>6, <2>1, <2>2, LinkedRecord
  <2>4. pc'[h] = "insert" /\ linkRecord(h)' = head'
    BY <2>1 DEF linkRecord, TypeOK
  <2>5. \A i : i = Len(head') => Held(i)'
    BY <2>4 DEF Held
  <2>6. \A i \in 1..Len(head) : Filled(i)'
    BY <1>0, <1>2, <1>4, <2>1 DEF Filled
  <2>7. QED
    BY <2>3, <2>4, <2>5, <2>6 DEF Filled
<1>7. CASE InsertRecord(h)
  <2>1. /\ pc'[h] # "rollback"
        /\ records' = records \union {linkRecord(h)}
        /\ UNCHANGED head
    BY <1>7 DEF InsertRecord, Goto, Forget, TypeOK
  <2>2. Len(linkRecord(h)) \in Seqs'
    BY <2>1 DEF Seqs
  <2>3. QED
    BY <1>0, <1>2, <1>4, <2>1, <2>2 DEF Filled
<1>8. ~InsertCollides(h)
  BY DEF InsertCollides, OneHistory, Midway
<1>9. ~RollBack(h)
  BY <1>1 DEF RollBack
<1>10. QED
  BY <1>5, <1>6, <1>7, <1>8, <1>9
     DEF Work, Claim, SkipDone, FindPending, LookUp, ReadHead, AdvanceHead,
         Confirm

LEMMA StepNoGaps ==
  ASSUME TypeOK, Linked, NoGaps, [Next]_vars
  PROVE  NoGaps'
<1> SUFFICES ASSUME Smooth'
             PROVE  /\ \A h \in Handlers : pc'[h] # "rollback"
                    /\ \A i \in 1..Len(head') : Filled(i)'
  BY DEF NoGaps, Smooth, Filled, Held
<1>0. Smooth /\ OneHistory
  BY FaultsStay DEF Smooth, Linked
<1>00. /\ \A h \in Handlers : pc[h] # "rollback"
       /\ \A i \in 1..Len(head) : Filled(i)
  BY <1>0 DEF NoGaps, Smooth, Filled, Held
<1>1. ASSUME NEW h \in Handlers, NEW i \in Items, Receive(h, i)
      PROVE  /\ \A g \in Handlers : pc'[g] # "rollback"
             /\ \A j \in 1..Len(head') : Filled(j)'
  <2>1. \A g \in Handlers :
          /\ pc'[g] # "rollback"
          /\ pc[g] = "insert" =>
               pc'[g] = "insert" /\ linkRecord(g)' = linkRecord(g)
    BY <1>00, <1>1 DEF Receive, Goto, TypeOK, linkRecord
  <2>2. UNCHANGED <<head, records>>
    BY <1>1 DEF Receive
  <2>3. QED
    BY <1>00, <2>1, <2>2 DEF Filled, Held, Seqs
<1>2. ASSUME NEW h \in Handlers, Work(h)
      PROVE  /\ \A g \in Handlers : pc'[g] # "rollback"
             /\ \A j \in 1..Len(head') : Filled(j)'
  <2>1. /\ pc'[h] # "rollback"
        /\ \A j \in 1..Len(head') : Filled(j)'
    BY <1>0, <1>2, WorkLeavesNoGap
  <2>2. \A g \in Handlers \ {h} : Midway(g)' <=> Midway(g)
    BY <1>2, OthersGoOn DEF Elsewhere
  <2>3. \A g \in Handlers \ {h} : pc'[g] = pc[g]
    BY <1>2 DEF TypeOK, Goto, Forget, GiveBack, Work, Claim, SkipDone,
       FindPending, LookUp, ReadHead, AdvanceHead, InsertRecord,
       InsertCollides, RollBack, Confirm
  <2>4. QED
    BY <1>00, <2>1, <2>3
<1>3. ASSUME NEW h \in Handlers PROVE ~Mishap(h)
  BY DEF Mishap, CallRejects, InsertRejects, InsertAnswerLost, Crash,
     GoesWrong, Smooth, Never, TypeOK
<1>4. ASSUME NEW e \in Events, Duplicate(e)
      PROVE  /\ \A g \in Handlers : pc'[g] # "rollback"
             /\ \A j \in 1..Len(head') : Filled(j)'
  BY <1>00, <1>4 DEF Duplicate, Filled, Held, Seqs, linkRecord
<1>5. CASE UNCHANGED vars
  BY <1>00, <1>5 DEF vars, Filled, Held, Seqs, linkRecord
<1>6. QED
  BY <1>1, <1>2, <1>3, <1>4, <1>5 DEF Next
-----------------------------------------------------------------------------
(* What a step may add to the chain: the item of the handler that acts.    *)
LEMMA WhatIsRecorded ==
  ASSUME TypeOK, NEW h \in Handlers, pc[h] = "insert",
         records' = records \union {linkRecord(h)}
  PROVE  \A i : Recorded(i)' <=> Recorded(i) \/ i = job[h]
<1>1. job[h] \in Items
  BY DEF TypeOK
<1>2. linkRecord(h)[Len(linkRecord(h))] = job[h]
  BY <1>1, LinkedRecord
<1>3. QED
  BY <1>2 DEF Recorded

LEMMA RecordsStay ==
  ASSUME TypeOK, [Next]_vars
  PROVE  records \subseteq records'
BY DEF Next, vars, Receive, Work, Claim, SkipDone, FindPending, LookUp,
   ReadHead, AdvanceHead, InsertRecord, InsertCollides, RollBack, Confirm,
   Mishap, CallRejects, InsertRejects, InsertAnswerLost, Crash, Duplicate

(* Who gives its event back, or finds it recorded, loses nothing.          *)
LEMMA LettingGo ==
  ASSUME TypeOK, DoneIsRecorded, NoEventIsLost, [Next]_vars,
         NEW h \in Handlers, Forget(h),
         \/ GiveBack(h)
         \/ UNCHANGED due /\ (\A e \in Events : e = job[h] => Recorded(e)')
  PROVE  NoEventIsLost'
<1> SUFFICES ASSUME NEW e \in Events, due'[e] = 0,
                    \A g \in Handlers : job'[g] # e
             PROVE  Recorded(e)'
  BY DEF NoEventIsLost
<1>1. \A g \in Handlers \ {h} : job[g] # e
  BY DEF Forget, TypeOK
<1>2. CASE job[h] = e
  <2>1. ~GiveBack(h)
    <3>1. due[e] \in Nat /\ e \in Items
      BY DEF TypeOK, Items
    <3>2. GiveBack(h) => due'[e] = due[e] + 1
      BY <1>2, <3>1 DEF GiveBack, TypeOK
    <3>3. QED
      BY <3>1, <3>2
  <2>2. QED
    BY <1>2, <2>1
<1>3. CASE job[h] # e
  <2>1. due[e] = 0
    BY <1>3 DEF GiveBack, TypeOK, Items
  <2>2. Recorded(e)
    BY <1>1, <1>3, <2>1 DEF NoEventIsLost
  <2>3. QED
    BY <2>2, RecordsStay DEF Recorded
<1>4. QED
  BY <1>2, <1>3

LEMMA StepKept ==
  ASSUME TypeOK, IdleIsFree, DoneIsRecorded, NoEventIsLost, [Next]_vars
  PROVE  DoneIsRecorded' /\ NoEventIsLost'
<1>0. \A i : Recorded(i) => Recorded(i)'
  BY RecordsStay DEF Recorded
<1>1. ASSUME NEW h \in Handlers, NEW i \in Items, Receive(h, i)
      PROVE  DoneIsRecorded' /\ NoEventIsLost'
  <2>1. DoneIsRecorded'
    BY <1>0, <1>1 DEF Receive, Goto, TypeOK, DoneIsRecorded
  <2>2. \A g \in Handlers : pc[g] # "idle" => job'[g] = job[g]
    BY <1>1 DEF Receive, TypeOK
  <2>3. \A g \in Handlers : pc[g] = "idle" => job[g] \notin Events
    BY ChainAssumption DEF IdleIsFree, Items
  <2>4. ASSUME NEW e \in Events, due'[e] = 0,
               \A g \in Handlers : job'[g] # e
        PROVE  Recorded(e)'
    <3>1. job'[h] = i
      BY <1>1 DEF Receive, TypeOK
    <3>2. due[e] = 0
      BY <1>1, <2>4, <3>1 DEF Receive, TypeOK, Items
    <3>3. \A g \in Handlers : job[g] # e
      BY <2>2, <2>3, <2>4
    <3>4. QED
      BY <1>0, <3>2, <3>3 DEF NoEventIsLost
  <2>5. QED
    BY <2>1, <2>4 DEF NoEventIsLost
<1>2. ASSUME NEW h \in Handlers, UNCHANGED <<due, job>>
      PROVE  NoEventIsLost'
  BY <1>0, <1>2 DEF NoEventIsLost
<1>3. ASSUME NEW h \in Handlers, Work(h)
      PROVE  DoneIsRecorded' /\ NoEventIsLost'
  <2>1. CASE Claim(h) \/ FindPending(h) \/ LookUp(h) \/ ReadHead(h)
             \/ AdvanceHead(h) \/ InsertCollides(h)
    <3>1. DoneIsRecorded'
      BY <1>0, <2>1 DEF DoneIsRecorded, TypeOK, Goto, Claim, FindPending,
         LookUp, ReadHead, AdvanceHead, InsertCollides
    <3>2. UNCHANGED <<due, job>>
      BY <2>1 DEF Claim, FindPending, LookUp, ReadHead, AdvanceHead,
         InsertCollides
    <3>3. QED
      BY <1>2, <3>1, <3>2
  <2>2. CASE SkipDone(h)
    <3>1. job[h] \in Events /\ Recorded(job[h])
      BY <2>2 DEF SkipDone, TypeOK, DoneIsRecorded
    <3>0. Forget(h) /\ UNCHANGED due
      BY <2>2 DEF SkipDone
    <3>2. NoEventIsLost'
      BY <1>0, <3>0, <3>1, LettingGo
    <3>3. DoneIsRecorded'
      BY <1>0, <2>2 DEF SkipDone, Forget, Goto, TypeOK, DoneIsRecorded
    <3>4. QED
      BY <3>2, <3>3
  <2>3. CASE InsertRecord(h)
    <3>0. pc[h] = "insert" /\ records' = records \union {linkRecord(h)}
      BY <2>3 DEF InsertRecord
    <3>1. \A i : i = job[h] => Recorded(i)'
      BY <3>0, WhatIsRecorded
    <3>2. CASE job[h] \in Events
      <4>1. NoEventIsLost'
        BY <1>2, <2>3, <3>2 DEF InsertRecord
      <4>2. DoneIsRecorded'
        <5>1. /\ pc' = [pc EXCEPT ![h] = "confirm"]
              /\ UNCHANGED <<job, claim>>
          BY <2>3, <3>2 DEF InsertRecord, Goto
        <5>2. QED
          BY <1>0, <3>1, <5>1 DEF DoneIsRecorded, TypeOK
      <4>3. QED
        BY <4>1, <4>2
    <3>3. CASE job[h] \notin Events
      <4>1. Forget(h) /\ UNCHANGED <<due, claim>>
        BY <2>3, <3>3 DEF InsertRecord
      <4>2. NoEventIsLost'
        BY <3>3, <4>1, LettingGo
      <4>3. DoneIsRecorded'
        BY <1>0, <4>1 DEF Forget, Goto, DoneIsRecorded, TypeOK
      <4>4. QED
        BY <4>2, <4>3
    <3>4. QED
      BY <3>2, <3>3
  <2>4. CASE RollBack(h)
    <3>1. GiveBack(h) /\ Forget(h) /\ UNCHANGED claim
      BY <2>4 DEF RollBack, GiveBack
    <3>2. DoneIsRecorded'
      BY <1>0, <3>1 DEF Forget, Goto, DoneIsRecorded, TypeOK
    <3>3. QED
      BY <3>1, <3>2, LettingGo
  <2>5. CASE Confirm(h)
    <3>1. job[h] \in Events /\ Recorded(job[h])
      BY <2>5 DEF Confirm, TypeOK, DoneIsRecorded
    <3>2. Forget(h) /\ UNCHANGED due /\ claim' = [claim EXCEPT ![job[h]] = "done"]
      BY <2>5 DEF Confirm
    <3>3. DoneIsRecorded'
      BY <1>0, <3>1, <3>2 DEF Forget, Goto, DoneIsRecorded, TypeOK
    <3>4. QED
      BY <1>0, <3>1, <3>2, <3>3, LettingGo
  <2>6. QED
    BY <1>3, <2>1, <2>2, <2>3, <2>4, <2>5 DEF Work
<1>4. ASSUME NEW h \in Handlers, Mishap(h)
      PROVE  DoneIsRecorded' /\ NoEventIsLost'
  <2>1. CASE CallRejects(h)
    <3>1. GiveBack(h) /\ Forget(h)
      BY <2>1 DEF CallRejects, GiveBack
    <3>2. \A e \in Events : claim'[e] = "done" =>
             claim[e] = "done" \/ (pc[h] = "confirm" /\ e = job[h])
      BY <2>1 DEF CallRejects, Applied, TypeOK
    <3>3. DoneIsRecorded'
      BY <1>0, <3>1, <3>2 DEF Forget, Goto, DoneIsRecorded, TypeOK
    <3>4. QED
      BY <3>1, <3>3, LettingGo
  <2>2. CASE InsertRejects(h) \/ InsertAnswerLost(h)
    <3>1. UNCHANGED <<due, job, claim>> /\ pc' = [pc EXCEPT ![h] = "rollback"]
      BY <2>2 DEF InsertRejects, InsertAnswerLost, Goto
    <3>2. DoneIsRecorded'
      BY <1>0, <3>1 DEF DoneIsRecorded, TypeOK
    <3>3. QED
      BY <1>2, <3>1, <3>2
  <2>3. CASE Crash(h)
    <3>1. GiveBack(h) /\ Forget(h) /\ UNCHANGED claim
      BY <2>3 DEF Crash, GiveBack
    <3>2. DoneIsRecorded'
      BY <1>0, <3>1 DEF Forget, Goto, DoneIsRecorded, TypeOK
    <3>3. QED
      BY <3>1, <3>2, LettingGo
  <2>4. QED
    BY <1>4, <2>1, <2>2, <2>3 DEF Mishap
<1>5. ASSUME NEW e \in Events, Duplicate(e)
      PROVE  DoneIsRecorded' /\ NoEventIsLost'
  <2>1. DoneIsRecorded'
    BY <1>5, <1>0 DEF Duplicate, DoneIsRecorded
  <2>2. \A d \in Events : due'[d] = 0 => due[d] = 0
    BY <1>5 DEF Duplicate, TypeOK, Items
  <2>3. NoEventIsLost'
    BY <1>0, <1>5, <2>2 DEF Duplicate, NoEventIsLost
  <2>4. QED
    BY <2>1, <2>3
<1>6. CASE UNCHANGED vars
  BY <1>6 DEF vars, DoneIsRecorded, NoEventIsLost, Recorded
<1>7. QED
  BY <1>1, <1>3, <1>4, <1>5, <1>6 DEF Next

-----------------------------------------------------------------------------
(* What an action of one handler does with its item: keeps it, is done with *)
(* it, or gives it back.                                                    *)
HandOver(h) ==
  \/ UNCHANGED <<due, job>>
  \/ (Forget(h) /\ UNCHANGED due)
  \/ GiveBack(h)

(* What it does to the chain: nothing, or it stores the record in hand.    *)
Stores(h) ==
  \/ UNCHANGED records
  \/ (pc[h] = "insert" /\ records' = records \union {linkRecord(h)})

(* And to the claims: one that was made stays.                             *)
ClaimsStay ==
  \A e \in Events : claim[e] # "none" => claim'[e] # "none"

LEMMA WhatAnActionDoes ==
  ASSUME TypeOK, NEW h \in Handlers, Work(h) \/ Mishap(h)
  PROVE  HandOver(h) /\ Stores(h) /\ ClaimsStay
<1>1. HandOver(h)
  BY DEF HandOver, Work, Claim, SkipDone, FindPending, LookUp, ReadHead,
     AdvanceHead, InsertRecord, InsertCollides, RollBack, Confirm, Mishap,
     CallRejects, InsertRejects, InsertAnswerLost, Crash
<1>2. Stores(h)
  BY DEF Stores, Work, Claim, SkipDone, FindPending, LookUp, ReadHead,
     AdvanceHead, InsertRecord, InsertCollides, RollBack, Confirm, Mishap,
     CallRejects, InsertRejects, InsertAnswerLost, Crash
<1>3. ClaimsStay
  BY DEF TypeOK, ClaimsStay, Work, Claim, SkipDone, FindPending, LookUp,
     ReadHead, AdvanceHead, InsertRecord, InsertCollides, RollBack, Confirm,
     Mishap, CallRejects, InsertRejects, InsertAnswerLost, Crash, Applied
<1>4. QED
  BY <1>1, <1>2, <1>3

LEMMA OthersStay ==
  ASSUME TypeOK, NEW h \in Handlers, Work(h) \/ Mishap(h)
  PROVE  \A g \in Handlers \ {h} : pc'[g] = pc[g] /\ job'[g] = job[g]
BY DEF TypeOK, Goto, Forget, GiveBack, Work, Claim, SkipDone, FindPending,
   LookUp, ReadHead, AdvanceHead, InsertRecord, InsertCollides, RollBack,
   Confirm, Mishap, CallRejects, InsertRejects, InsertAnswerLost, Crash

(* What else is in the chain afterwards is the item in hand.               *)
LEMMA OnlyItsOwn ==
  ASSUME TypeOK, NEW h \in Handlers, Stores(h)
  PROVE  \A i : Recorded(i)' =>
           Recorded(i) \/ (pc[h] = "insert" /\ i = job[h])
<1>1. CASE UNCHANGED records
  BY <1>1 DEF Recorded
<1>2. CASE pc[h] = "insert" /\ records' = records \union {linkRecord(h)}
  BY <1>2, WhatIsRecorded
<1>3. QED
  BY <1>1, <1>2 DEF Stores

LEMMA StepUnclaimed ==
  ASSUME TypeOK, IdleIsFree, UnclaimedIsUntouched, [Next]_vars
  PROVE  UnclaimedIsUntouched'
<1>1. ASSUME NEW h \in Handlers, NEW i \in Items, Receive(h, i)
      PROVE  UnclaimedIsUntouched'
  <2>1. UNCHANGED <<claim, records>>
    BY <1>1 DEF Receive
  <2>2. \A g \in Handlers :
          \/ (job'[g] = job[g] /\ pc'[g] = pc[g])
          \/ (job'[g] \in Events => pc'[g] = "claim")
    BY <1>1 DEF Receive, Goto, TypeOK
  <2>3. QED
    BY <2>1, <2>2 DEF UnclaimedIsUntouched, Recorded
<1>2. ASSUME NEW h \in Handlers, Work(h) \/ Mishap(h)
      PROVE  UnclaimedIsUntouched'
  <2>1. HandOver(h) /\ Stores(h) /\ ClaimsStay
    BY <1>2, WhatAnActionDoes
  <2>2. ASSUME NEW e \in Events, claim'[e] = "none" PROVE ~Recorded(e)'
    <3>1. claim[e] = "none"
      BY <2>1, <2>2 DEF ClaimsStay
    <3>2. ~Recorded(e) /\ ~(pc[h] = "insert" /\ e = job[h])
      BY <3>1 DEF UnclaimedIsUntouched
    <3>3. QED
      BY <2>1, <3>2, OnlyItsOwn
  <2>3. job'[h] \in Events => job'[h] = job[h]
    BY <2>1, ChainAssumption DEF HandOver, Forget, GiveBack, TypeOK, Items
  <2>4. pc[h] = "claim" /\ job'[h] = job[h] /\ pc'[h] # "claim"
          => claim'[job[h]] # "none"
    <3>1. SUFFICES ASSUME pc[h] = "claim", job'[h] = job[h], pc'[h] # "claim"
                   PROVE  claim'[job[h]] # "none"
      OBVIOUS
    <3>2. job[h] \in Events
      BY <3>1 DEF TypeOK
    <3>3. ~Forget(h)
      BY <3>1, <3>2, ChainAssumption DEF Forget, TypeOK, Items
    <3>4. Claim(h)
      BY <1>2, <3>1, <3>3 DEF Work, SkipDone, FindPending, LookUp, ReadHead,
         AdvanceHead, InsertRecord, InsertCollides, RollBack, Confirm, Mishap,
         CallRejects, InsertRejects, InsertAnswerLost, Crash, GiveBack
    <3>5. QED
      BY <3>2, <3>4 DEF Claim, TypeOK
  <2>5. job'[h] \in Events /\ pc'[h] # "claim" => claim'[job'[h]] # "none"
    BY <2>1, <2>3, <2>4 DEF UnclaimedIsUntouched, ClaimsStay
  <2>6. \A g \in Handlers \ {h} :
          job'[g] \in Events /\ pc'[g] # "claim" => claim'[job'[g]] # "none"
    BY <1>2, <2>1, OthersStay DEF UnclaimedIsUntouched, ClaimsStay
  <2>7. QED
    BY <2>2, <2>5, <2>6 DEF UnclaimedIsUntouched
<1>3. ASSUME NEW e \in Events, Duplicate(e) PROVE UnclaimedIsUntouched'
  BY <1>3 DEF Duplicate, UnclaimedIsUntouched, Recorded
<1>4. CASE UNCHANGED vars
  BY <1>4 DEF vars, UnclaimedIsUntouched, Recorded
<1>5. QED
  BY <1>1, <1>2, <1>3, <1>4 DEF Next

-----------------------------------------------------------------------------
(* The item of a copy is in one place.                                     *)
OnePlace ==
  /\ \A i \in Items : due[i] <= 1
  /\ \A h \in Handlers : job[h] \in Items => due[job[h]] = 0
  /\ \A g, h \in Handlers : job[g] \in Items /\ job[g] = job[h] => g = h

AppendingIsNew == \A h \in Handlers : Appending(h) => ~Recorded(job[h])

RecordsDiffer ==
  \A e \in Events, q, r \in records :
    q[Len(q)] = e /\ r[Len(r)] = e => q = r

LEMMA ReceiveOne ==
  ASSUME TypeOK, OnePlace, AppendingIsNew,
         NEW h \in Handlers, NEW i \in Items, Receive(h, i)
  PROVE  OnePlace' /\ AppendingIsNew'
<1>1. /\ due' = [due EXCEPT ![i] = due[i] - 1]
      /\ job' = [job EXCEPT ![h] = i]
      /\ due[i] = 1
  BY DEF Receive, OnePlace, TypeOK
<1>2. \A g \in Handlers : job[g] # i
  BY <1>1 DEF OnePlace
<1>3. OnePlace'
  BY <1>1, <1>2 DEF OnePlace, TypeOK
<1>4. \A g \in Handlers : Appending(g)' => Appending(g) /\ job'[g] = job[g]
  BY DEF Receive, Goto, Appending, TypeOK
<1>5. QED
  BY <1>3, <1>4 DEF AppendingIsNew, Receive, Recorded

LEMMA HandOverOne ==
  ASSUME TypeOK, OnePlace, NEW h \in Handlers, HandOver(h)
  PROVE  OnePlace'
<1>1. CASE UNCHANGED <<due, job>>
  BY <1>1 DEF OnePlace
<1>2. CASE Forget(h) /\ UNCHANGED due
  BY <1>2, ChainAssumption DEF Forget, OnePlace, TypeOK
<1>3. CASE GiveBack(h)
  <2>1. job' = [job EXCEPT ![h] = NoItem]
    BY <1>3 DEF GiveBack, Forget
  <2>2. CASE job[h] \in Events
    <3>1. due' = [due EXCEPT ![job[h]] = due[job[h]] + 1] /\ due[job[h]] = 0
      BY <1>3, <2>2 DEF GiveBack, OnePlace, Items
    <3>2. QED
      BY <2>1, <3>1, ChainAssumption DEF OnePlace, TypeOK
  <2>3. CASE job[h] \notin Events
    BY <1>3, <2>1, <2>3, ChainAssumption DEF GiveBack, OnePlace, TypeOK
  <2>4. QED
    BY <2>2, <2>3
<1>4. QED
  BY <1>1, <1>2, <1>3 DEF HandOver

(* A handler starts to append an event it finds not appended.              *)
LEMMA StartsNew ==
  ASSUME TypeOK, UnclaimedIsUntouched, AppendingIsNew,
         NEW h \in Handlers, Work(h) \/ Mishap(h), Appending(h)'
  PROVE  /\ job'[h] = job[h]
         /\ ~Recorded(job[h])
         /\ UNCHANGED records
<1>1. job[h] \in Events /\ job'[h] = job[h]
  <2>1. job'[h] # NoItem
    BY ChainAssumption DEF Appending, Items
  <2>2. job'[h] = job[h]
    BY <2>1, WhatAnActionDoes DEF HandOver, Forget, GiveBack, TypeOK
  <2>3. QED
    BY <2>2 DEF Appending
<1>2. ~Forget(h)
  BY <1>1, ChainAssumption DEF Forget, TypeOK, Items
<1>3. Claim(h) \/ LookUp(h) \/ ReadHead(h) \/ AdvanceHead(h)
  BY <1>2 DEF Appending, TypeOK, Goto, Work, SkipDone, FindPending,
     InsertRecord, InsertCollides, RollBack, Confirm, Mishap,
     CallRejects, InsertRejects, InsertAnswerLost, Crash, GiveBack
<1>4. UNCHANGED records
  BY <1>3 DEF Claim, LookUp, ReadHead, AdvanceHead
<1>5. CASE Claim(h)
  <2>1. claim[job[h]] = "none"
    BY <1>5 DEF Claim, Goto, Appending, TypeOK
  <2>2. QED
    BY <1>1, <1>4, <2>1 DEF UnclaimedIsUntouched
<1>6. CASE LookUp(h)
  BY <1>1, <1>4, <1>6 DEF LookUp, Goto, Appending, TypeOK
<1>7. CASE ReadHead(h) \/ AdvanceHead(h)
  BY <1>1, <1>4, <1>7 DEF ReadHead, AdvanceHead, Appending, AppendingIsNew
<1>8. QED
  BY <1>1, <1>3, <1>4, <1>5, <1>6, <1>7

(* An append that is under way is the only one of its event.               *)
LEMMA ActOne ==
  ASSUME TypeOK, UnclaimedIsUntouched, OnePlace, AppendingIsNew,
         RecordsDiffer, NEW h \in Handlers, Work(h) \/ Mishap(h)
  PROVE  OnePlace' /\ AppendingIsNew' /\ RecordsDiffer'
<1>1. HandOver(h) /\ Stores(h)
  BY WhatAnActionDoes
<1>2. OnePlace'
  BY <1>1, HandOverOne
<1>3. ASSUME NEW g \in Handlers, Appending(g)', g # h
      PROVE  ~Recorded(job[g])' /\ job'[g] = job[g]
  <2>1. pc'[g] = pc[g] /\ job'[g] = job[g] /\ Appending(g)
    BY <1>3, OthersStay DEF Appending
  <2>2. job[g] \in Items
    BY <2>1 DEF Appending, Items
  <2>3. job[g] # job[h]
    BY <1>3, <2>2 DEF OnePlace
  <2>4. \A i : i = job[g] => ~Recorded(i)'
    BY <1>1, <2>1, <2>3, OnlyItsOwn DEF AppendingIsNew
  <2>5. QED
    BY <2>1, <2>4
<1>4. AppendingIsNew'
  <2>1. ASSUME Appending(h)' PROVE ~Recorded(job[h])'
    BY <2>1, StartsNew DEF Recorded
  <2>2. QED
    BY <1>3, <2>1 DEF AppendingIsNew
<1>5. RecordsDiffer'
  <2>1. CASE UNCHANGED records
    BY <2>1 DEF RecordsDiffer
  <2>2. CASE pc[h] = "insert" /\ records' = records \union {linkRecord(h)}
    <3>1. job[h] \in Items
      BY <2>2 DEF TypeOK
    <3>2. linkRecord(h)[Len(linkRecord(h))] = job[h]
      BY <3>1, LinkedRecord
    <3>3. job[h] \in Events => \A r \in records : r[Len(r)] # job[h]
      BY <2>2 DEF AppendingIsNew, Appending, Recorded
    <3>4. QED
      BY <2>2, <3>2, <3>3 DEF RecordsDiffer
  <2>3. QED
    BY <1>1, <2>1, <2>2 DEF Stores
<1>6. QED
  BY <1>2, <1>4, <1>5

LEMMA StepOneCopy ==
  ASSUME TypeOK, UnclaimedIsUntouched, OneCopy, [Next]_vars
  PROVE  OneCopy'
<1> SUFFICES ASSUME Never("duplicate")'
             PROVE  OnePlace' /\ AppendingIsNew' /\ RecordsDiffer'
  BY DEF OneCopy, NoDuplicateRecord, OnePlace, AppendingIsNew, RecordsDiffer
<1>0. Never("duplicate")
  BY FaultsStay
<1>1. OnePlace /\ AppendingIsNew /\ RecordsDiffer
  BY <1>0
     DEF OneCopy, NoDuplicateRecord, OnePlace, AppendingIsNew, RecordsDiffer
<1>2. ASSUME NEW h \in Handlers, NEW i \in Items, Receive(h, i)
      PROVE  OnePlace' /\ AppendingIsNew' /\ RecordsDiffer'
  BY <1>1, <1>2, ReceiveOne DEF Receive, RecordsDiffer
<1>3. ASSUME NEW h \in Handlers, Work(h) \/ Mishap(h)
      PROVE  OnePlace' /\ AppendingIsNew' /\ RecordsDiffer'
  BY <1>1, <1>3, ActOne
<1>4. ASSUME NEW e \in Events PROVE ~Duplicate(e)
  BY DEF Duplicate, GoesWrong, Never, TypeOK
<1>5. CASE UNCHANGED vars
  BY <1>1, <1>5
     DEF vars, OnePlace, AppendingIsNew, Appending, RecordsDiffer, Recorded
<1>6. QED
  BY <1>2, <1>3, <1>4, <1>5 DEF Next

-----------------------------------------------------------------------------
(* The invariant holds: the history is one line, no step leaves a gap, and *)
(* an event is where its claim says it is.                                 *)
THEOREM Invariant == Spec => []IInv
<1>1. IInv /\ [Next]_vars => IInv'
  BY StepTypes, StepLinked, StepNoGaps, StepKept, StepUnclaimed, StepOneCopy
     DEF IInv
<1>2. QED
  BY <1>1, NothingYet, PTL DEF Spec

(* The types of the database's and the handlers' state.                    *)
THEOREM TypeCorrect == Spec => []TypeOK
BY Invariant, PTL DEF IInv

(* The stored records lie on one line of history: whatever is refused,     *)
(* rolled back or dies, a record continues every record before it, over    *)
(* gaps too, unless an insert was applied that rejected.                   *)
THEOREM PrevHashes == Spec => []PrevHashIsNeverStale
<1>1. IInv => PrevHashIsNeverStale
  <2> SUFFICES ASSUME IInv, Never("insert"), NEW q \in records,
                      NEW r \in records, Len(q) <= Len(r)
               PROVE  SubSeq(r, 1, Len(q)) = q
    BY DEF PrevHashIsNeverStale
  <2>1. IsInitial(q, head) /\ IsInitial(r, head)
    BY DEF IInv, Linked, OneHistory
  <2>2. q \in Seq(Items) /\ r \in Seq(Items) /\ Len(q) \in Nat /\ Len(r) \in Nat
    BY LenProperties DEF IInv, TypeOK
  <2>3. \A i \in 1..Len(q) : q[i] = r[i]
    BY <2>1, <2>2 DEF IsInitial
  <2>4. /\ SubSeq(r, 1, Len(q)) \in Seq(Items)
        /\ Len(SubSeq(r, 1, Len(q))) = Len(q)
        /\ \A i \in 1..Len(q) : SubSeq(r, 1, Len(q))[i] = r[i]
    BY <2>2
  <2> QED
    BY <2>2, <2>3, <2>4, SeqEqual
<1>2. QED
  BY <1>1, Invariant, PTL

(* Without failures the chain has no gap while nobody is between its two   *)
(* writes.                                                                 *)
THEOREM ChainComplete == Spec => []ChainIsComplete
<1>1. IInv => ChainIsComplete
  <2> SUFFICES ASSUME IInv,
                      \A f \in {"call", "insert", "crash"} : Never(f),
                      \A h \in Handlers : pc[h] # "insert"
               PROVE  Seqs = 1..Len(head)
    BY DEF ChainIsComplete
  <2>1. \A i \in 1..Len(head) : i \in Seqs
    BY DEF IInv, NoGaps
  <2>2. \A r \in records : Len(r) \in Nat \ {0} /\ Len(r) <= Len(head)
    BY Places DEF IInv, Linked, OneHistory, IsInitial
  <2>3. Len(head) \in Nat
    BY Places DEF IInv
  <2>4. QED
    BY <2>1, <2>2, <2>3 DEF Seqs
<1>2. QED
  BY <1>1, Invariant, PTL

(* An event nobody holds any more is in the chain.                         *)
THEOREM NothingLost == Spec => []NoEventIsLost
BY Invariant, PTL DEF IInv

(* An event the bus delivers once at a time is in the chain once.          *)
THEOREM NoDuplicates == Spec => []NoDuplicateRecord
<1>1. IInv => NoDuplicateRecord
  BY DEF IInv, OneCopy, NoDuplicateRecord
<1>2. QED
  BY <1>1, Invariant, PTL

(* The unique index refuses an append only after the answer to an insert   *)
(* was lost: races, refused inserts, rollbacks and crashes alone never     *)
(* make two appends meet at one place.                                     *)
CollisionsFollowALoss ==
  [][\A h \in Handlers : InsertCollides(h) => ~Never("insert")]_vars

(* The head is never rolled back behind a stored record.                   *)
HeadIsInFront ==
  Never("insert") => \A r \in records : Len(r) <= Len(head)

(* The cause of a chain that no event gets into is the lost answer alone:  *)
(* without it the head stays in front of the records and no append is ever *)
(* refused, with any number of handlers, failures and crashes.             *)
THEOREM OnlyALossWedges == Spec => CollisionsFollowALoss /\ []HeadIsInFront
<1>1. IInv => HeadIsInFront
  BY DEF IInv, Linked, OneHistory, IsInitial, HeadIsInFront
<1>2. IInv /\ [Next]_vars =>
        [\A h \in Handlers : InsertCollides(h) => ~Never("insert")]_vars
  BY DEF IInv, Linked, OneHistory, Midway, InsertCollides
<1>3. QED
  BY <1>1, <1>2, Invariant, PTL DEF Spec, CollisionsFollowALoss
=============================================================================
